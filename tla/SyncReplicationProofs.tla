------------------------ MODULE SyncReplicationProofs ------------------------
(***************************************************************************)
(* Proofs about signed sync for every number of devices, records and       *)
(* operations, every bound, and both providers.                            *)
(***************************************************************************)
EXTENDS SyncReplication, WellFoundedInduction, FiniteSetTheorems, TLAPS

(* The merge of crates/core/src/sync/merge.rs: applying an operation that  *)
(* no known operation follows takes the heads, the value and the conflict  *)
(* of a record from the unsuperseded operations before to those after.     *)

(* A set of operations with anything in it has one with a least id, so the *)
(* sort by operation_id in the vault has a first element.                  *)
LEMMA LeastIdIsLeast ==
  ASSUME NEW ops \in SUBSET Op, ops # {}
  PROVE  /\ LeastId(ops) \in ops
         /\ \A p \in ops : LeastId(ops).id <= p.id
<1> DEFINE ids == {o.id : o \in ops}
<1>1. ids \subseteq Nat /\ ids # {}
  BY DEF Op
<1>2. \E i \in ids : \A j \in ids : ~ (<<j, i>> \in OpToRel(<, Nat))
  <2> HIDE DEF ids
  <2> QED BY <1>1, NatLessThanWellFounded, WFMin
<1>3. \A i, j \in Nat : j < i => <<j, i>> \in OpToRel(<, Nat)
  BY DEF OpToRel
<1>4. \E i \in ids : \A j \in ids : i <= j
  <2> HIDE DEF ids
  <2>1. PICK i \in ids : \A j \in ids : ~ (<<j, i>> \in OpToRel(<, Nat))
    BY <1>2
  <2>2. \A j \in ids : i \in Nat /\ j \in Nat /\ ~(j < i)
    BY <1>1, <1>3, <2>1
  <2> QED BY <2>2
<1>5. \E o \in ops : \A p \in ops : o.id <= p.id
  BY <1>4
<1> QED BY <1>5 DEF LeastId

(* The only operation of a set is its least one. *)
LEMMA LeastIdSingleton ==
  ASSUME NEW o \in Op
  PROVE  LeastId({o}) = o
BY LeastIdIsLeast

(* Types of the merge results. *)
LEMMA MergeTypes ==
  ASSUME NEW o \in Op, NEW heads \in SUBSET Op, NEW old \in SUBSET Op
  PROVE  /\ MergedHeads(o, heads) \in SUBSET Op
         /\ MergedLive(o, heads, old) \in SUBSET Op
         /\ MergedConflict(o, heads, old) \in SUBSET Op
<1> DEFINE d == DecideMerge(o, heads)
           merged == MergedHeads(o, heads)
<1>1. merged \in SUBSET Op
  BY DEF MergedHeads
<1>2. d.kind \in {"ReplaceHeads", "NoLiveChange", "AddConflictHead"}
  BY DEF DecideMerge
<1>3. CASE d.kind = "AddConflictHead"
  <2>1. /\ merged = (heads \ d.remove) \union {o}
        /\ d.remove = {h \in heads : CompareOperations(o, h) = "After"}
        /\ d.remove # heads
        /\ ~ \E h \in heads : CompareOperations(o, h) \in {"Before", "Equal"}
    BY <1>3 DEF MergedHeads, DecideMerge
  <2>2. o \notin heads
    <3>1. CompareOperations(o, o) = "Equal"
      BY DEF CompareOperations, Op
    <3> QED BY <2>1, <3>1
  <2>3. PICK h \in heads : h \notin d.remove
    BY <2>1
  <2>4. o \in merged /\ h \in merged /\ h # o
    BY <2>1, <2>2, <2>3
  <2>5. LeastId(merged) \in Op
    BY <2>4, <1>1, LeastIdIsLeast
  <2>6. LeastId(merged \ {LeastId(merged)}) \in Op
    BY <2>4, <1>1, LeastIdIsLeast
  <2> QED BY <1>1, <1>3, <2>5, <2>6 DEF MergedLive, MergedConflict, ConflictPair
<1>4. CASE d.kind # "AddConflictHead"
  BY <1>1, <1>4 DEF MergedLive, MergedConflict
<1> QED BY <1>3, <1>4

-----------------------------------------------------------------------------
(* An operation is new to a set when nothing in the set follows it and the *)
(* set holds no other operation of its device from its sequence on.        *)
NewTo(o, ops) ==
  /\ o.front[o.dev] + 1 = o.seq
  /\ \A p \in ops : ~Past(o, p)
  /\ \A p \in ops : p.dev = o.dev => p.seq < o.seq

(* Against an operation of a set it is new to, an operation compares as    *)
(* "After" exactly when it follows it, and never as older or equal.        *)
LEMMA NewComparison ==
  ASSUME NEW o \in Op, NEW p \in Op, NewTo(o, {p})
  PROVE  CompareOperations(o, p) = IF Past(p, o) THEN "After" ELSE "Concurrent"
<1>1. CASE o.dev = p.dev
  BY <1>1 DEF NewTo, CompareOperations, Past, Op
<1>2. CASE o.dev # p.dev
  BY <1>2 DEF NewTo, CompareOperations, Past, Op
<1> QED BY <1>1, <1>2

(* The unsuperseded operations after adding a new one: those it does not   *)
(* supersede and itself, for its own record; nothing changes for others.   *)
LEMMA MaximalStep ==
  ASSUME NEW ops \in SUBSET Op, NEW o \in Op, NewTo(o, ops), NEW r
  PROVE  Maximal(ops \union {o}, r) =
           IF r = o.rec THEN {h \in Maximal(ops, r) : ~Past(h, o)} \union {o}
                        ELSE Maximal(ops, r)
<1>1. ~Past(o, o)
  BY DEF NewTo, Past, Op
<1>2. \A p \in ops : ~Past(o, p)
  BY DEF NewTo
<1> QED BY <1>1, <1>2 DEF Maximal

(* merge.rs is right: on the unsuperseded heads of a record it computes    *)
(* the heads, the value and the conflict of the larger set.                *)
THEOREM MergeIsCorrect ==
  ASSUME NEW ops \in SUBSET Op, NEW o \in Op, NewTo(o, ops),
         NEW old, NEW oldConflict
  PROVE  /\ MergedHeads(o, Maximal(ops, o.rec)) = Maximal(ops \union {o}, o.rec)
         /\ MergedLive(o, Maximal(ops, o.rec), old) = ValueOf(Maximal(ops \union {o}, o.rec))
         /\ MergedConflict(o, Maximal(ops, o.rec), oldConflict) =
              ConflictOf(Maximal(ops \union {o}, o.rec))
<1> DEFINE heads  == Maximal(ops, o.rec)
           merged == Maximal(ops \union {o}, o.rec)
           superseded == {h \in heads : CompareOperations(o, h) = "After"}
<1>1. heads \subseteq ops
  BY DEF Maximal
<1>2. merged = {h \in heads : ~Past(h, o)} \union {o}
  BY MaximalStep
<1>3. \A h \in heads : CompareOperations(o, h) = IF Past(h, o) THEN "After" ELSE "Concurrent"
  <2> TAKE h \in heads
  <2>1. h \in Op /\ NewTo(o, {h})
    BY <1>1 DEF NewTo
  <2> QED BY <2>1, NewComparison
<1>4. superseded = {h \in heads : Past(h, o)}
  BY <1>3
<1>5. ~ \E h \in heads : CompareOperations(o, h) \in {"Before", "Equal"}
  BY <1>3
<1>6. o \notin heads
  BY <1>1 DEF NewTo, Past, Op
<1> HIDE DEF heads, merged, superseded
<1>7. CASE superseded = heads
  <2>1. DecideMerge(o, heads) = [kind |-> "ReplaceHeads", remove |-> heads]
    BY <1>7 DEF DecideMerge, superseded
  <2>2. merged = {o}
    BY <1>2, <1>4, <1>7
  <2>3. LeastId({o}) = o
    BY LeastIdSingleton
  <2>4. MergedHeads(o, heads) = merged
    BY <2>1, <2>2 DEF MergedHeads
  <2>5. /\ MergedLive(o, heads, old) = {LeastId(merged)}
        /\ MergedConflict(o, heads, oldConflict) = {}
    BY <2>1, <2>2, <2>3 DEF MergedLive, MergedConflict
  <2> QED BY <2>2, <2>4, <2>5 DEF ValueOf, ConflictOf, heads, merged
<1>8. CASE superseded # heads
  <2>1. DecideMerge(o, heads) = [kind |-> "AddConflictHead", remove |-> superseded]
    BY <1>5, <1>8 DEF DecideMerge, superseded
  <2>2. MergedHeads(o, heads) = merged
    BY <1>2, <1>4, <2>1 DEF MergedHeads
  <2>3. PICK h \in heads : h \notin superseded
    BY <1>8 DEF superseded
  <2>4. h \in merged /\ o \in merged /\ h # o
    BY <1>2, <1>4, <1>6, <2>3
  <2>5. /\ MergedLive(o, heads, old) = {LeastId(merged)}
        /\ MergedConflict(o, heads, oldConflict) = ConflictPair(merged)
    BY <2>1, <2>2 DEF MergedLive, MergedConflict
  <2> QED BY <2>2, <2>4, <2>5 DEF ValueOf, ConflictOf, heads, merged
<1> QED BY <1>7, <1>8

-----------------------------------------------------------------------------
(* The replication of signed operations. *)

(* Only finitely many rows are ever held or in transit. *)
Finite ==
  /\ IsFiniteSet(server)
  /\ \A d \in Device :
       /\ IsFiniteSet(outbox[d])
       /\ IsFiniteSet(cycle[d].batch)
       /\ IsFiniteSet(cycle[d].got)
       /\ \A batch \in wire[d] : IsFiniteSet(batch)

(* A repair requests, and holds, no more rows than the pull's budget has   *)
(* left.                                                                   *)
RepairWithinBudget ==
  \A d \in Device :
    /\ cycle[d].phase \in {"range", "ranged"} =>
         cycle[d].upto + cycle[d].processed + 1 <= cycle[d].next + MaxOperations
    /\ cycle[d].phase = "repair" =>
         cycle[d].processed + Cardinality(cycle[d].got) <= MaxOperations

TypeInv == TypeOK /\ Finite /\ RepairWithinBudget

-----------------------------------------------------------------------------
(* Types of the values the actions build. *)

(* The state of a device between two cycles. *)
LEMMA IdleType ==
  /\ Idle \in CycleState
  /\ Idle.phase = "idle" /\ Idle.batch = {} /\ Idle.got = {} /\ Idle.rows = {}
  /\ Idle.blocker = {}
BY ConstantsAssumption DEF Idle, CycleState, NoCursor, Cursor, Phases, Codes

(* The cursor of a row. *)
LEMMA RowCursorType == ASSUME NEW row \in Row PROVE RowCursor(row) \in Cursor
BY DEF Row, RowCursor, Cursor, Op

(* Changing the phase keeps the type. *)
LEMMA InPhaseType ==
  ASSUME NEW c \in CycleState, NEW phase \in Phases
  PROVE  InPhase(c, phase) \in CycleState
BY DEF InPhase, CycleState

(* A push that was answered. *)
LEMMA AnsweredType ==
  ASSUME NEW c \in CycleState, NEW resp \in Codes \union {"ok"}
  PROVE  Answered(c, resp) \in CycleState
<1>1. "pushed" \in Phases
  BY DEF Phases
<1> QED BY <1>1 DEF Answered, CycleState

(* The two states in which a cycle can begin. *)
LEMMA NewCycleType ==
  ASSUME NEW at \in Cursor, NEW batch \in SUBSET OutboxRow
  PROVE  PullFrom(at) \in CycleState /\ Pushing(batch) \in CycleState
<1>1. "pull" \in Phases /\ "push" \in Phases
  BY DEF Phases
<1> QED BY <1>1, IdleType DEF PullFrom, Pushing, CycleState

(* The request of the next page. *)
LEMMA NextPageType ==
  ASSUME NEW c \in CycleState, NEW at \in Cursor
  PROVE  NextPage(c, at) \in CycleState
BY IdleType DEF NextPage, CycleState, Phases

(* The request of the next chunk of a repair. *)
LEMMA NextRepairType ==
  ASSUME NEW c \in CycleState, NEW at \in Cursor
  PROVE  NextRepair(c, at) \in CycleState
<1>1. CASE c.processed = MaxOperations
  BY <1>1, IdleType DEF NextRepair
<1>2. CASE c.processed # MaxOperations
  <2> DEFINE upto == Smaller(c.next + Smaller(MaxOperations - c.processed, MaxBatch) - 1, c.last)
  <2>1. c.next \in Nat /\ c.last \in Nat /\ c.processed \in Nat /\ c.processed <= MaxOperations
    BY ConstantsAssumption DEF CycleState
  <2>2. upto \in Nat
    BY <1>2, <2>1, ConstantsAssumption DEF Smaller
  <2>3. "range" \in Phases
    BY DEF Phases
  <2>4. NextRepair(c, at) = [c EXCEPT !.phase = "range", !.after = at, !.repaired = FALSE, !.upto = upto]
    BY <1>2 DEF NextRepair
  <2> HIDE DEF upto
  <2> QED BY <2>2, <2>3, <2>4 DEF CycleState
<1> QED BY <1>1, <1>2

(* A row may be counted while the budget lasts. *)
LEMMA OneMoreType ==
  ASSUME NEW c \in CycleState, c.processed # MaxOperations
  PROVE  c.processed + 1 \in 0 .. MaxOperations
<1>1. c.processed \in 0 .. MaxOperations
  BY DEF CycleState
<1> QED BY <1>1, ConstantsAssumption

(* A row of a page or of a repair that is done. *)
LEMMA ProcessedType ==
  ASSUME NEW c \in CycleState, NEW row, c.processed # MaxOperations
  PROVE  Processed(c, row) \in CycleState /\ Repaired(c, row) \in CycleState
BY OneMoreType DEF Processed, Repaired, CycleState

(* The cycles stay typed when one goes on. *)
LEMMA CycleBecomesType ==
  ASSUME TypeOK, NEW d \in Device, NEW c \in CycleState, CycleBecomes(d, c)
  PROVE  cycle' \in [Device -> CycleState]
BY DEF CycleBecomes, TypeOK

(* The parts of the state of one device. *)
LEMMA CycleType ==
  ASSUME TypeOK, NEW d \in Device
  PROVE  /\ cycle[d] \in CycleState
         /\ cycle[d].batch \in SUBSET OutboxRow
         /\ cycle[d].resp \in Codes \union {"ok"}
         /\ cycle[d].rows \in SUBSET Row
         /\ cycle[d].got \in SUBSET Row
         /\ cycle[d].blocker \in SUBSET Row
         /\ cycle[d].processed \in 0 .. MaxOperations
         /\ cursor[d] \in Cursor
         /\ outbox[d] \in SUBSET OutboxRow
<1>1. cycle[d] \in CycleState /\ cursor[d] \in Cursor /\ outbox[d] \in SUBSET OutboxRow
  BY DEF TypeOK
<1> QED BY <1>1 DEF CycleState

(* A row lifted by a new session. *)
LEMMA UnblockedRowType ==
  ASSUME NEW q \in OutboxRow, NEW code \in Codes, NEW due \in BOOLEAN, NEW next \in Nat
  PROVE  [q EXCEPT !.code = code, !.due = due, !.next = next] \in OutboxRow
BY DEF OutboxRow

(* A push leaves the provider typed. *)
LEMMA ServerAppendType ==
  ASSUME TypeOK, NEW batch \in SUBSET OutboxRow, NEW outcome, ServerAppend(batch, outcome)
  PROVE  server' \in SUBSET Row /\ clock' \in Nat
<1> DEFINE new == Unseen(batch)
<1>1. new \subseteq batch
  BY DEF Unseen
<1>2. \A b \in new : b.op \in Op
  BY <1>1 DEF OutboxRow
<1> HIDE DEF new
<1>3. CASE /\ clock' = IF new = {} THEN clock ELSE clock + 1
           /\ server' = server \union {[op |-> b.op, at |-> clock + 1, ok |-> TRUE] : b \in new}
  <2>1. clock + 1 \in Nat
    BY DEF TypeOK
  <2>2. \A b \in new : [op |-> b.op, at |-> clock + 1, ok |-> TRUE] \in Row
    BY <1>2, <2>1 DEF Row
  <2> QED BY <1>3, <2>1, <2>2 DEF TypeOK
<1>4. CASE \E h \in {0} \union {row.op.seq : row \in server}, n \in 0 .. MaxBatch :
             /\ InSequence(new, h, n)
             /\ clock' = clock + n
             /\ server' = server \union
                  {[op |-> b.op, at |-> clock + (b.op.seq - h), ok |-> TRUE] : b \in new}
  <2>1. PICK h \in {0} \union {row.op.seq : row \in server}, n \in 0 .. MaxBatch :
             /\ InSequence(new, h, n)
             /\ clock' = clock + n
             /\ server' = server \union
                  {[op |-> b.op, at |-> clock + (b.op.seq - h), ok |-> TRUE] : b \in new}
    BY <1>4
  <2>2. h \in Nat /\ n \in Nat
    BY ConstantsAssumption DEF TypeOK, Row, Op
  <2>3. \A b \in new : b.op.seq \in (h + 1) .. (h + n)
    BY <2>1 DEF InSequence
  <2>4. \A b \in new : clock + (b.op.seq - h) \in Nat
    BY <2>2, <2>3 DEF TypeOK
  <2>5. \A b \in new : [op |-> b.op, at |-> clock + (b.op.seq - h), ok |-> TRUE] \in Row
    BY <1>2, <2>4 DEF Row
  <2> QED BY <2>1, <2>2, <2>5 DEF TypeOK
<1>5. CASE UNCHANGED <<server, clock>>
  BY <1>5 DEF TypeOK
<1> QED BY <1>3, <1>4, <1>5 DEF ServerAppend, new

(* An advanced cursor. *)
LEMMA AdvanceCursorType ==
  ASSUME TypeOK, NEW d \in Device, NEW row \in Row, AdvanceCursor(d, row)
  PROVE  cursor' \in [Device -> Cursor]
BY RowCursorType DEF AdvanceCursor, TypeOK

(* An applied operation leaves the records typed. *)
LEMMA ApplyType ==
  ASSUME TypeOK, NEW d \in Device, NEW o \in Op, Apply(d, o)
  PROVE  /\ stored' \in [Device -> SUBSET Op]
         /\ deviceHeads' \in [Device -> [Device -> Nat]]
         /\ recordHeads' \in [Device -> [Record -> SUBSET Op]]
         /\ live' \in [Device -> [Record -> SUBSET Op]]
         /\ conflicts' \in [Device -> [Record -> SUBSET Op]]
<1>1. o.rec \in Record /\ o.dev \in Device /\ o.seq \in Nat
  BY DEF Op
<1>2. /\ MergedHeads(o, recordHeads[d][o.rec]) \in SUBSET Op
      /\ MergedLive(o, recordHeads[d][o.rec], live[d][o.rec]) \in SUBSET Op
      /\ MergedConflict(o, recordHeads[d][o.rec], conflicts[d][o.rec]) \in SUBSET Op
  <2>1. /\ recordHeads[d][o.rec] \in SUBSET Op
        /\ live[d][o.rec] \in SUBSET Op
        /\ conflicts[d][o.rec] \in SUBSET Op
    BY <1>1 DEF TypeOK
  <2> QED BY <2>1, MergeTypes
<1> QED BY <1>1, <1>2 DEF Apply, TypeOK

-----------------------------------------------------------------------------
(* Types are preserved by every action. *)

(* Every step preserves the type invariant. *)
LEMMA TypeOKStep ==
  ASSUME TypeInv, [Next]_vars
  PROVE  TypeOK'
<1> USE DEF TypeInv
<1>1. ASSUME NEW d \in Device, NEW r \in Record, LocalWrite(d, r) PROVE TypeOK'
  <2>1. PICK id \in 1 .. MaxWrites, sec \in {0} \union {q.sec : q \in outbox[d]}, later \in 0 .. 1 :
           CommitOutgoing(d, BuildOperation(d, r, id), sec + later)
    BY <1>1 DEF LocalWrite
  <2> DEFINE o == BuildOperation(d, r, id)
             queued == [op |-> o, sec |-> sec + later, next |-> 0, due |-> TRUE, code |-> "none"]
  <2>2. o \in Op
    BY DEF BuildOperation, Op, TypeOK
  <2>3. queued \in OutboxRow
    BY <2>2 DEF OutboxRow, TypeOK, Codes
  <2>4. o.seq \in Nat /\ o.rec \in Record
    BY <2>2 DEF Op
  <2>5. CommitOutgoing(d, o, sec + later)
    BY <2>1
  <2> HIDE DEF o
  <2>6. /\ stored' \in [Device -> SUBSET Op]
        /\ recordHeads' \in [Device -> [Record -> SUBSET Op]]
        /\ live' \in [Device -> [Record -> SUBSET Op]]
        /\ conflicts' \in [Device -> [Record -> SUBSET Op]]
        /\ deviceHeads' \in [Device -> [Device -> Nat]]
    BY <2>2, <2>4, <2>5 DEF TypeOK, CommitOutgoing
  <2>7. outbox' = [outbox EXCEPT ![d] = @ \union {queued}]
    BY <2>5 DEF CommitOutgoing
  <2>8. outbox \in [Device -> SUBSET OutboxRow]
    BY DEF TypeOK
  <2> HIDE DEF queued
  <2>9. outbox' \in [Device -> SUBSET OutboxRow]
    BY <2>3, <2>7, <2>8
  <2> QED BY <1>1, <2>6, <2>9 DEF LocalWrite, TypeOK, bounds
<1>2. ASSUME NEW d \in Device, BeginCycle(d) PROVE TypeOK'
  <2>1. PICK k \in {0} \union {q.next : q \in outbox[d]} :
          LET rows  == IF newSession[d] THEN Unblocked(outbox[d], k) ELSE outbox[d]
              batch == DueOutbox(rows)
          IN  /\ outbox' = [outbox EXCEPT ![d] = rows]
              /\ CycleBecomes(d, IF batch = {} THEN PullFrom(cursor[d]) ELSE Pushing(batch))
    BY <1>2 DEF BeginCycle
  <2> DEFINE rows  == IF newSession[d] THEN Unblocked(outbox[d], k) ELSE outbox[d]
             batch == DueOutbox(rows)
  <2>2. k + 1 \in Nat /\ "none" \in Codes
    BY CycleType DEF OutboxRow, Codes
  <2>3. \A q \in outbox[d] : [q EXCEPT !.code = "none", !.due = TRUE, !.next = k + 1] \in OutboxRow
    BY <2>2, CycleType, UnblockedRowType
  <2>4. rows \subseteq OutboxRow
    BY <2>3, CycleType DEF Unblocked
  <2>5. batch \subseteq OutboxRow
    BY <2>4 DEF DueOutbox
  <2> HIDE DEF rows, batch
  <2>6. cycle' \in [Device -> CycleState]
    BY <2>1, <2>5, CycleType, NewCycleType, CycleBecomesType DEF rows, batch
  <2>7. outbox' \in [Device -> SUBSET OutboxRow]
    BY <2>1, <2>4 DEF rows, TypeOK
  <2> QED BY <1>2, <2>6, <2>7 DEF BeginCycle, TypeOK, bounds
<1>3. ASSUME NEW d \in Device, PushServed(d) PROVE TypeOK'
  <2>1. PICK outcome \in {"ok", "integrity_quarantined"} :
          /\ ServerAppend(cycle[d].batch, outcome)
          /\ CycleBecomes(d, Answered(cycle[d], outcome))
    BY <1>3 DEF PushServed
  <2>2. outcome \in Codes \union {"ok"}
    BY DEF Codes
  <2>3. cycle' \in [Device -> CycleState]
    BY <2>1, <2>2, CycleType, AnsweredType, CycleBecomesType
  <2>4. server' \in SUBSET Row /\ clock' \in Nat
    BY <2>1, CycleType, ServerAppendType
  <2> QED BY <1>3, <2>3, <2>4 DEF PushServed, TypeOK, vault, bounds
<1>4. ASSUME NEW d \in Device, FinishPush(d) PROVE TypeOK'
  <2>1. Acknowledged(outbox[d], cycle[d].batch) \subseteq OutboxRow
    BY CycleType DEF Acknowledged
  <2>2. \A q \in outbox[d], code \in Codes :
          [q EXCEPT !.code = code, !.due = FALSE, !.next = 0] \in OutboxRow
    BY CycleType, UnblockedRowType
  <2>3. ASSUME cycle[d].resp # "ok"
        PROVE  Deferred(outbox[d], cycle[d].batch, cycle[d].resp) \subseteq OutboxRow
    BY <2>2, <2>3, CycleType DEF Deferred
  <2>4. outbox' \in [Device -> SUBSET OutboxRow]
    BY <1>4, <2>1, <2>3 DEF FinishPush, TypeOK
  <2>5. cycle' \in [Device -> CycleState]
    BY <1>4, CycleType, IdleType, NewCycleType, CycleBecomesType DEF FinishPush
  <2> QED BY <1>4, <2>4, <2>5 DEF FinishPush, TypeOK, bounds
<1>5. ASSUME NEW d \in Device, PageServed(d) PROVE TypeOK'
  <2> DEFINE page == Page(cycle[d].after, Smaller(MaxOperations - cycle[d].processed, MaxBatch))
  <2>1. page \subseteq Row
    BY DEF Page, TypeOK
  <2> HIDE DEF page
  <2>2. [cycle[d] EXCEPT !.phase = "page", !.rows = page] \in CycleState
    BY <2>1, CycleType DEF CycleState, Phases
  <2>3. cycle' \in [Device -> CycleState]
    BY <1>5, <2>2, CycleBecomesType DEF PageServed, page
  <2> QED BY <1>5, <2>3 DEF PageServed, TypeOK, vault, bounds
<1>6. ASSUME NEW d \in Device, FinishPage(d) PROVE TypeOK'
  <2>1. "rows" \in Phases
    BY DEF Phases
  <2>2. cycle' \in [Device -> CycleState]
    BY <1>6, <2>1, CycleType, IdleType, InPhaseType, CycleBecomesType DEF FinishPage
  <2> QED BY <1>6, <2>2 DEF FinishPage, TypeOK, vault, bounds
<1>7. ASSUME NEW d \in Device, NEW row \in cycle[d].rows, NextRow(d, row)
      PROVE  row \in Row /\ row.op \in Op /\ Processed(cycle[d], row) \in CycleState
  <2>1. cycle[d].processed < MaxOperations /\ cycle[d].processed \in Nat
    BY <1>7, CycleType DEF NextRow
  <2>2. cycle[d].processed # MaxOperations
    BY <2>1, ConstantsAssumption
  <2> QED BY <2>2, CycleType, ProcessedType DEF Row
<1>8. ASSUME NEW d \in Device, NEW row \in cycle[d].rows, RowSkip(d, row) PROVE TypeOK'
  <2>1. cycle' \in [Device -> CycleState]
    BY <1>7, <1>8, IdleType, CycleBecomesType DEF RowSkip
  <2>2. cursor' \in [Device -> Cursor]
    BY <1>7, <1>8, AdvanceCursorType DEF RowSkip, TypeOK
  <2> QED BY <1>8, <2>1, <2>2 DEF RowSkip, TypeOK, UnchangedRecords, Elsewhere, bounds
<1>9. ASSUME NEW d \in Device, NEW row \in cycle[d].rows, RowReplay(d, row) PROVE TypeOK'
  <2>1. cycle' \in [Device -> CycleState] /\ cursor' \in [Device -> Cursor]
    BY <1>7, <1>9, CycleBecomesType, AdvanceCursorType DEF RowReplay
  <2> QED BY <1>9, <2>1 DEF RowReplay, TypeOK, UnchangedRecords, Elsewhere, bounds
<1>10. ASSUME NEW d \in Device, NEW row \in cycle[d].rows, RowApply(d, row) PROVE TypeOK'
  <2>1. cycle' \in [Device -> CycleState] /\ cursor' \in [Device -> Cursor]
    BY <1>7, <1>10, CycleBecomesType, AdvanceCursorType DEF RowApply
  <2>2. row.op \in Op /\ Apply(d, row.op)
    BY <1>7, <1>10 DEF RowApply
  <2> QED BY <1>10, <2>1, <2>2, ApplyType DEF RowApply, TypeOK, Elsewhere, bounds
<1>11. ASSUME NEW d \in Device, NEW row \in Row, NEW code \in {"integrity_quarantined", "gap_pending"},
              Quarantined(d, row, code)
       PROVE  quarantine' \in [Device -> SUBSET Receipt]
  <2>1. [row |-> row, code |-> code] \in Receipt
    BY DEF Receipt
  <2> QED BY <1>11, <2>1 DEF Quarantined, TypeOK
<1>12. ASSUME NEW d \in Device, NEW row \in cycle[d].rows, RowQuarantine(d, row) PROVE TypeOK'
  <2>1. cycle' \in [Device -> CycleState] /\ cursor' \in [Device -> Cursor]
    BY <1>7, <1>12, CycleBecomesType, AdvanceCursorType DEF RowQuarantine
  <2>2. quarantine' \in [Device -> SUBSET Receipt]
    BY <1>7, <1>11, <1>12 DEF RowQuarantine
  <2> QED BY <1>12, <2>1, <2>2 DEF RowQuarantine, TypeOK, UnchangedRecords, Elsewhere, bounds
<1>13. ASSUME NEW d \in Device, NEW row \in cycle[d].rows, RowGap(d, row) PROVE TypeOK'
  <2> DEFINE c == Blocked(cycle[d], row, deviceHeads[d][row.op.dev])
  <2>1. row \in Row /\ row.op \in Op
    BY <1>7, <1>13 DEF RowGap
  <2>2. deviceHeads[d][row.op.dev] + 1 \in Nat /\ row.op.seq - 1 \in Nat
    BY <2>1 DEF Op, TypeOK
  <2>3. c \in CycleState
    BY <2>1, <2>2, CycleType DEF CycleState, Blocked
  <2> HIDE DEF c
  <2>4. cycle' \in [Device -> CycleState]
    BY <1>13, <2>3, CycleType, IdleType, NextRepairType, CycleBecomesType DEF RowGap, c
  <2> QED BY <1>13, <2>4 DEF RowGap, TypeOK, UnchangedRecords, Elsewhere, bounds
<1>14. ASSUME NEW d \in Device, PageDone(d) PROVE TypeOK'
  <2>1. cycle' \in [Device -> CycleState]
    BY <1>14, CycleType, NextPageType, CycleBecomesType DEF PageDone
  <2> QED BY <1>14, <2>1 DEF PageDone, TypeOK, vault, bounds
<1>15. ASSUME NEW d \in Device, RangeServed(d) PROVE TypeOK'
  <2>1. PICK b \in cycle[d].blocker :
          CycleBecomes(d, [cycle[d] EXCEPT !.phase = "ranged",
                             !.got = DeviceRange(b.op.dev, cycle[d].next, cycle[d].upto)])
    BY <1>15 DEF RangeServed
  <2> DEFINE range == DeviceRange(b.op.dev, cycle[d].next, cycle[d].upto)
  <2>2. range \subseteq Row
    BY DEF DeviceRange, TypeOK
  <2> HIDE DEF range
  <2>3. [cycle[d] EXCEPT !.phase = "ranged", !.got = range] \in CycleState
    BY <2>2, CycleType DEF CycleState, Phases
  <2>4. cycle' \in [Device -> CycleState]
    BY <2>1, <2>3, CycleBecomesType DEF range
  <2> QED BY <1>15, <2>4 DEF RangeServed, TypeOK, vault, bounds
<1>16. "repair" \in Phases /\ "blocked" \in Phases
  BY DEF Phases
<1>17. ASSUME NEW d \in Device, FinishRange(d) PROVE TypeOK'
  <2>1. cycle' \in [Device -> CycleState]
    BY <1>16, <1>17, CycleType, IdleType, InPhaseType, CycleBecomesType DEF FinishRange
  <2> QED BY <1>17, <2>1 DEF FinishRange, TypeOK, vault, bounds
<1>18. ASSUME NEW d \in Device, NEW row \in cycle[d].got, RepairSkip(d, row) PROVE TypeOK'
  <2>1. cycle' \in [Device -> CycleState]
    BY <1>16, <1>18, CycleType, IdleType, InPhaseType, CycleBecomesType DEF RepairSkip
  <2> QED BY <1>18, <2>1 DEF RepairSkip, TypeOK, vault, bounds
<1>19. ASSUME NEW d \in Device, NEW row \in cycle[d].got, NextRepairRow(d, row)
       PROVE  row \in Row /\ row.op \in Op /\ Repaired(cycle[d], row) \in CycleState
  <2>1. row \in Row /\ IsFiniteSet(cycle[d].got) /\ cycle[d].processed \in Nat
    BY CycleType DEF Finite
  <2>2. Cardinality(cycle[d].got) \in Nat /\ Cardinality(cycle[d].got) # 0
    BY <2>1, FS_CardinalityType, FS_EmptySet
  <2>3. cycle[d].processed # MaxOperations
    BY <1>19, <2>1, <2>2, ConstantsAssumption DEF RepairWithinBudget, NextRepairRow
  <2> QED BY <2>1, <2>3, CycleType, ProcessedType DEF Row
<1>20. ASSUME NEW d \in Device, NEW row \in cycle[d].got, RepairReplay(d, row) PROVE TypeOK'
  <2>1. cycle' \in [Device -> CycleState]
    BY <1>19, <1>20, CycleBecomesType DEF RepairReplay
  <2> QED BY <1>20, <2>1 DEF RepairReplay, TypeOK, vault, bounds
<1>21. ASSUME NEW d \in Device, NEW row \in cycle[d].got, RepairApply(d, row) PROVE TypeOK'
  <2>1. cycle' \in [Device -> CycleState] /\ row.op \in Op /\ Apply(d, row.op)
    BY <1>19, <1>21, CycleBecomesType DEF RepairApply
  <2> QED BY <1>21, <2>1, ApplyType DEF RepairApply, TypeOK, Elsewhere, bounds
<1>22. ASSUME NEW d \in Device, NEW row \in cycle[d].got, RepairQuarantine(d, row) PROVE TypeOK'
  <2>1. cycle' \in [Device -> CycleState]
    BY <1>16, <1>22, CycleType, InPhaseType, CycleBecomesType DEF RepairQuarantine
  <2>2. quarantine' \in [Device -> SUBSET Receipt]
    BY <1>11, <1>19, <1>22 DEF RepairQuarantine
  <2> QED BY <1>22, <2>1, <2>2 DEF RepairQuarantine, TypeOK, UnchangedRecords, Elsewhere, bounds
<1>23. ASSUME NEW d \in Device, QuarantineBlocker(d) PROVE TypeOK'
  <2>1. PICK b \in cycle[d].blocker :
       IF cycle[d].processed = MaxOperations
       THEN /\ CycleBecomes(d, Idle)
            /\ UNCHANGED <<cursor, quarantine>>
       ELSE /\ Quarantined(d, b, "gap_pending")
            /\ AdvanceCursor(d, b)
            /\ CycleBecomes(d, [cycle[d] EXCEPT !.phase = "rows", !.blocker = {},
                                  !.got = {}, !.processed = @ + 1])
    BY <1>23 DEF QuarantineBlocker
  <2>2. b \in Row
    BY CycleType
  <2>3. CASE cycle[d].processed = MaxOperations
    <3>1. cycle' \in [Device -> CycleState]
      BY <2>1, <2>3, IdleType, CycleBecomesType
    <3> QED BY <1>23, <2>1, <2>3, <3>1 DEF QuarantineBlocker, TypeOK, UnchangedRecords, Elsewhere, bounds
  <2>4. CASE cycle[d].processed # MaxOperations
    <3>1. cycle[d].processed + 1 \in 0 .. MaxOperations
      BY <2>4, CycleType, OneMoreType
    <3>2. [cycle[d] EXCEPT !.phase = "rows", !.blocker = {}, !.got = {}, !.processed = @ + 1]
            \in CycleState
      BY <3>1, CycleType DEF CycleState, Phases
    <3>3. cycle' \in [Device -> CycleState] /\ cursor' \in [Device -> Cursor]
      BY <2>1, <2>2, <2>4, <3>2, CycleBecomesType, AdvanceCursorType
    <3>4. quarantine' \in [Device -> SUBSET Receipt]
      BY <1>11, <2>1, <2>2, <2>4
    <3> QED BY <1>23, <3>3, <3>4 DEF QuarantineBlocker, TypeOK, UnchangedRecords, Elsewhere, bounds
  <2> QED BY <2>3, <2>4
<1>24. ASSUME NEW d \in Device, RepairDone(d) PROVE TypeOK'
  <2> DEFINE again == [cycle[d] EXCEPT !.next = cycle[d].upto + 1]
             back  == [cycle[d] EXCEPT !.phase = "rows", !.rows = @ \union cycle[d].blocker,
                         !.blocker = {}, !.repaired = TRUE]
  <2>1. again \in CycleState
    BY CycleType DEF CycleState
  <2>2. back \in CycleState
    BY CycleType DEF CycleState, Phases
  <2> HIDE DEF again, back
  <2>3. cycle' \in [Device -> CycleState]
    BY <1>24, <2>1, <2>2, CycleType, NextRepairType, CycleBecomesType DEF RepairDone, again, back
  <2> QED BY <1>24, <2>3 DEF RepairDone, TypeOK, vault, bounds
<1>25. ASSUME NEW d \in Device, NEW row \in outbox[d], RetryTimeComes(d, row) PROVE TypeOK'
  <2>1. PICK k \in {0} \union {q.next : q \in outbox[d]} :
          outbox' = [outbox EXCEPT ![d] = (@ \ {row}) \union
                      {[row EXCEPT !.due = TRUE, !.next = k + 1]}]
    BY <1>25 DEF RetryTimeComes
  <2>2. row \in OutboxRow /\ k + 1 \in Nat
    BY CycleType DEF OutboxRow
  <2>3. [row EXCEPT !.due = TRUE, !.next = k + 1] \in OutboxRow
    BY <2>2 DEF OutboxRow
  <2>4. outbox' \in [Device -> SUBSET OutboxRow]
    BY <2>1, <2>3 DEF TypeOK
  <2> QED BY <1>25, <2>4 DEF RetryTimeComes, TypeOK, bounds
<1>26. ASSUME NEW d \in Device, SessionChanged(d) PROVE TypeOK'
  BY <1>26 DEF SessionChanged, TypeOK, vault, bounds
<1>27. ASSUME NEW d \in Device, NEW sent \in Prefixes(cycle[d].batch) \union {{}},
              wire' = [wire EXCEPT ![d] = @ \union ({sent} \ {{}})]
       PROVE  wire' \in [Device -> SUBSET SUBSET OutboxRow]
  <2>1. sent \in SUBSET OutboxRow
    BY CycleType DEF Prefixes
  <2> QED BY <1>27, <2>1 DEF TypeOK
<1>28. ASSUME NEW d \in Device, PushLost(d) PROVE TypeOK'
  <2>1. wire' \in [Device -> SUBSET SUBSET OutboxRow]
    BY <1>27, <1>28 DEF PushLost
  <2>2. "transient" \in Codes
    BY DEF Codes
  <2>3. cycle' \in [Device -> CycleState]
    <3>1. CASE UNCHANGED cycle
      BY <3>1 DEF TypeOK
    <3>2. CASE CycleBecomes(d, Answered(cycle[d], "transient"))
      BY <2>2, <3>2, CycleType, AnsweredType, CycleBecomesType
    <3> QED BY <1>28, <3>1, <3>2 DEF PushLost
  <2>4. faults' \in Nat
    BY <1>28 DEF PushLost, TypeOK
  <2> QED BY <1>28, <2>1, <2>3, <2>4 DEF PushLost, TypeOK, vault
<1>29. ASSUME NEW d \in Device, PushRefused(d) PROVE TypeOK'
  <2>1. Refusals \subseteq Codes
    BY ConstantsAssumption DEF Codes
  <2>2. cycle' \in [Device -> CycleState]
    BY <1>29, <2>1, CycleType, AnsweredType, CycleBecomesType DEF PushRefused
  <2> QED BY <1>29, <2>2 DEF PushRefused, TypeOK, vault
<1>30. ASSUME NEW d \in Device, PullLost(d) PROVE TypeOK'
  <2>1. cycle' \in [Device -> CycleState]
    BY <1>30, IdleType, CycleBecomesType DEF PullLost
  <2> QED BY <1>30, <2>1 DEF PullLost, TypeOK, vault
<1>31. ASSUME NEW d \in Device, LateArrival(d) PROVE TypeOK'
  <2>1. PICK batch \in wire[d] :
          /\ \E outcome \in {"ok", "integrity_quarantined"} : ServerAppend(batch, outcome)
          /\ wire' = [wire EXCEPT ![d] = @ \ {batch}]
          /\ UNCHANGED <<vault, newSession, cycle, bounds>>
    BY <1>31 DEF LateArrival
  <2>2. batch \in SUBSET OutboxRow
    BY DEF TypeOK
  <2>3. server' \in SUBSET Row /\ clock' \in Nat
    BY <2>1, <2>2, ServerAppendType
  <2> QED BY <2>1, <2>3 DEF TypeOK, vault, bounds
<1>32. ASSUME NEW d \in Device, Crash(d) PROVE TypeOK'
  <2>1. wire' \in [Device -> SUBSET SUBSET OutboxRow]
    BY <1>27, <1>32 DEF Crash
  <2>2. cycle' \in [Device -> CycleState]
    BY <1>32, IdleType, CycleBecomesType DEF Crash
  <2>3. crashes' \in Nat
    BY <1>32 DEF Crash, TypeOK
  <2>4. newSession' \in [Device -> BOOLEAN]
    BY <1>32 DEF Crash, TypeOK
  <2>5. UNCHANGED <<server, clock, vault, faults, tampered>>
    BY <1>32 DEF Crash
  <2> QED BY <2>1, <2>2, <2>3, <2>4, <2>5 DEF TypeOK, vault
<1>33. ASSUME NEW row \in server, TamperRow(row) PROVE TypeOK'
  <2>1. [row EXCEPT !.ok = FALSE] \in Row
    BY DEF TypeOK, Row
  <2>2. server' \in SUBSET Row
    BY <1>33, <2>1 DEF TamperRow, TypeOK
  <2> QED BY <1>33, <2>2 DEF TamperRow, TypeOK, vault
<1>34. CASE UNCHANGED vars
  BY <1>34 DEF vars, vault, bounds, TypeOK
<1> QED
  BY <1>1, <1>2, <1>3, <1>4, <1>5, <1>6, <1>8, <1>9, <1>10, <1>12, <1>13, <1>14, <1>15,
     <1>17, <1>18, <1>20, <1>21, <1>22, <1>23, <1>24, <1>25, <1>26, <1>28, <1>29, <1>30,
     <1>31, <1>32, <1>33, <1>34
  DEF Next, CycleStep, TimeStep, RowStep, RepairStep

-----------------------------------------------------------------------------
(* Sets of rows stay finite. *)

(* The image of a finite set is finite. *)
LEMMA ImageFinite ==
  ASSUME NEW S, IsFiniteSet(S), NEW f, DOMAIN f = S, f = [x \in S |-> f[x]]
  PROVE  IsFiniteSet({f[x] : x \in S})
<1> DEFINE T == {f[x] : x \in S}
<1>1. f \in Surjection(S, T)
  BY DEF Surjection
<1> HIDE DEF T
<1>2. IsFiniteSet(T)
  BY <1>1, FS_Surjection
<1> QED BY <1>2 DEF T

(* A push leaves finitely many rows at the provider. *)
LEMMA ServerAppendFinite ==
  ASSUME IsFiniteSet(server), NEW batch, IsFiniteSet(batch), NEW outcome,
         ServerAppend(batch, outcome)
  PROVE  IsFiniteSet(server')
<1> DEFINE new == Unseen(batch)
<1>1. IsFiniteSet(new)
  BY FS_Subset DEF Unseen
<1> HIDE DEF new
<1>2. ASSUME NEW f, DOMAIN f = new, f = [b \in new |-> f[b]],
             server' = server \union {f[b] : b \in new}
      PROVE  IsFiniteSet(server')
  <2> DEFINE rows == {f[b] : b \in new}
  <2>1. IsFiniteSet(rows)
    BY <1>1, <1>2, ImageFinite
  <2> HIDE DEF rows
  <2>2. IsFiniteSet(server \union rows)
    BY <2>1, FS_Union
  <2> QED BY <1>2, <2>2 DEF rows
<1>3. CASE /\ clock' = IF new = {} THEN clock ELSE clock + 1
           /\ server' = server \union {[op |-> b.op, at |-> clock + 1, ok |-> TRUE] : b \in new}
  <2> DEFINE f == [b \in new |-> [op |-> b.op, at |-> clock + 1, ok |-> TRUE]]
  <2>1. server' = server \union {f[b] : b \in new}
    BY <1>3
  <2>2. DOMAIN f = new /\ f = [b \in new |-> f[b]]
    OBVIOUS
  <2> HIDE DEF f
  <2> QED BY <1>2, <2>1, <2>2
<1>4. CASE \E h \in {0} \union {row.op.seq : row \in server}, n \in 0 .. MaxBatch :
             /\ InSequence(new, h, n)
             /\ clock' = clock + n
             /\ server' = server \union
                  {[op |-> b.op, at |-> clock + (b.op.seq - h), ok |-> TRUE] : b \in new}
  <2>0. PICK h \in {0} \union {row.op.seq : row \in server} :
             server' = server \union
                  {[op |-> b.op, at |-> clock + (b.op.seq - h), ok |-> TRUE] : b \in new}
    BY <1>4
  <2> DEFINE f == [b \in new |-> [op |-> b.op, at |-> clock + (b.op.seq - h), ok |-> TRUE]]
  <2>1. server' = server \union {f[b] : b \in new}
    BY <2>0
  <2>2. DOMAIN f = new /\ f = [b \in new |-> f[b]]
    OBVIOUS
  <2> HIDE DEF f
  <2> QED BY <1>2, <2>1, <2>2
<1>5. CASE UNCHANGED <<server, clock>>
  BY <1>5
<1> QED BY <1>3, <1>4, <1>5 DEF ServerAppend, new

(* A step that only moves the cycle on. *)
LEMMA CycleFinite ==
  ASSUME TypeOK, Finite, NEW d \in Device, NEW c, CycleBecomes(d, c),
         IsFiniteSet(c.batch), IsFiniteSet(c.got), UNCHANGED <<server, outbox, wire>>
  PROVE  Finite'
BY DEF CycleBecomes, Finite, TypeOK

(* Every step keeps what is held or in transit finite. *)
LEMMA FiniteStep ==
  ASSUME TypeInv, [Next]_vars
  PROVE  Finite'
<1> USE DEF TypeInv
<1>1. ASSUME NEW d \in Device, NEW r \in Record, LocalWrite(d, r) PROVE Finite'
  <2>1. PICK id \in 1 .. MaxWrites, sec \in {0} \union {q.sec : q \in outbox[d]}, later \in 0 .. 1 :
           CommitOutgoing(d, BuildOperation(d, r, id), sec + later)
    BY <1>1 DEF LocalWrite
  <2>2. PICK q : outbox' = [outbox EXCEPT ![d] = @ \union {q}]
    BY <2>1 DEF CommitOutgoing
  <2>3. IsFiniteSet(outbox[d] \union {q})
    BY FS_AddElement DEF Finite
  <2>4. \A e \in Device : IsFiniteSet(outbox'[e])
    BY <2>2, <2>3 DEF Finite, TypeOK
  <2> QED BY <1>1, <2>4 DEF LocalWrite, Finite
<1>2. ASSUME NEW d \in Device, BeginCycle(d) PROVE Finite'
  <2>1. PICK k \in {0} \union {q.next : q \in outbox[d]} :
          LET rows  == IF newSession[d] THEN Unblocked(outbox[d], k) ELSE outbox[d]
              batch == DueOutbox(rows)
          IN  /\ outbox' = [outbox EXCEPT ![d] = rows]
              /\ CycleBecomes(d, IF batch = {} THEN PullFrom(cursor[d]) ELSE Pushing(batch))
    BY <1>2 DEF BeginCycle
  <2> DEFINE rows  == IF newSession[d] THEN Unblocked(outbox[d], k) ELSE outbox[d]
             batch == DueOutbox(rows)
             f == [q \in outbox[d] |->
                     IF q.code = "auth_required"
                     THEN [q EXCEPT !.code = "none", !.due = TRUE, !.next = k + 1] ELSE q]
             c == IF batch = {} THEN PullFrom(cursor[d]) ELSE Pushing(batch)
  <2>2. Unblocked(outbox[d], k) = {f[q] : q \in outbox[d]}
    BY DEF Unblocked
  <2>3. DOMAIN f = outbox[d] /\ f = [q \in outbox[d] |-> f[q]]
    OBVIOUS
  <2> HIDE DEF f
  <2>4. IsFiniteSet(outbox[d]) /\ IsFiniteSet(Unblocked(outbox[d], k))
    BY <2>2, <2>3, ImageFinite DEF Finite
  <2>5. IsFiniteSet(rows)
    BY <2>4
  <2>6. IsFiniteSet(batch)
    <3> HIDE DEF rows
    <3> QED BY <2>5, FS_Subset DEF DueOutbox
  <2>7. IsFiniteSet(c.batch) /\ IsFiniteSet(c.got)
    <3> HIDE DEF batch
    <3> QED BY <2>6, IdleType, FS_EmptySet DEF PullFrom, Pushing, CycleState
  <2> HIDE DEF rows, batch, c
  <2>8. outbox' = [outbox EXCEPT ![d] = rows] /\ CycleBecomes(d, c)
    BY <2>1 DEF rows, batch, c
  <2> QED BY <1>2, <2>5, <2>7, <2>8 DEF BeginCycle, CycleBecomes, Finite, TypeOK
<1>3. ASSUME NEW d \in Device, PushServed(d) PROVE Finite'
  <2>1. PICK outcome \in {"ok", "integrity_quarantined"} :
          /\ ServerAppend(cycle[d].batch, outcome)
          /\ CycleBecomes(d, Answered(cycle[d], outcome))
    BY <1>3 DEF PushServed
  <2>2. IsFiniteSet(server')
    BY <2>1, ServerAppendFinite DEF Finite
  <2>3. /\ Answered(cycle[d], outcome).batch = cycle[d].batch
        /\ Answered(cycle[d], outcome).got = cycle[d].got
    BY CycleType DEF Answered, CycleState
  <2> QED BY <1>3, <2>1, <2>2, <2>3 DEF PushServed, CycleBecomes, Finite, TypeOK, vault
<1>4. ASSUME NEW d \in Device, FinishPush(d) PROVE Finite'
  <2> DEFINE f == [q \in outbox[d] |->
                     IF \E b \in cycle[d].batch : b.op = q.op
                     THEN [q EXCEPT !.code = cycle[d].resp, !.due = FALSE, !.next = 0] ELSE q]
  <2>1. Deferred(outbox[d], cycle[d].batch, cycle[d].resp) = {f[q] : q \in outbox[d]}
    BY DEF Deferred
  <2>2. DOMAIN f = outbox[d] /\ f = [q \in outbox[d] |-> f[q]]
    OBVIOUS
  <2> HIDE DEF f
  <2>3. IsFiniteSet(Deferred(outbox[d], cycle[d].batch, cycle[d].resp))
    BY <2>1, <2>2, ImageFinite DEF Finite
  <2>4. IsFiniteSet(Acknowledged(outbox[d], cycle[d].batch))
    BY FS_Subset DEF Acknowledged, Finite
  <2>5. \A e \in Device : IsFiniteSet(outbox'[e])
    BY <1>4, <2>3, <2>4 DEF FinishPush, Finite, TypeOK
  <2>6. /\ PullFrom(cursor[d]).batch = {} /\ PullFrom(cursor[d]).got = {}
        /\ Idle.batch = {} /\ Idle.got = {} /\ IsFiniteSet({})
    BY IdleType, FS_EmptySet DEF PullFrom, CycleState
  <2>7. \A e \in Device : IsFiniteSet(cycle'[e].batch) /\ IsFiniteSet(cycle'[e].got)
    BY <1>4, <2>6 DEF FinishPush, CycleBecomes, Finite, TypeOK
  <2> QED BY <1>4, <2>5, <2>7 DEF FinishPush, Finite
<1>5. ASSUME NEW d \in Device, NEW c, CycleBecomes(d, c), UNCHANGED <<server, outbox, wire>>,
             c.batch \in {cycle[d].batch, {}},
             c.got = {} \/ c.got \subseteq cycle[d].got \/ c.got \subseteq server
      PROVE  Finite'
  <2>1. IsFiniteSet(c.batch)
    BY <1>5, FS_EmptySet DEF Finite
  <2>2. IsFiniteSet(c.got)
    BY <1>5, FS_EmptySet, FS_Subset DEF Finite
  <2> QED BY <1>5, <2>1, <2>2, CycleFinite
<1>6. ASSUME NEW d \in Device, CycleBecomes(d, Idle), UNCHANGED <<server, outbox, wire>>
      PROVE  Finite'
  BY <1>5, <1>6, IdleType
<1>7. ASSUME NEW d \in Device, PageServed(d) PROVE Finite'
  <2> DEFINE c == [cycle[d] EXCEPT !.phase = "page", !.rows =
                     Page(cycle[d].after, Smaller(MaxOperations - cycle[d].processed, MaxBatch))]
  <2>1. c.batch = cycle[d].batch /\ c.got = cycle[d].got
    BY CycleType DEF CycleState
  <2>2. CycleBecomes(d, c) /\ UNCHANGED <<server, outbox, wire>>
    BY <1>7 DEF PageServed, vault
  <2> QED BY <1>5, <2>1, <2>2
<1>8. \A d \in Device, phase \in Phases :
        InPhase(cycle[d], phase).batch = cycle[d].batch /\ InPhase(cycle[d], phase).got = cycle[d].got
  BY CycleType DEF InPhase, CycleState
<1>9. {"rows", "repair", "blocked"} \subseteq Phases
  BY DEF Phases
<1>10. ASSUME NEW d \in Device, FinishPage(d) PROVE Finite'
  BY <1>5, <1>6, <1>8, <1>9, <1>10 DEF FinishPage, vault
<1>11. ASSUME NEW d \in Device, NEW row, CycleBecomes(d, Processed(cycle[d], row)),
              UNCHANGED <<server, outbox, wire>>
       PROVE  Finite'
  <2>1. Processed(cycle[d], row).batch = cycle[d].batch /\ Processed(cycle[d], row).got = cycle[d].got
    BY CycleType DEF Processed, CycleState
  <2> QED BY <1>5, <1>11, <2>1
<1>12. ASSUME NEW d \in Device, NEW row \in cycle[d].rows,
              RowSkip(d, row) \/ RowReplay(d, row) \/ RowApply(d, row) \/ RowQuarantine(d, row)
       PROVE  Finite'
  <2>1. UNCHANGED <<server, outbox, wire>>
    BY <1>12 DEF RowSkip, RowReplay, RowApply, RowQuarantine, Elsewhere
  <2>2. CycleBecomes(d, Idle) \/ CycleBecomes(d, Processed(cycle[d], row))
    BY <1>12 DEF RowSkip, RowReplay, RowApply, RowQuarantine
  <2> QED BY <1>6, <1>11, <2>1, <2>2
<1>13. ASSUME NEW d \in Device, NEW c \in CycleState, CycleBecomes(d, NextRepair(c, cursor[d])),
              c.batch = cycle[d].batch, c.got = cycle[d].got, UNCHANGED <<server, outbox, wire>>
       PROVE  Finite'
  <2>1. \/ NextRepair(c, cursor[d]) = Idle
        \/ /\ NextRepair(c, cursor[d]).batch = cycle[d].batch
           /\ NextRepair(c, cursor[d]).got = cycle[d].got
    BY <1>13 DEF NextRepair, CycleState
  <2> QED BY <1>5, <1>6, <1>13, <2>1
<1>14. ASSUME NEW d \in Device, NEW row \in cycle[d].rows, RowGap(d, row) PROVE Finite'
  <2> DEFINE c == Blocked(cycle[d], row, deviceHeads[d][row.op.dev])
  <2>1. row \in Row /\ row.op \in Op
    BY CycleType DEF Row
  <2>2. deviceHeads[d][row.op.dev] + 1 \in Nat /\ row.op.seq - 1 \in Nat
    BY <2>1 DEF Op, TypeOK
  <2>3. c \in CycleState /\ c.batch = cycle[d].batch /\ c.got = cycle[d].got
    BY <2>1, <2>2, CycleType DEF CycleState, Blocked
  <2>4. UNCHANGED <<server, outbox, wire>>
    BY <1>14 DEF RowGap, Elsewhere
  <2>5. CycleBecomes(d, Idle) \/ CycleBecomes(d, NextRepair(c, cursor[d]))
    BY <1>14 DEF RowGap
  <2> HIDE DEF c
  <2> QED BY <1>6, <1>13, <2>3, <2>4, <2>5
<1>15. ASSUME NEW d \in Device, PageDone(d) PROVE Finite'
  <2>1. \/ NextPage(cycle[d], cursor[d]) = Idle
        \/ /\ NextPage(cycle[d], cursor[d]).batch = cycle[d].batch
           /\ NextPage(cycle[d], cursor[d]).got = cycle[d].got
    BY CycleType DEF NextPage, CycleState
  <2> QED BY <1>5, <1>6, <1>15, <2>1 DEF PageDone, vault
<1>16. ASSUME NEW d \in Device, RangeServed(d) PROVE Finite'
  <2>1. PICK b \in cycle[d].blocker :
          CycleBecomes(d, [cycle[d] EXCEPT !.phase = "ranged",
                             !.got = DeviceRange(b.op.dev, cycle[d].next, cycle[d].upto)])
    BY <1>16 DEF RangeServed
  <2> DEFINE range == DeviceRange(b.op.dev, cycle[d].next, cycle[d].upto)
             c == [cycle[d] EXCEPT !.phase = "ranged", !.got = range]
  <2>2. range \subseteq server
    BY DEF DeviceRange
  <2> HIDE DEF range
  <2>3. c.batch = cycle[d].batch /\ c.got = range
    BY CycleType DEF CycleState
  <2>4. CycleBecomes(d, c) /\ UNCHANGED <<server, outbox, wire>>
    BY <1>16, <2>1 DEF range, RangeServed, vault
  <2> HIDE DEF c
  <2> QED BY <1>5, <2>2, <2>3, <2>4
<1>17. ASSUME NEW d \in Device, FinishRange(d) PROVE Finite'
  <2>1. CycleBecomes(d, Idle) \/ CycleBecomes(d, InPhase(cycle[d], "repair"))
    BY <1>17 DEF FinishRange
  <2> QED BY <1>5, <1>6, <1>8, <1>9, <1>17, <2>1 DEF FinishRange, vault
<1>18. ASSUME NEW d \in Device, NEW row \in cycle[d].got,
              RepairSkip(d, row) \/ RepairQuarantine(d, row)
       PROVE  Finite'
  <2>1. CycleBecomes(d, Idle) \/ CycleBecomes(d, InPhase(cycle[d], "blocked"))
    BY <1>18 DEF RepairSkip, RepairQuarantine
  <2>2. UNCHANGED <<server, outbox, wire>>
    BY <1>18 DEF RepairSkip, RepairQuarantine, vault, Elsewhere
  <2> QED BY <1>5, <1>6, <1>8, <1>9, <2>1, <2>2
<1>19. ASSUME NEW d \in Device, NEW row \in cycle[d].got,
              RepairReplay(d, row) \/ RepairApply(d, row)
       PROVE  Finite'
  <2>1. CycleBecomes(d, Repaired(cycle[d], row)) /\ UNCHANGED <<server, outbox, wire>>
    BY <1>19 DEF RepairReplay, RepairApply, vault, Elsewhere
  <2>2. /\ Repaired(cycle[d], row).batch = cycle[d].batch
        /\ Repaired(cycle[d], row).got = cycle[d].got \ {row}
    BY CycleType DEF Repaired, CycleState
  <2> QED BY <1>5, <2>1, <2>2
<1>20. ASSUME NEW d \in Device, QuarantineBlocker(d) PROVE Finite'
  <2> DEFINE c == [cycle[d] EXCEPT !.phase = "rows", !.blocker = {}, !.got = {}, !.processed = @ + 1]
  <2>1. CycleBecomes(d, Idle) \/ CycleBecomes(d, c)
    BY <1>20 DEF QuarantineBlocker
  <2>2. UNCHANGED <<server, outbox, wire>>
    BY <1>20 DEF QuarantineBlocker, Elsewhere
  <2>3. c.batch = cycle[d].batch /\ c.got = {}
    BY CycleType DEF CycleState
  <2> HIDE DEF c
  <2> QED BY <1>5, <1>6, <2>1, <2>2, <2>3
<1>21. ASSUME NEW d \in Device, RepairDone(d) PROVE Finite'
  <2> DEFINE again == [cycle[d] EXCEPT !.next = cycle[d].upto + 1]
             back  == [cycle[d] EXCEPT !.phase = "rows", !.rows = @ \union cycle[d].blocker,
                         !.blocker = {}, !.repaired = TRUE]
  <2>1. again \in CycleState /\ again.batch = cycle[d].batch /\ again.got = cycle[d].got
    BY CycleType DEF CycleState
  <2>2. back.batch = cycle[d].batch /\ back.got = cycle[d].got
    BY CycleType DEF CycleState
  <2>3. CycleBecomes(d, NextRepair(again, cursor[d])) \/ CycleBecomes(d, back)
    BY <1>21 DEF RepairDone
  <2>4. UNCHANGED <<server, outbox, wire>>
    BY <1>21 DEF RepairDone, vault
  <2> HIDE DEF again, back
  <2> QED BY <1>5, <1>13, <2>1, <2>2, <2>3, <2>4
<1>22. ASSUME NEW d \in Device, NEW row \in outbox[d], RetryTimeComes(d, row) PROVE Finite'
  <2>1. PICK q : outbox' = [outbox EXCEPT ![d] = (@ \ {row}) \union {q}]
    BY <1>22 DEF RetryTimeComes
  <2>2. IsFiniteSet((outbox[d] \ {row}) \union {q})
    BY FS_AddElement, FS_RemoveElement DEF Finite
  <2>3. \A e \in Device : IsFiniteSet(outbox'[e])
    BY <2>1, <2>2 DEF Finite, TypeOK
  <2> QED BY <1>22, <2>3 DEF RetryTimeComes, Finite
<1>23. ASSUME NEW d \in Device, NEW sent \in Prefixes(cycle[d].batch) \union {{}},
              wire' = [wire EXCEPT ![d] = @ \union ({sent} \ {{}})]
       PROVE  \A e \in Device : \A batch \in wire'[e] : IsFiniteSet(batch)
  <2>1. IsFiniteSet(sent)
    BY FS_Subset, FS_EmptySet DEF Prefixes, Finite
  <2> QED BY <1>23, <2>1 DEF Finite, TypeOK
<1>24. ASSUME NEW d \in Device, PushLost(d) PROVE Finite'
  <2>1. \A e \in Device : \A batch \in wire'[e] : IsFiniteSet(batch)
    BY <1>23, <1>24 DEF PushLost
  <2>2. /\ Answered(cycle[d], "transient").batch = cycle[d].batch
        /\ Answered(cycle[d], "transient").got = cycle[d].got
    BY CycleType DEF Answered, CycleState
  <2>3. /\ UNCHANGED cycle \/ CycleBecomes(d, Answered(cycle[d], "transient"))
        /\ UNCHANGED <<server, outbox>>
    BY <1>24 DEF PushLost, vault
  <2> QED BY <2>1, <2>2, <2>3 DEF CycleBecomes, Finite, TypeOK
<1>25. ASSUME NEW d \in Device, PushRefused(d) PROVE Finite'
  <2>1. PICK code \in Refusals : CycleBecomes(d, Answered(cycle[d], code))
    BY <1>25 DEF PushRefused
  <2>2. /\ Answered(cycle[d], code).batch = cycle[d].batch
        /\ Answered(cycle[d], code).got = cycle[d].got
    BY CycleType DEF Answered, CycleState
  <2> QED BY <1>5, <1>25, <2>1, <2>2 DEF PushRefused, vault
<1>26. ASSUME NEW d \in Device, PullLost(d) PROVE Finite'
  BY <1>6, <1>26 DEF PullLost, vault
<1>27. ASSUME NEW d \in Device, LateArrival(d) PROVE Finite'
  <2>1. PICK batch \in wire[d] :
          /\ \E outcome \in {"ok", "integrity_quarantined"} : ServerAppend(batch, outcome)
          /\ wire' = [wire EXCEPT ![d] = @ \ {batch}]
          /\ UNCHANGED <<vault, newSession, cycle, bounds>>
    BY <1>27 DEF LateArrival
  <2>2. IsFiniteSet(server')
    BY <2>1, ServerAppendFinite DEF Finite
  <2> QED BY <2>1, <2>2 DEF Finite, TypeOK, vault
<1>28. ASSUME NEW d \in Device, Crash(d) PROVE Finite'
  <2>1. \A e \in Device : \A batch \in wire'[e] : IsFiniteSet(batch)
    BY <1>23, <1>28 DEF Crash
  <2>2. CycleBecomes(d, Idle) /\ UNCHANGED <<server, outbox>>
    BY <1>28 DEF Crash, vault
  <2> QED BY <2>1, <2>2, IdleType, FS_EmptySet DEF CycleBecomes, Finite, TypeOK
<1>29. ASSUME NEW row \in server, TamperRow(row) PROVE Finite'
  <2>1. IsFiniteSet(server')
    BY <1>29, FS_AddElement, FS_RemoveElement DEF TamperRow, Finite
  <2> QED BY <1>29, <2>1 DEF TamperRow, Finite, vault
<1>30. ASSUME NEW d \in Device, SessionChanged(d) PROVE Finite'
  BY <1>30 DEF SessionChanged, Finite, vault
<1>31. CASE UNCHANGED vars
  BY <1>31 DEF vars, vault, Finite
<1> QED
  BY <1>1, <1>2, <1>3, <1>4, <1>7, <1>10, <1>12, <1>14, <1>15, <1>16, <1>17, <1>18, <1>19,
     <1>20, <1>21, <1>22, <1>24, <1>25, <1>26, <1>27, <1>28, <1>29, <1>30, <1>31
  DEF Next, CycleStep, TimeStep, RowStep, RepairStep

-----------------------------------------------------------------------------
(* A pull never exceeds its budget. *)

(* A repair request is within the budget of the pull. *)
LEMMA NextRepairBudget ==
  ASSUME NEW c \in CycleState, NEW at, NEW n, n = NextRepair(c, at)
  PROVE  /\ n.phase \in {"range", "ranged"} => n.upto + n.processed + 1 <= n.next + MaxOperations
         /\ n.phase # "repair"
<1>1. CASE c.processed = MaxOperations
  BY <1>1, IdleType DEF NextRepair
<1>2. CASE c.processed # MaxOperations
  <2> DEFINE upto == Smaller(c.next + Smaller(MaxOperations - c.processed, MaxBatch) - 1, c.last)
  <2>1. c.next \in Nat /\ c.last \in Nat /\ c.processed \in Nat /\ c.processed <= MaxOperations
    BY ConstantsAssumption DEF CycleState
  <2>2. upto + c.processed + 1 <= c.next + MaxOperations
    BY <1>2, <2>1, ConstantsAssumption DEF Smaller
  <2>3. n.phase = "range" /\ n.upto = upto /\ n.processed = c.processed /\ n.next = c.next
    BY <1>2 DEF NextRepair, CycleState
  <2> QED BY <2>2, <2>3
<1> QED BY <1>1, <1>2

(* Every step keeps repairs within the budget. *)
LEMMA RepairWithinBudgetStep ==
  ASSUME TypeInv, [Next]_vars
  PROVE  RepairWithinBudget'
<1> USE DEF TypeInv
<1>1. ASSUME NEW d \in Device, NEW c, CycleBecomes(d, c),
             c.phase \notin {"range", "ranged", "repair"}
      PROVE  RepairWithinBudget'
  BY <1>1 DEF CycleBecomes, RepairWithinBudget, TypeOK
<1>2. ASSUME NEW d \in Device, NEW c, CycleBecomes(d, c),
             c.phase \in {"range", "ranged"} => c.upto + c.processed + 1 <= c.next + MaxOperations,
             c.phase # "repair"
      PROVE  RepairWithinBudget'
  BY <1>2 DEF CycleBecomes, RepairWithinBudget, TypeOK
<1>3. ASSUME NEW d \in Device, NEW c, CycleBecomes(d, c), c.phase = "repair",
             c.processed + Cardinality(c.got) <= MaxOperations
      PROVE  RepairWithinBudget'
  BY <1>3 DEF CycleBecomes, RepairWithinBudget, TypeOK
<1>4. ASSUME UNCHANGED cycle PROVE RepairWithinBudget'
  BY <1>4 DEF RepairWithinBudget
<1>5. ASSUME NEW d \in Device,
             \/ CycleBecomes(d, Idle) \/ CycleBecomes(d, PullFrom(cursor[d]))
             \/ \E batch : CycleBecomes(d, Pushing(batch))
             \/ \E resp : CycleBecomes(d, Answered(cycle[d], resp))
             \/ CycleBecomes(d, InPhase(cycle[d], "rows"))
             \/ CycleBecomes(d, InPhase(cycle[d], "blocked"))
             \/ CycleBecomes(d, NextPage(cycle[d], cursor[d]))
      PROVE  RepairWithinBudget'
  <2>1. PICK c : /\ CycleBecomes(d, c)
                 /\ \/ c \in {Idle, PullFrom(cursor[d]), InPhase(cycle[d], "rows"),
                              InPhase(cycle[d], "blocked"), NextPage(cycle[d], cursor[d])}
                    \/ \E batch : c = Pushing(batch)
                    \/ \E resp : c = Answered(cycle[d], resp)
    BY <1>5
  <2>2. c.phase \in {"idle", "pull", "push", "pushed", "rows", "blocked"}
    BY <2>1, CycleType, IdleType
    DEF PullFrom, Pushing, Answered, InPhase, NextPage, CycleState
  <2> QED BY <1>1, <2>1, <2>2
<1>6. ASSUME NEW d \in Device,
             \/ BeginCycle(d) \/ PushServed(d) \/ FinishPush(d) \/ FinishPage(d) \/ PageDone(d)
             \/ PushLost(d) \/ PushRefused(d) \/ PullLost(d) \/ Crash(d)
      PROVE  RepairWithinBudget'
  BY <1>4, <1>5, <1>6
  DEF BeginCycle, PushServed, FinishPush, FinishPage, PageDone, PushLost, PushRefused,
      PullLost, Crash
<1>7. ASSUME NEW d \in Device, PageServed(d) PROVE RepairWithinBudget'
  <2> DEFINE c == [cycle[d] EXCEPT !.phase = "page", !.rows =
                     Page(cycle[d].after, Smaller(MaxOperations - cycle[d].processed, MaxBatch))]
  <2>1. c.phase = "page"
    BY CycleType DEF CycleState
  <2>2. CycleBecomes(d, c)
    BY <1>7 DEF PageServed
  <2> QED BY <1>1, <2>1, <2>2
<1>8. ASSUME NEW d \in Device, NEW row \in cycle[d].rows,
             RowSkip(d, row) \/ RowReplay(d, row) \/ RowApply(d, row) \/ RowQuarantine(d, row)
      PROVE  RepairWithinBudget'
  <2>1. cycle[d].phase = "rows"
    BY <1>8 DEF RowSkip, RowReplay, RowApply, RowQuarantine, NextRow
  <2>2. CycleBecomes(d, Idle) \/ CycleBecomes(d, Processed(cycle[d], row))
    BY <1>8 DEF RowSkip, RowReplay, RowApply, RowQuarantine
  <2>3. Processed(cycle[d], row).phase = "rows"
    BY <2>1, CycleType DEF Processed, CycleState
  <2> QED BY <1>1, <1>5, <2>2, <2>3
<1>9. ASSUME NEW d \in Device, NEW row \in cycle[d].rows, RowGap(d, row) PROVE RepairWithinBudget'
  <2> DEFINE c == Blocked(cycle[d], row, deviceHeads[d][row.op.dev])
  <2>1. row \in Row /\ row.op \in Op
    BY CycleType DEF Row
  <2>2. deviceHeads[d][row.op.dev] + 1 \in Nat /\ row.op.seq - 1 \in Nat
    BY <2>1 DEF Op, TypeOK
  <2>3. c \in CycleState
    BY <2>1, <2>2, CycleType DEF CycleState, Blocked
  <2>4. CycleBecomes(d, Idle) \/ CycleBecomes(d, NextRepair(c, cursor[d]))
    BY <1>9 DEF RowGap
  <2> HIDE DEF c
  <2> QED BY <1>2, <1>5, <2>3, <2>4, NextRepairBudget
<1>10. ASSUME NEW d \in Device, RangeServed(d) PROVE RepairWithinBudget'
  <2>1. PICK b \in cycle[d].blocker :
          CycleBecomes(d, [cycle[d] EXCEPT !.phase = "ranged",
                             !.got = DeviceRange(b.op.dev, cycle[d].next, cycle[d].upto)])
    BY <1>10 DEF RangeServed
  <2> DEFINE c == [cycle[d] EXCEPT !.phase = "ranged",
                             !.got = DeviceRange(b.op.dev, cycle[d].next, cycle[d].upto)]
  <2>2. /\ c.phase = "ranged" /\ c.upto = cycle[d].upto
        /\ c.processed = cycle[d].processed /\ c.next = cycle[d].next
    BY CycleType DEF CycleState
  <2>3. cycle[d].upto + cycle[d].processed + 1 <= cycle[d].next + MaxOperations
    BY <1>10 DEF RangeServed, RepairWithinBudget
  <2> HIDE DEF c
  <2> QED BY <1>2, <2>1, <2>2, <2>3 DEF c
<1>11. ASSUME NEW d \in Device, FinishRange(d) PROVE RepairWithinBudget'
  <2>1. CASE CycleBecomes(d, Idle)
    BY <1>5, <2>1
  <2>2. CASE ~CycleBecomes(d, Idle)
    <3>1. /\ CycleBecomes(d, InPhase(cycle[d], "repair"))
          /\ Cardinality(cycle[d].got) = cycle[d].upto - cycle[d].next + 1
      BY <1>11, <2>2 DEF FinishRange
    <3>2. cycle[d].upto + cycle[d].processed + 1 <= cycle[d].next + MaxOperations
      BY <1>11 DEF FinishRange, RepairWithinBudget
    <3>3. cycle[d].upto \in Nat /\ cycle[d].next \in Nat /\ cycle[d].processed \in Nat
      BY CycleType DEF CycleState
    <3>4. cycle[d].processed + Cardinality(cycle[d].got) <= MaxOperations
      BY <3>1, <3>2, <3>3, ConstantsAssumption
    <3>5. /\ InPhase(cycle[d], "repair").phase = "repair"
          /\ InPhase(cycle[d], "repair").processed = cycle[d].processed
          /\ InPhase(cycle[d], "repair").got = cycle[d].got
      BY CycleType DEF InPhase, CycleState
    <3> QED BY <1>3, <3>1, <3>4, <3>5
  <2> QED BY <2>1, <2>2
<1>12. ASSUME NEW d \in Device, NEW row \in cycle[d].got,
              RepairSkip(d, row) \/ RepairQuarantine(d, row)
       PROVE  RepairWithinBudget'
  BY <1>5, <1>12 DEF RepairSkip, RepairQuarantine
<1>13. ASSUME NEW d \in Device, NEW row \in cycle[d].got,
              RepairReplay(d, row) \/ RepairApply(d, row)
       PROVE  RepairWithinBudget'
  <2>1. CycleBecomes(d, Repaired(cycle[d], row)) /\ cycle[d].phase = "repair"
    BY <1>13 DEF RepairReplay, RepairApply, NextRepairRow
  <2>2. /\ Repaired(cycle[d], row).phase = "repair"
        /\ Repaired(cycle[d], row).processed = cycle[d].processed + 1
        /\ Repaired(cycle[d], row).got = cycle[d].got \ {row}
    BY <2>1, CycleType DEF Repaired, CycleState
  <2>3. /\ Cardinality(cycle[d].got) \in Nat
        /\ Cardinality(cycle[d].got \ {row}) = Cardinality(cycle[d].got) - 1
    BY FS_RemoveElement, FS_CardinalityType DEF Finite
  <2>4. cycle[d].processed + Cardinality(cycle[d].got) <= MaxOperations /\ cycle[d].processed \in Nat
    BY <2>1, CycleType DEF RepairWithinBudget
  <2>5. (cycle[d].processed + 1) + Cardinality(cycle[d].got \ {row}) <= MaxOperations
    BY <2>3, <2>4, ConstantsAssumption
  <2> QED BY <1>3, <2>1, <2>2, <2>5
<1>14. ASSUME NEW d \in Device, QuarantineBlocker(d) PROVE RepairWithinBudget'
  <2> DEFINE c == [cycle[d] EXCEPT !.phase = "rows", !.blocker = {}, !.got = {}, !.processed = @ + 1]
  <2>1. CycleBecomes(d, Idle) \/ CycleBecomes(d, c)
    BY <1>14 DEF QuarantineBlocker
  <2>2. c.phase = "rows"
    BY CycleType DEF CycleState
  <2> HIDE DEF c
  <2> QED BY <1>1, <1>5, <2>1, <2>2
<1>15. ASSUME NEW d \in Device, RepairDone(d) PROVE RepairWithinBudget'
  <2> DEFINE again == [cycle[d] EXCEPT !.next = cycle[d].upto + 1]
             back  == [cycle[d] EXCEPT !.phase = "rows", !.rows = @ \union cycle[d].blocker,
                         !.blocker = {}, !.repaired = TRUE]
  <2>1. again \in CycleState
    BY CycleType DEF CycleState
  <2>2. back.phase = "rows"
    BY CycleType DEF CycleState
  <2>3. CycleBecomes(d, NextRepair(again, cursor[d])) \/ CycleBecomes(d, back)
    BY <1>15 DEF RepairDone
  <2> HIDE DEF again, back
  <2> QED BY <1>1, <1>2, <2>1, <2>2, <2>3, NextRepairBudget
<1>16. ASSUME UNCHANGED vars \/ (\E row \in server : TamperRow(row))
              \/ \E d \in Device : \/ \E r \in Record : LocalWrite(d, r)
                                   \/ TimeStep(d) \/ SessionChanged(d) \/ LateArrival(d)
       PROVE  RepairWithinBudget'
  BY <1>4, <1>16
  DEF vars, TamperRow, LocalWrite, TimeStep, RetryTimeComes, SessionChanged, LateArrival
<1> QED
  BY <1>6, <1>7, <1>8, <1>9, <1>10, <1>11, <1>12, <1>13, <1>14, <1>15, <1>16
  DEF Next, CycleStep, RowStep, RepairStep

(* The strengthened type invariant holds initially. *)
LEMMA TypeInit == Init => TypeInv
<1> SUFFICES ASSUME Init PROVE TypeInv
  OBVIOUS
<1>1. TypeOK
  BY IdleType DEF Init, TypeOK, NoCursor, Cursor
<1>2. Finite
  BY IdleType, FS_EmptySet DEF Init, Finite
<1>3. RepairWithinBudget
  BY IdleType DEF Init, RepairWithinBudget
<1> QED BY <1>1, <1>2, <1>3 DEF TypeInv

(* Type correctness of the whole protocol, with the pull budget: every     *)
(* value a device, the provider or the network ever holds has its type,    *)
(* and no pull processes more than max_operations rows.                    *)
THEOREM TypeCorrect == Spec => []TypeOK
<1>1. Init => TypeInv
  BY TypeInit
<1>2. TypeInv /\ [Next]_vars => TypeInv'
  BY TypeOKStep, FiniteStep, RepairWithinBudgetStep DEF TypeInv
<1>3. TypeInv => TypeOK
  BY DEF TypeInv
<1> QED BY <1>1, <1>2, <1>3, PTL DEF Spec

=============================================================================
