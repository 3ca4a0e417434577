------------------------ MODULE SyncDurabilityProofs ------------------------
(***************************************************************************)
(* Signed sync loses nothing: an operation leaves the outbox of its author *)
(* only once the provider holds it, no step takes back what a vault has    *)
(* stored, passed or counted, a cursor passes nothing that its device has  *)
(* not dealt with, and only damage at the provider puts anything aside.    *)
(***************************************************************************)
EXTENDS SyncConvergenceProofs

(* An accepted push is at the provider while its answer waits to be        *)
(* handled.                                                                *)
AcceptedIsHeld ==
  \A d \in Device :
    cycle[d].phase = "pushed" /\ cycle[d].resp = "ok" =>
      \A b \in cycle[d].batch : \E row \in server : row.op = b.op

DurableInv == ReplicaInv /\ AcceptedIsHeld /\ NothingLost

-----------------------------------------------------------------------------
(* What the provider and the outbox keep. *)

(* A push removes no operation from the provider, and one that is accepted *)
(* leaves all of its operations there.                                     *)
LEMMA ServerAppendKeeps ==
  ASSUME NEW batch, NEW outcome, ServerAppend(batch, outcome)
  PROVE  /\ server \subseteq server'
         /\ outcome = "ok" => \A b \in batch : \E row \in server' : row.op = b.op
<1> DEFINE new == Unseen(batch)
<1>1. \/ ~BytesDiffer(batch)
      \/ outcome # "ok"
  BY DEF ServerAppend
<1>2. ASSUME NEW b \in batch, b \notin new, outcome = "ok"
      PROVE  \E row \in server : row.op = b.op
  BY <1>1, <1>2 DEF Unseen, BytesDiffer
<1> HIDE DEF new
<1>3. CASE server' = server \union {[op |-> b.op, at |-> clock + 1, ok |-> TRUE] : b \in new}
  <2>1. \A b \in new : \E row \in server' : row.op = b.op
    <3> TAKE b \in new
    <3>1. [op |-> b.op, at |-> clock + 1, ok |-> TRUE] \in server'
      BY <1>3
    <3> QED BY <3>1
  <2> QED BY <1>2, <1>3, <2>1
<1>4. CASE \E h \in {0} \union {row.op.seq : row \in server} :
             server' = server \union
               {[op |-> b.op, at |-> clock + (b.op.seq - h), ok |-> TRUE] : b \in new}
  <2>1. PICK h : server' = server \union
                   {[op |-> b.op, at |-> clock + (b.op.seq - h), ok |-> TRUE] : b \in new}
    BY <1>4
  <2>2. \A b \in new : \E row \in server' : row.op = b.op
    <3> TAKE b \in new
    <3>1. [op |-> b.op, at |-> clock + (b.op.seq - h), ok |-> TRUE] \in server'
      BY <2>1
    <3> QED BY <3>1
  <2> QED BY <1>2, <2>1, <2>2
<1>5. CASE outcome # "ok" /\ UNCHANGED server
  BY <1>5
<1> QED BY <1>3, <1>4, <1>5 DEF ServerAppend, new

(* No step makes the provider forget an operation; damage keeps its id. *)
LEMMA ServerKeeps ==
  ASSUME ReplicaInv, [Next]_vars
  PROVE  \A row \in server : \E x \in server' : x.op = row.op
<1> USE DEF ReplicaInv, TypeInv
<1>1. ASSUME UNCHANGED server PROVE \A row \in server : \E x \in server' : x.op = row.op
  BY <1>1
<1>2. ASSUME NEW d \in Device, PushServed(d) \/ LateArrival(d)
      PROVE  \A row \in server : \E x \in server' : x.op = row.op
  BY <1>2, ServerAppendKeeps DEF PushServed, LateArrival
<1>3. ASSUME NEW hit \in server, TamperRow(hit)
      PROVE  \A row \in server : \E x \in server' : x.op = row.op
  <2>1. [hit EXCEPT !.ok = FALSE].op = hit.op
    BY DEF TypeOK, Row
  <2> QED BY <1>3, <2>1 DEF TamperRow
<1>4. ASSUME NEW d \in Device,
             \/ BeginCycle(d) \/ FinishPush(d) \/ PageServed(d) \/ FinishPage(d) \/ PageDone(d)
             \/ RangeServed(d) \/ FinishRange(d) \/ RepairDone(d) \/ QuarantineBlocker(d)
             \/ TimeStep(d) \/ SessionChanged(d) \/ PushLost(d) \/ PushRefused(d)
             \/ PullLost(d) \/ Crash(d)
      PROVE  UNCHANGED server
  BY <1>4
  DEF BeginCycle, FinishPush, PageServed, FinishPage, PageDone, RangeServed, FinishRange,
      RepairDone, QuarantineBlocker, TimeStep, RetryTimeComes, SessionChanged, PushLost,
      PushRefused, PullLost, Crash, Elsewhere
<1>5. ASSUME NEW d \in Device, RowStep(d) \/ RepairStep(d) PROVE UNCHANGED server
  BY <1>5
  DEF RowStep, RepairStep, RowSkip, RowReplay, RowApply, RowQuarantine, RowGap, RepairSkip,
      RepairReplay, RepairApply, RepairQuarantine, Elsewhere
<1>6. ASSUME NEW d \in Device, NEW r \in Record, LocalWrite(d, r) PROVE UNCHANGED server
  BY <1>6 DEF LocalWrite
<1>7. CASE UNCHANGED vars
  BY <1>1, <1>7 DEF vars
<1> QED BY <1>1, <1>2, <1>3, <1>4, <1>5, <1>6, <1>7 DEF Next, CycleStep

-----------------------------------------------------------------------------
(* The answers that wait to be handled. *)

(* A cycle that goes on as c, with c no accepted push, changes no other.   *)
LEMMA OtherPhase ==
  ASSUME TypeOK, NEW d \in Device, NEW c, CycleBecomes(d, c),
         c.phase # "pushed" \/ c.resp # "ok"
  PROVE  \A e \in Device : cycle'[e].phase = "pushed" /\ cycle'[e].resp = "ok" =>
           cycle'[e] = cycle[e]
BY DEF CycleBecomes, TypeOK

(* Every step keeps an accepted push at the provider until its answer is   *)
(* handled.                                                                *)
LEMMA AcceptedIsHeldStep ==
  ASSUME ReplicaInv, AcceptedIsHeld, [Next]_vars
  PROVE  AcceptedIsHeld'
<1> USE DEF ReplicaInv, TypeInv
<1> DEFINE Waiting(e) == cycle'[e].phase = "pushed" /\ cycle'[e].resp = "ok"
           Same == \A e \in Device : Waiting(e) => cycle'[e] = cycle[e]
<1>1. ASSUME Same PROVE AcceptedIsHeld'
  <2> SUFFICES ASSUME NEW e \in Device, Waiting(e), NEW b \in cycle'[e].batch
               PROVE  \E row \in server' : row.op = b.op
    BY DEF AcceptedIsHeld
  <2>1. PICK row \in server : row.op = b.op
    BY <1>1 DEF AcceptedIsHeld
  <2> QED BY <2>1, ServerKeeps
<1>2. ASSUME NEW d \in Device, NEW c, CycleBecomes(d, c), c.phase # "pushed" \/ c.resp # "ok"
      PROVE  Same
  BY <1>2, OtherPhase
<1>3. \A d \in Device : cycle[d] \in CycleState
  BY CycleType
<1>4. \A d \in Device : \A phase : InPhase(cycle[d], phase).phase = phase
  BY <1>3 DEF InPhase, CycleState
<1>5. \A d \in Device : \A resp :
        /\ Answered(cycle[d], resp).resp = resp
        /\ Answered(cycle[d], resp).batch = cycle[d].batch
  BY <1>3 DEF Answered, CycleState
<1>6. \A c \in CycleState : \A at : NextPage(c, at).phase # "pushed" /\ NextRepair(c, at).phase # "pushed"
  BY IdleType DEF NextPage, NextRepair, CycleState
<1>7. \A at, batch : PullFrom(at).phase # "pushed" /\ Pushing(batch).phase # "pushed"
  BY IdleType DEF PullFrom, Pushing, CycleState
<1>8. Idle.phase # "pushed"
  BY IdleType
<1>9. ASSUME NEW d \in Device, PushServed(d) PROVE AcceptedIsHeld'
  <2>1. PICK outcome \in {"ok", "integrity_quarantined"} :
          /\ ServerAppend(cycle[d].batch, outcome)
          /\ CycleBecomes(d, Answered(cycle[d], outcome))
    BY <1>9 DEF PushServed
  <2>2. CASE outcome # "ok"
    <3>1. Answered(cycle[d], outcome).resp # "ok"
      BY <1>5, <2>2
    <3> QED BY <1>1, <1>2, <2>1, <3>1
  <2>3. CASE outcome = "ok"
    <3>1. cycle'[d] = Answered(cycle[d], outcome) /\ \A e \in Device : e # d => cycle'[e] = cycle[e]
      BY <2>1 DEF CycleBecomes, TypeOK
    <3>2. \A b \in cycle'[d].batch : \E row \in server' : row.op = b.op
      BY <1>5, <2>1, <2>3, <3>1, ServerAppendKeeps
    <3>3. ASSUME NEW e \in Device, e # d, Waiting(e), NEW b \in cycle'[e].batch
          PROVE  \E row \in server' : row.op = b.op
      <4>1. PICK row \in server : row.op = b.op
        BY <3>1, <3>3 DEF AcceptedIsHeld
      <4> QED BY <4>1, ServerKeeps
    <3> QED BY <3>2, <3>3 DEF AcceptedIsHeld
  <2> QED BY <2>2, <2>3
<1>10. ASSUME NEW d \in Device, PushLost(d) \/ PushRefused(d) PROVE Same
  <2> SUFFICES ASSUME ~UNCHANGED cycle PROVE Same
    OBVIOUS
  <2>1. PICK code \in Refusals \union {"transient"} : CycleBecomes(d, Answered(cycle[d], code))
    BY <1>10 DEF PushLost, PushRefused
  <2>2. code # "ok"
    BY ConstantsAssumption
  <2>3. Answered(cycle[d], code).resp # "ok"
    BY <1>5, <2>2
  <2> QED BY <1>2, <2>1, <2>3
<1>11. ASSUME NEW d \in Device, BeginCycle(d) PROVE Same
  <2>1. PICK batch : CycleBecomes(d, IF batch = {} THEN PullFrom(cursor[d]) ELSE Pushing(batch))
    BY <1>11 DEF BeginCycle
  <2> QED BY <1>2, <1>7, <2>1
<1>12. ASSUME NEW d \in Device, FinishPush(d) PROVE Same
  <2>1. CycleBecomes(d, PullFrom(cursor[d])) \/ CycleBecomes(d, Idle)
    BY <1>12 DEF FinishPush
  <2> QED BY <1>2, <1>7, <1>8, <2>1
<1>13. ASSUME NEW d \in Device, PageServed(d) \/ RangeServed(d) PROVE Same
  <2>1. \E rows : \/ CycleBecomes(d, [cycle[d] EXCEPT !.phase = "page", !.rows = rows])
                  \/ CycleBecomes(d, [cycle[d] EXCEPT !.phase = "ranged", !.got = rows])
    BY <1>13 DEF PageServed, RangeServed
  <2>2. \A rows : /\ [cycle[d] EXCEPT !.phase = "page", !.rows = rows].phase = "page"
                  /\ [cycle[d] EXCEPT !.phase = "ranged", !.got = rows].phase = "ranged"
    BY <1>3 DEF CycleState
  <2> QED BY <1>2, <2>1, <2>2
<1>14. ASSUME NEW d \in Device, FinishPage(d) \/ FinishRange(d) PROVE Same
  <2>1. \/ CycleBecomes(d, Idle) \/ CycleBecomes(d, InPhase(cycle[d], "rows"))
        \/ CycleBecomes(d, InPhase(cycle[d], "repair"))
    BY <1>14 DEF FinishPage, FinishRange
  <2> QED BY <1>2, <1>4, <1>8, <2>1
<1>15. ASSUME NEW d \in Device, NEW row \in cycle[d].rows,
              RowSkip(d, row) \/ RowReplay(d, row) \/ RowApply(d, row) \/ RowQuarantine(d, row)
       PROVE  Same
  <2>1. cycle[d].phase = "rows"
    BY <1>15 DEF RowSkip, RowReplay, RowApply, RowQuarantine, NextRow
  <2>2. Processed(cycle[d], row).phase = "rows"
    BY <1>3, <2>1 DEF Processed, CycleState
  <2>3. CycleBecomes(d, Idle) \/ CycleBecomes(d, Processed(cycle[d], row))
    BY <1>15 DEF RowSkip, RowReplay, RowApply, RowQuarantine
  <2> QED BY <1>2, <1>8, <2>2, <2>3
<1>16. ASSUME NEW d \in Device, NEW row \in cycle[d].rows, RowGap(d, row) PROVE Same
  <2> DEFINE c == Blocked(cycle[d], row, deviceHeads[d][row.op.dev])
  <2>1. row.op \in Op /\ row \in Row
    BY CycleType DEF Row
  <2>2. deviceHeads[d][row.op.dev] + 1 \in Nat /\ row.op.seq - 1 \in Nat
    BY <2>1 DEF Op, TypeOK
  <2>3. c \in CycleState
    BY <1>3, <2>1, <2>2 DEF CycleState, Blocked
  <2>4. CycleBecomes(d, Idle) \/ CycleBecomes(d, NextRepair(c, cursor[d]))
    BY <1>16 DEF RowGap
  <2> HIDE DEF c
  <2> QED BY <1>2, <1>6, <1>8, <2>3, <2>4
<1>17. ASSUME NEW d \in Device, PageDone(d) PROVE Same
  BY <1>2, <1>3, <1>6, <1>17 DEF PageDone
<1>18. ASSUME NEW d \in Device, NEW row \in cycle[d].got,
              RepairSkip(d, row) \/ RepairQuarantine(d, row)
       PROVE  Same
  <2>1. CycleBecomes(d, Idle) \/ CycleBecomes(d, InPhase(cycle[d], "blocked"))
    BY <1>18 DEF RepairSkip, RepairQuarantine
  <2> QED BY <1>2, <1>4, <1>8, <2>1
<1>19. ASSUME NEW d \in Device, NEW row \in cycle[d].got,
              RepairReplay(d, row) \/ RepairApply(d, row)
       PROVE  Same
  <2>1. cycle[d].phase = "repair" /\ CycleBecomes(d, Repaired(cycle[d], row))
    BY <1>19 DEF RepairReplay, RepairApply, NextRepairRow
  <2>2. Repaired(cycle[d], row).phase = "repair"
    BY <1>3, <2>1 DEF Repaired, CycleState
  <2> QED BY <1>2, <2>1, <2>2
<1>20. ASSUME NEW d \in Device, QuarantineBlocker(d) PROVE Same
  <2> DEFINE c == [cycle[d] EXCEPT !.phase = "rows", !.blocker = {}, !.got = {}, !.processed = @ + 1]
  <2>1. CycleBecomes(d, Idle) \/ CycleBecomes(d, c)
    BY <1>20 DEF QuarantineBlocker
  <2>2. c.phase = "rows"
    BY <1>3 DEF CycleState
  <2> HIDE DEF c
  <2> QED BY <1>2, <1>8, <2>1, <2>2
<1>21. ASSUME NEW d \in Device, RepairDone(d) PROVE Same
  <2> DEFINE again == [cycle[d] EXCEPT !.next = cycle[d].upto + 1]
             back  == [cycle[d] EXCEPT !.phase = "rows", !.rows = @ \union cycle[d].blocker,
                         !.blocker = {}, !.repaired = TRUE]
  <2>1. CycleBecomes(d, NextRepair(again, cursor[d])) \/ CycleBecomes(d, back)
    BY <1>21 DEF RepairDone
  <2>2. again \in CycleState /\ back.phase = "rows"
    BY <1>3 DEF CycleState
  <2> HIDE DEF again, back
  <2> QED BY <1>2, <1>6, <2>1, <2>2
<1>22. ASSUME NEW d \in Device, PullLost(d) \/ Crash(d) PROVE Same
  BY <1>2, <1>8, <1>22 DEF PullLost, Crash
<1>23. ASSUME UNCHANGED cycle PROVE Same
  BY <1>23
<1>24. ASSUME NEW d \in Device, \/ TimeStep(d) \/ SessionChanged(d) \/ LateArrival(d)
                                \/ \E r \in Record : LocalWrite(d, r)
       PROVE  Same
  BY <1>23, <1>24 DEF TimeStep, RetryTimeComes, SessionChanged, LateArrival, LocalWrite
<1>25. ASSUME NEW row \in server, TamperRow(row) PROVE Same
  BY <1>23, <1>25 DEF TamperRow
<1>26. CASE UNCHANGED vars
  BY <1>1, <1>23, <1>26 DEF vars
<1> HIDE DEF Same
<1> QED
  BY <1>1, <1>9, <1>10, <1>11, <1>12, <1>13, <1>14, <1>15, <1>16, <1>17, <1>18, <1>19, <1>20,
     <1>21, <1>22, <1>24, <1>25, <1>26
  DEF Next, CycleStep, RowStep, RepairStep

-----------------------------------------------------------------------------
(* The outbox. *)

(* A queued operation stays queued until the provider holds it. *)
LEMMA OutboxKeeps ==
  ASSUME ReplicaInv, AcceptedIsHeld, [Next]_vars, NEW d \in Device, NEW q \in outbox[d]
  PROVE  \/ \E x \in outbox'[d] : x.op = q.op
         \/ \E row \in server' : row.op = q.op
<1> USE DEF ReplicaInv, TypeInv
<1> DEFINE Kept == \/ \E x \in outbox'[d] : x.op = q.op
                   \/ \E row \in server' : row.op = q.op
<1>1. ASSUME UNCHANGED outbox PROVE Kept
  BY <1>1
<1>2. q \in OutboxRow
  BY DEF TypeOK
<1>3. ASSUME NEW e \in Device, BeginCycle(e) PROVE Kept
  <2>1. PICK k \in {0} \union {x.next : x \in outbox[e]} :
          outbox' = [outbox EXCEPT ![e] =
            IF newSession[e] THEN Unblocked(outbox[e], k) ELSE outbox[e]]
    BY <1>3 DEF BeginCycle
  <2>2. CASE e = d /\ newSession[d]
    <3> DEFINE lifted == [q EXCEPT !.code = "none", !.due = TRUE, !.next = k + 1]
               now == IF q.code = "auth_required" THEN lifted ELSE q
    <3>1. lifted.op = q.op
      BY <1>2 DEF OutboxRow
    <3>2. now \in Unblocked(outbox[d], k)
      BY <2>2 DEF Unblocked
    <3>3. outbox'[d] = Unblocked(outbox[d], k)
      BY <2>1, <2>2 DEF TypeOK
    <3>4. now.op = q.op
      BY <3>1
    <3> HIDE DEF now
    <3> QED BY <3>2, <3>3, <3>4
  <2>3. CASE e # d \/ ~newSession[d]
    BY <2>1, <2>3 DEF TypeOK
  <2> QED BY <2>2, <2>3
<1>4. ASSUME NEW e \in Device, FinishPush(e) PROVE Kept
  <2>1. CASE e # d
    BY <1>4, <2>1 DEF FinishPush, TypeOK
  <2>2. CASE e = d /\ cycle[d].resp = "ok"
    <3>1. outbox'[d] = Acknowledged(outbox[d], cycle[d].batch) /\ UNCHANGED server
      BY <1>4, <2>2 DEF FinishPush, TypeOK
    <3>2. CASE \A b \in cycle[d].batch : b.op # q.op
      BY <3>1, <3>2 DEF Acknowledged
    <3>3. CASE \E b \in cycle[d].batch : b.op = q.op
      BY <1>4, <2>2, <3>1, <3>3 DEF AcceptedIsHeld, FinishPush
    <3> QED BY <3>2, <3>3
  <2>3. CASE e = d /\ cycle[d].resp # "ok"
    <3> DEFINE put == [q EXCEPT !.code = cycle[d].resp, !.due = FALSE, !.next = 0]
               now == IF \E b \in cycle[d].batch : b.op = q.op THEN put ELSE q
    <3>1. put.op = q.op
      BY <1>2 DEF OutboxRow
    <3>2. now \in Deferred(outbox[d], cycle[d].batch, cycle[d].resp)
      BY DEF Deferred
    <3>3. outbox'[d] = Deferred(outbox[d], cycle[d].batch, cycle[d].resp)
      BY <1>4, <2>3 DEF FinishPush, TypeOK
    <3>4. now.op = q.op
      BY <3>1
    <3> HIDE DEF now
    <3> QED BY <3>2, <3>3, <3>4
  <2> QED BY <2>1, <2>2, <2>3
<1>5. ASSUME NEW e \in Device, NEW row \in outbox[e], RetryTimeComes(e, row) PROVE Kept
  <2>1. PICK k \in {0} \union {x.next : x \in outbox[e]} :
          outbox' = [outbox EXCEPT ![e] = (@ \ {row}) \union
                      {[row EXCEPT !.due = TRUE, !.next = k + 1]}]
    BY <1>5 DEF RetryTimeComes
  <2>2. [row EXCEPT !.due = TRUE, !.next = k + 1].op = row.op
    BY CycleType DEF OutboxRow
  <2> QED BY <2>1, <2>2 DEF TypeOK
<1>6. ASSUME NEW e \in Device, NEW r \in Record, LocalWrite(e, r) PROVE Kept
  <2>1. PICK o : Writes(e, o)
    BY <1>6, LocalWriteAdds
  <2>2. PICK x : outbox' = [outbox EXCEPT ![e] = @ \union {x}]
    BY <2>1 DEF Writes
  <2> QED BY <2>2 DEF TypeOK
<1>7. ASSUME NEW e \in Device,
             \/ PushServed(e) \/ PageServed(e) \/ FinishPage(e) \/ PageDone(e) \/ RangeServed(e)
             \/ FinishRange(e) \/ RepairDone(e) \/ QuarantineBlocker(e) \/ SessionChanged(e)
             \/ PushLost(e) \/ PushRefused(e) \/ PullLost(e) \/ LateArrival(e) \/ Crash(e)
      PROVE  UNCHANGED outbox
  BY <1>7
  DEF PushServed, PageServed, FinishPage, PageDone, RangeServed, FinishRange, RepairDone,
      QuarantineBlocker, SessionChanged, PushLost, PushRefused, PullLost, LateArrival, Crash,
      Elsewhere, vault
<1>8. ASSUME NEW e \in Device, RowStep(e) \/ RepairStep(e) PROVE UNCHANGED outbox
  BY <1>8
  DEF RowStep, RepairStep, RowSkip, RowReplay, RowApply, RowQuarantine, RowGap, RepairSkip,
      RepairReplay, RepairApply, RepairQuarantine, Elsewhere, vault
<1>9. ASSUME NEW row \in server, TamperRow(row) PROVE UNCHANGED outbox
  BY <1>9 DEF TamperRow, vault
<1>10. CASE UNCHANGED vars
  BY <1>1, <1>10 DEF vars, vault
<1>11. ASSUME NEW e \in Device, CycleStep(e) PROVE Kept
  BY <1>1, <1>3, <1>4, <1>7, <1>8, <1>11 DEF CycleStep
<1>12. ASSUME NEW e \in Device, TimeStep(e) PROVE Kept
  BY <1>5, <1>12 DEF TimeStep
<1>13. CASE \E row \in server : TamperRow(row)
  BY <1>1, <1>9, <1>13
<1>14. ASSUME NEW e \in Device,
              \/ SessionChanged(e) \/ PushLost(e) \/ PushRefused(e) \/ PullLost(e)
              \/ LateArrival(e) \/ Crash(e)
       PROVE  Kept
  BY <1>1, <1>7, <1>14
<1> QED BY <1>6, <1>10, <1>11, <1>12, <1>13, <1>14 DEF Next

(* What a vault newly stores as its own author, it queues. *)
LEMMA NewIsQueued ==
  ASSUME ReplicaInv, [Next]_vars, NEW d \in Device, NEW o \in stored'[d], o \notin stored[d],
         o.dev = d
  PROVE  \E x \in outbox'[d] : x.op = o
<1> USE DEF ReplicaInv, TypeInv
<1>1. ASSUME NEW e \in Device, NEW p \in AllOps, Adds(e, p) PROVE FALSE
  <2>1. e = d /\ p = o
    BY <1>1, AddsAllOps
  <2>2. o \in stored[d]
    BY <1>1, <2>1 DEF WellFormed
  <2> QED BY <2>2
<1>2. ASSUME NEW e \in Device, NEW r \in Record, LocalWrite(e, r)
      PROVE  \E x \in outbox'[d] : x.op = o
  <2>1. PICK p : Writes(e, p)
    BY <1>2, LocalWriteAdds
  <2>2. e = d /\ p = o
    BY <2>1, AddsAllOps DEF Writes
  <2> QED BY <2>1, <2>2 DEF Writes, TypeOK
<1>3. ASSUME NEW e \in Device, NEW row \in cycle[e].rows, RowApply(e, row) PROVE FALSE
  BY <1>1, <1>3, AppliedRow, AdmittedAdds DEF RowApply
<1>4. ASSUME NEW e \in Device, NEW row \in cycle[e].got, RepairApply(e, row) PROVE FALSE
  BY <1>1, <1>4, AppliedRow, AdmittedAdds DEF RepairApply
<1>5. ~Quiet
  BY DEF Quiet
<1> QED BY <1>2, <1>3, <1>4, <1>5, StepKinds

(* One step keeps every write in its author's outbox or at the provider.   *)
LEMMA NothingLostStep ==
  ASSUME ReplicaInv, AcceptedIsHeld, NothingLost, [Next]_vars
  PROVE  NothingLost'
<1> SUFFICES ASSUME NEW d \in Device, NEW o \in stored'[d], o.dev = d
             PROVE  \/ \E q \in outbox'[d] : q.op = o
                    \/ \E row \in server' : row.op = o
  BY DEF NothingLost
<1>1. CASE o \notin stored[d]
  BY <1>1, NewIsQueued
<1>2. CASE \E q \in outbox[d] : q.op = o
  BY <1>2, OutboxKeeps
<1>3. CASE \E row \in server : row.op = o
  BY <1>3, ServerKeeps
<1> QED BY <1>1, <1>2, <1>3 DEF NothingLost

(* Durability is an invariant of the protocol. *)
THEOREM DurableInvariant == Spec => []DurableInv
<1>1. Init => DurableInv
  <2> SUFFICES ASSUME Init PROVE DurableInv
    OBVIOUS
  <2>1. AcceptedIsHeld
    BY IdleType DEF Init, AcceptedIsHeld
  <2>2. NothingLost
    BY DEF Init, NothingLost
  <2> QED BY <2>1, <2>2, ReplicaInit DEF DurableInv
<1>2. DurableInv /\ [Next]_vars => DurableInv'
  BY ReplicaStep, AcceptedIsHeldStep, NothingLostStep DEF DurableInv
<1> QED BY <1>1, <1>2, PTL DEF Spec

(* A write is in its author's outbox or at the provider, always: neither a *)
(* lost answer, a crash between push and acknowledgement, a late request   *)
(* nor a retry drops one, whatever the sizes of batches and pages.         *)
THEOREM NothingLostAlways == Spec => []NothingLost
<1>1. DurableInv => NothingLost
  BY DEF DurableInv
<1> QED BY <1>1, DurableInvariant, PTL

-----------------------------------------------------------------------------
(* Progress is never taken back. *)

(* CursorLess is irreflexive and asymmetric. *)
LEMMA CursorOrder ==
  ASSUME NEW a \in Cursor, NEW b \in Cursor
  PROVE  ~CursorLess(a, a) /\ (CursorLess(a, b) => ~CursorLess(b, a))
BY DEF Cursor, CursorLess

(* No step moves a cursor back. *)
LEMMA CursorForward ==
  ASSUME TypeInv, [Next]_vars, NEW d \in Device
  PROVE  ~CursorLess(cursor'[d], cursor[d])
<1> USE DEF TypeInv
<1>1. cursor[d] \in Cursor
  BY CycleType
<1>2. ASSUME UNCHANGED cursor PROVE ~CursorLess(cursor'[d], cursor[d])
  BY <1>1, <1>2, CursorOrder
<1>3. ASSUME NEW e \in Device, NEW row \in Row, AdvanceCursor(e, row)
      PROVE  ~CursorLess(cursor'[d], cursor[d])
  <2>1. cursor'[d] = cursor[d] \/ (cursor'[d] = RowCursor(row) /\ CursorLess(cursor[d], RowCursor(row)))
    BY <1>3 DEF AdvanceCursor, TypeOK
  <2> QED BY <1>1, <2>1, RowCursorType, CursorOrder
<1>4. ASSUME NEW e \in Device, NEW row \in cycle[e].rows,
             RowSkip(e, row) \/ RowReplay(e, row) \/ RowApply(e, row) \/ RowQuarantine(e, row)
                \/ RowGap(e, row)
      PROVE  AdvanceCursor(e, row) \/ UNCHANGED cursor
  BY <1>4 DEF RowSkip, RowReplay, RowApply, RowQuarantine, RowGap
<1>5. ASSUME NEW e \in Device, QuarantineBlocker(e)
      PROVE  UNCHANGED cursor \/ \E b \in cycle[e].blocker : AdvanceCursor(e, b)
  BY <1>5 DEF QuarantineBlocker
<1>6. ASSUME NEW e \in Device,
             \/ BeginCycle(e) \/ FinishPush(e) \/ TimeStep(e)
             \/ PushServed(e) \/ PageServed(e) \/ FinishPage(e) \/ PageDone(e) \/ RangeServed(e)
             \/ FinishRange(e) \/ RepairDone(e) \/ RepairStep(e) \/ SessionChanged(e)
             \/ PushLost(e) \/ PushRefused(e) \/ PullLost(e) \/ LateArrival(e) \/ Crash(e)
             \/ \E r \in Record : LocalWrite(e, r)
      PROVE  UNCHANGED cursor
  BY <1>6
  DEF BeginCycle, FinishPush, TimeStep, RetryTimeComes, PushServed, PageServed, FinishPage,
      PageDone, RangeServed, FinishRange, RepairDone, RepairStep, RepairSkip, RepairReplay,
      RepairApply, RepairQuarantine, SessionChanged, PushLost, PushRefused, PullLost,
      LateArrival, Crash, LocalWrite, vault
<1>7. ASSUME NEW row \in server, TamperRow(row) PROVE UNCHANGED cursor
  BY <1>7 DEF TamperRow, vault
<1>8. CASE UNCHANGED vars
  BY <1>2, <1>8 DEF vars, vault
<1>9. \A e \in Device : cycle[e].rows \subseteq Row /\ cycle[e].blocker \subseteq Row
  BY CycleType
<1> QED BY <1>2, <1>3, <1>4, <1>5, <1>6, <1>7, <1>8, <1>9 DEF Next, CycleStep, RowStep

(* A device head moves only by the operation that follows it. *)
LEMMA HeadsFollow ==
  ASSUME ReplicaInv, [Next]_vars, NEW d \in Device, NEW e \in Device,
         deviceHeads'[d][e] # deviceHeads[d][e]
  PROVE  /\ deviceHeads'[d][e] = deviceHeads[d][e] + 1
         /\ \E o \in stored'[d] \ stored[d] : o.dev = e /\ o.seq = deviceHeads'[d][e]
<1> USE DEF ReplicaInv, TypeInv
<1>1. ASSUME NEW f \in Device, NEW o, Adds(f, o)
      PROVE  /\ deviceHeads'[d][e] = deviceHeads[d][e] + 1
             /\ \E p \in stored'[d] \ stored[d] : p.dev = e /\ p.seq = deviceHeads'[d][e]
  <2>1. f = d /\ e = o.dev
    BY <1>1, AddsHeads
  <2>2. deviceHeads'[d][e] = deviceHeads[d][e] + 1
    BY <1>1, <2>1, AddsHeads
  <2>3. o.seq = deviceHeads[d][o.dev] + 1
    BY <1>1, <2>1 DEF Adds
  <2>4. o.seq = deviceHeads'[d][e]
    BY <2>1, <2>2, <2>3
  <2>5. o \in stored'[d]
    BY <1>1, <2>1, AddsAllOps
  <2>6. NewTo(o, stored[d]) /\ o.seq \in Nat
    BY <1>1, <2>1, AddsNewTo DEF Adds, Op
  <2>7. o \notin stored[d]
    <3>1. o \in stored[d] => o.seq < o.seq
      BY <2>6 DEF NewTo
    <3> QED BY <2>6, <3>1
  <2> QED BY <2>1, <2>2, <2>4, <2>5, <2>7
<1>2. ~Quiet
  BY DEF Quiet
<1>3. ASSUME NEW f \in Device, NEW r \in Record, LocalWrite(f, r) PROVE \E o : Adds(f, o)
  BY <1>3, LocalWriteAdds DEF Writes
<1>4. ASSUME NEW f \in Device, NEW row \in cycle[f].rows, RowApply(f, row) PROVE Adds(f, row.op)
  BY <1>4, AppliedRow, AdmittedAdds DEF RowApply
<1>5. ASSUME NEW f \in Device, NEW row \in cycle[f].got, RepairApply(f, row) PROVE Adds(f, row.op)
  BY <1>5, AppliedRow, AdmittedAdds DEF RepairApply
<1> QED BY <1>1, <1>2, <1>3, <1>4, <1>5, StepKinds

(* Stored operations stay, cursors never move back, and a device head      *)
(* moves one operation at a time: whatever fails in between, a vault only  *)
(* gains.                                                                  *)
THEOREM DurableProgressAlways == Spec => DurableProgress
<1>1. ReplicaInv /\ [Next]_vars =>
        [\A d \in Device :
           /\ stored[d] \subseteq stored'[d]
           /\ ~CursorLess(cursor'[d], cursor[d])
           /\ \A e \in Device :
                deviceHeads'[d][e] # deviceHeads[d][e] =>
                  /\ deviceHeads'[d][e] = deviceHeads[d][e] + 1
                  /\ \E o \in stored'[d] \ stored[d] : o.dev = e /\ o.seq = deviceHeads'[d][e]]_vars
  <2> SUFFICES ASSUME ReplicaInv, [Next]_vars, NEW d \in Device
               PROVE  /\ stored[d] \subseteq stored'[d]
                      /\ ~CursorLess(cursor'[d], cursor[d])
                      /\ \A e \in Device :
                           deviceHeads'[d][e] # deviceHeads[d][e] =>
                             /\ deviceHeads'[d][e] = deviceHeads[d][e] + 1
                             /\ \E o \in stored'[d] \ stored[d] :
                                  o.dev = e /\ o.seq = deviceHeads'[d][e]
    OBVIOUS
  <2>1. TypeInv
    BY DEF ReplicaInv
  <2> QED BY <2>1, StoredGrows, CursorForward, HeadsFollow
<1> QED BY <1>1, ReplicaInvariant, PTL DEF Spec, DurableProgress

-----------------------------------------------------------------------------
(* What a pull passes, puts aside and repairs.                             *)
(*                                                                         *)
(* The provider stamps what it takes with a later time than anything it    *)
(* has handed out, so new rows lie beyond every cursor and every page.     *)
(* What precedes the first pending row of a pull is therefore dealt with   *)
(* for good, and that decides whether the row may be refused or lack its   *)
(* predecessor.                                                            *)

(* A device has dealt with an operation: stored it, or put it aside. *)
Held(d, o) == o \in stored[d] \/ \E q \in quarantine[d] : q.row.op = o

(* Two copies of a row; the provider may have damaged one of them since. *)
SameRow(x, y) == x.op = y.op /\ x.at = y.at

(* The order in which a pull passes rows. *)
Before(x, y) == CursorLess(RowCursor(x), RowCursor(y))

(* The phases in which a gap is under repair, and those that apply a page. *)
Repairing == {"range", "ranged", "repair", "blocked"}
Applying == Repairing \union {"rows"}

(* The rows a pull has still to pass. *)
Pending(c) == c.rows \union c.blocker

(* A damaged row explains why o is put aside. *)
Caused(o) == \E s \in server : ~s.ok /\ (s.op = o \/ Past(s.op, o))

(* The provider's clock bounds everything it has handed out. *)
Dated ==
  /\ \A row \in server : row.at <= clock
  /\ \A d \in Device : cursor[d].at <= clock /\ cycle[d].after.at <= clock

(* The rows in a cycle are copies of the provider's. *)
Served(d) ==
  \A x \in RowsOf(cycle[d]) : \E s \in server : SameRow(s, x) /\ (~x.ok => ~s.ok)

(* The cursor has passed nothing but what the device has dealt with. *)
Passed(d) ==
  \A row \in server : CursorLess(cursor[d], RowCursor(row)) \/ Held(d, row.op)

(* A page is what follows its cursor, without omission. *)
PageFollows(d) ==
  cycle[d].phase = "page" =>
    /\ \A x \in cycle[d].rows : CursorLess(cycle[d].after, RowCursor(x))
    /\ \A row \in server :
         \/ ~CursorLess(cycle[d].after, RowCursor(row))
         \/ \E x \in cycle[d].rows : SameRow(x, row)
         \/ \A x \in cycle[d].rows : Before(x, row)

(* While rows are applied the cursor is before all that are pending, and a *)
(* row of the provider is dealt with, pending, or beyond them.             *)
RowsFollow(d) ==
  cycle[d].phase \in Applying =>
    /\ \A x \in Pending(cycle[d]) : CursorLess(cursor[d], RowCursor(x))
    /\ \A row \in server :
         \/ Held(d, row.op)
         \/ \E x \in Pending(cycle[d]) : SameRow(x, row)
         \/ /\ CursorLess(cursor[d], RowCursor(row))
            /\ \A x \in Pending(cycle[d]) : Before(x, row)

(* A repair is about one row, the first that is pending, and fetches       *)
(* earlier operations of its device; what stops it is a damaged row.       *)
RepairOf(c) ==
  /\ c.phase \in Repairing <=> c.blocker # {}
  /\ \A b \in c.blocker :
       /\ \A x \in c.rows : Before(b, x)
       /\ \A x \in c.blocker : x = b
       /\ b.op.seq = c.last + 1
       /\ c.phase = "range" => c.upto <= c.last
       /\ c.phase \in {"ranged", "repair"} =>
            \A g \in c.got : g.op.dev = b.op.dev /\ g.op.seq < b.op.seq

(* A row given up on has a damaged row to blame. *)
BlockedByDamage(d) ==
  cycle[d].phase = "blocked" => \A b \in cycle[d].blocker : Caused(b.op)

(* HostedNeverRepairs, for one device. *)
Unrepaired(d) ==
  StrictSequence /\ tampered = 0 => cycle[d].phase \notin Repairing

(* What holds of the pull of one device, and of the provider. *)
PullInv(d) ==
  /\ Served(d) /\ Passed(d) /\ PageFollows(d) /\ RowsFollow(d)
  /\ RepairOf(cycle[d]) /\ BlockedByDamage(d) /\ Unrepaired(d)

(* The past of an operation contains the past of what it contains. *)
FrontsClosed ==
  \A o, p \in AllOps : Past(p, o) => \A e \in Device : p.front[e] <= o.front[e]

(* What a vault has from other devices, the provider has. *)
ForeignServed ==
  \A d \in Device : \A o \in stored[d] : o.dev # d => \E s \in server : s.op = o

(* The provider received what an operation depends on, of other devices,   *)
(* before the operation.                                                   *)
PastEarlier ==
  \A row \in server : \A e \in Device \ {row.op.dev} : \A n \in 1 .. row.op.front[e] :
    \E s \in server : s.op.dev = e /\ s.op.seq = n /\ s.at < row.at

(* A device pushes its own operations only. *)
Authored ==
  \A d \in Device :
    /\ \A q \in outbox[d] : q.op.dev = d
    /\ \A b \in cycle[d].batch : b.op.dev = d
    /\ \A batch \in wire[d] : \A b \in batch : b.op.dev = d

(* The hosted provider has the operations of a device in sequence. *)
InOrder ==
  StrictSequence =>
    \A row \in server : \A n \in 1 .. (row.op.seq - 1) :
      \E s \in server : s.op.dev = row.op.dev /\ s.op.seq = n /\ s.at < row.at

(* What nobody damaged is intact. *)
Intact == tampered = 0 => \A row \in server : row.ok

ProviderInv == FrontsClosed /\ ForeignServed /\ PastEarlier /\ Authored /\ InOrder /\ Intact

(* The inductive invariant. *)
DeliveryInv ==
  /\ ReplicaInv /\ Dated /\ ProviderInv
  /\ QuarantineHasCause
  /\ \A d \in Device : PullInv(d)

-----------------------------------------------------------------------------
(* The order of rows, and what a step does to the provider. *)

(* The order of cursors is transitive and total. *)
LEMMA CursorTotal ==
  ASSUME NEW a \in Cursor, NEW b \in Cursor, NEW c \in Cursor
  PROVE  /\ CursorLess(a, b) /\ CursorLess(b, c) => CursorLess(a, c)
         /\ CursorLess(a, b) \/ CursorLess(b, a) \/ a = b
BY DEF Cursor, CursorLess

(* The time and the id of a row's cursor. *)
LEMMA RowCursorParts ==
  ASSUME NEW row
  PROVE  RowCursor(row).at = row.at /\ RowCursor(row).id = row.op.id
BY DEF RowCursor

(* Copies of a row have one cursor. *)
LEMMA SameCursor ==
  ASSUME NEW x, NEW y, SameRow(x, y)
  PROVE  RowCursor(x) = RowCursor(y)
BY DEF SameRow, RowCursor

(* What an accepted push adds is newer than all the provider has. *)
LEMMA AppendAdds ==
  ASSUME TypeOK, NEW batch \in SUBSET OutboxRow, NEW outcome, ServerAppend(batch, outcome)
  PROVE  /\ clock \in Nat /\ clock' \in Nat /\ clock <= clock'
         /\ server \subseteq server'
         /\ \A t \in server' \ server :
              t.at \in Nat /\ t.at > clock /\ t.at <= clock' /\ t.ok /\ \E b \in batch : b.op = t.op
<1> DEFINE new == Unseen(batch)
<1>0. clock \in Nat /\ new \subseteq batch /\ \A b \in new : b.op.seq \in Nat
  BY DEF TypeOK, Unseen, OutboxRow, Op
<1>a. \/ /\ clock' = IF new = {} THEN clock ELSE clock + 1
         /\ server' = server \union {[op |-> b.op, at |-> clock + 1, ok |-> TRUE] : b \in new}
      \/ \E h \in {0} \union {row.op.seq : row \in server}, n \in 0 .. MaxBatch :
           /\ InSequence(new, h, n)
           /\ clock' = clock + n
           /\ server' = server \union
                {[op |-> b.op, at |-> clock + (b.op.seq - h), ok |-> TRUE] : b \in new}
      \/ UNCHANGED <<server, clock>>
  BY DEF ServerAppend
<1> HIDE DEF new
<1>1. CASE /\ clock' = IF new = {} THEN clock ELSE clock + 1
           /\ server' = server \union {[op |-> b.op, at |-> clock + 1, ok |-> TRUE] : b \in new}
  <2>1. ASSUME NEW t \in server' \ server
        PROVE  t.at \in Nat /\ t.at > clock /\ t.at <= clock' /\ t.ok /\ \E b \in batch : b.op = t.op
    <3>1. PICK b \in new : t = [op |-> b.op, at |-> clock + 1, ok |-> TRUE]
      BY <1>1, <2>1
    <3>2. t.op = b.op /\ t.at = clock + 1 /\ t.ok = TRUE
      BY <3>1
    <3>3. clock' = clock + 1
      BY <1>1, <3>1
    <3> QED BY <1>0, <3>2, <3>3
  <2> QED BY <1>0, <1>1, <2>1
<1>2. ASSUME NEW h \in {0} \union {row.op.seq : row \in server}, NEW n \in 0 .. MaxBatch,
             InSequence(new, h, n), clock' = clock + n,
             server' = server \union
                {[op |-> b.op, at |-> clock + (b.op.seq - h), ok |-> TRUE] : b \in new}
      PROVE  /\ clock \in Nat /\ clock' \in Nat /\ clock <= clock'
             /\ server \subseteq server'
             /\ \A t \in server' \ server :
                  t.at \in Nat /\ t.at > clock /\ t.at <= clock' /\ t.ok /\ \E b \in batch : b.op = t.op
  <2>0. h \in Nat /\ n \in Nat
    BY ConstantsAssumption DEF TypeOK, Row, Op
  <2>1. ASSUME NEW t \in server' \ server
        PROVE  t.at \in Nat /\ t.at > clock /\ t.at <= clock' /\ t.ok /\ \E b \in batch : b.op = t.op
    <3>1. PICK b \in new : t = [op |-> b.op, at |-> clock + (b.op.seq - h), ok |-> TRUE]
      BY <1>2, <2>1
    <3>2. t.op = b.op /\ t.at = clock + (b.op.seq - h) /\ t.ok = TRUE
      BY <3>1
    <3>3. b.op.seq \in (h + 1) .. (h + n)
      BY <1>2 DEF InSequence
    <3> QED BY <1>0, <1>2, <2>0, <3>2, <3>3
  <2> QED BY <1>0, <1>2, <2>0, <2>1
<1>3. CASE UNCHANGED <<server, clock>>
  BY <1>0, <1>3
<1> QED BY <1>a, <1>1, <1>2, <1>3

(* A step keeps the provider's rows, lets damage stand, and dates what is  *)
(* new after everything handed out before.                                 *)
ProviderGrows ==
  /\ clock \in Nat /\ clock' \in Nat /\ clock <= clock'
  /\ \A s \in server : \E t \in server' : SameRow(t, s) /\ (~s.ok => ~t.ok)
  /\ \A t \in server' :
       \/ \E s \in server : SameRow(s, t)
       \/ t.at > clock /\ t.at <= clock' /\ t.op \in AllOps
  /\ tampered' = 0 => tampered = 0 /\ \A t \in server' : t \in server \/ t.ok

(* Every step grows the provider this way. *)
LEMMA ProviderStep ==
  ASSUME ReplicaInv, [Next]_vars
  PROVE  ProviderGrows
<1> USE DEF ReplicaInv, TypeInv
<1>0. clock \in Nat /\ tampered \in Nat /\ server \subseteq Row
  BY DEF TypeOK
<1>1. ASSUME UNCHANGED <<server, clock, tampered>> PROVE ProviderGrows
  BY <1>0, <1>1 DEF ProviderGrows, SameRow
<1>2. ASSUME NEW batch \in SUBSET OutboxRow, NEW outcome, ServerAppend(batch, outcome),
             \A b \in batch : b.op \in AllOps, UNCHANGED tampered
      PROVE  ProviderGrows
  BY <1>0, <1>2, AppendAdds DEF ProviderGrows, SameRow
<1>3. ASSUME NEW d \in Device, PushServed(d) PROVE ProviderGrows
  BY <1>2, <1>3, CycleType DEF PushServed, bounds, Carried
<1>4. ASSUME NEW d \in Device, LateArrival(d) PROVE ProviderGrows
  <2>1. \A batch \in wire[d] : batch \in SUBSET OutboxRow /\ \A b \in batch : b.op \in AllOps
    BY DEF TypeOK, Carried
  <2> QED BY <1>2, <1>4, <2>1 DEF LateArrival, bounds
<1>5. ASSUME NEW hit \in server, TamperRow(hit) PROVE ProviderGrows
  <2> DEFINE bad == [hit EXCEPT !.ok = FALSE]
  <2>1. bad.op = hit.op /\ bad.at = hit.at /\ bad.ok = FALSE
    BY <1>0 DEF Row
  <2>2. server' = (server \ {hit}) \union {bad} /\ tampered' = tampered + 1 /\ clock' = clock
    BY <1>5 DEF TamperRow
  <2> HIDE DEF bad
  <2>3. tampered' # 0
    BY <1>0, <2>2
  <2> QED BY <1>0, <2>1, <2>2, <2>3 DEF ProviderGrows, SameRow
<1>6. ASSUME NEW d \in Device,
             \/ BeginCycle(d) \/ FinishPush(d) \/ PageServed(d) \/ FinishPage(d) \/ PageDone(d)
             \/ RangeServed(d) \/ FinishRange(d) \/ RepairDone(d) \/ QuarantineBlocker(d)
             \/ TimeStep(d) \/ SessionChanged(d) \/ PushLost(d) \/ PushRefused(d)
             \/ PullLost(d) \/ Crash(d)
      PROVE  UNCHANGED <<server, clock, tampered>>
  BY <1>6
  DEF BeginCycle, FinishPush, PageServed, FinishPage, PageDone, RangeServed, FinishRange,
      RepairDone, QuarantineBlocker, TimeStep, RetryTimeComes, SessionChanged, PushLost,
      PushRefused, PullLost, Crash, Elsewhere, bounds
<1>7. ASSUME NEW d \in Device, RowStep(d) \/ RepairStep(d) PROVE UNCHANGED <<server, clock, tampered>>
  BY <1>7
  DEF RowStep, RepairStep, RowSkip, RowReplay, RowApply, RowQuarantine, RowGap, RepairSkip,
      RepairReplay, RepairApply, RepairQuarantine, Elsewhere, bounds
<1>8. ASSUME NEW d \in Device, NEW r \in Record, LocalWrite(d, r)
      PROVE  UNCHANGED <<server, clock, tampered>>
  BY <1>8 DEF LocalWrite, bounds
<1>9. CASE UNCHANGED vars
  BY <1>1, <1>9 DEF vars, bounds
<1> QED BY <1>1, <1>3, <1>4, <1>5, <1>6, <1>7, <1>8, <1>9 DEF Next, CycleStep

(* No step removes a receipt from quarantine. *)
LEMMA QuarantineSteps ==
  ASSUME TypeInv, [Next]_vars
  PROVE  \/ UNCHANGED quarantine
         \/ \E d \in Device : \E row \in cycle[d].rows : RowQuarantine(d, row)
         \/ \E d \in Device : \E row \in cycle[d].got : RepairQuarantine(d, row)
         \/ \E d \in Device : QuarantineBlocker(d)
<1>1. ASSUME NEW d \in Device,
             \/ BeginCycle(d) \/ FinishPush(d) \/ PageServed(d) \/ FinishPage(d) \/ PageDone(d)
             \/ RangeServed(d) \/ FinishRange(d) \/ RepairDone(d) \/ PushServed(d)
             \/ TimeStep(d) \/ SessionChanged(d) \/ PushLost(d) \/ PushRefused(d)
             \/ PullLost(d) \/ Crash(d) \/ LateArrival(d)
      PROVE  UNCHANGED quarantine
  BY <1>1
  DEF BeginCycle, FinishPush, PageServed, FinishPage, PageDone, RangeServed, FinishRange,
      RepairDone, PushServed, TimeStep, RetryTimeComes, SessionChanged, PushLost,
      PushRefused, PullLost, Crash, LateArrival, vault
<1>2. ASSUME NEW d \in Device, NEW row,
             \/ RowSkip(d, row) \/ RowReplay(d, row) \/ RowApply(d, row) \/ RowGap(d, row)
             \/ RepairSkip(d, row) \/ RepairReplay(d, row) \/ RepairApply(d, row)
      PROVE  UNCHANGED quarantine
  BY <1>2
  DEF RowSkip, RowReplay, RowApply, RowGap, RepairSkip, RepairReplay, RepairApply, vault
<1>3. ASSUME NEW d \in Device, NEW r \in Record, LocalWrite(d, r) PROVE UNCHANGED quarantine
  BY <1>3 DEF LocalWrite
<1>4. ASSUME NEW row \in server, TamperRow(row) PROVE UNCHANGED quarantine
  BY <1>4 DEF TamperRow, vault
<1>5. CASE UNCHANGED vars
  BY <1>5 DEF vars, vault
<1> QED BY <1>1, <1>2, <1>3, <1>4, <1>5 DEF Next, CycleStep, RowStep, RepairStep

(* What a device has dealt with stays dealt with. *)
LEMMA HeldStays ==
  ASSUME ReplicaInv, [Next]_vars, NEW d \in Device, NEW o, Held(d, o)
  PROVE  Held(d, o)'
<1> USE DEF ReplicaInv, TypeInv
<1>1. stored[d] \subseteq stored'[d]
  BY StoredGrows
<1>2. ASSUME NEW e \in Device, NEW row, NEW code, Quarantined(e, row, code)
      PROVE  quarantine[d] \subseteq quarantine'[d]
  BY <1>2 DEF Quarantined, TypeOK
<1>3. quarantine[d] \subseteq quarantine'[d]
  BY <1>2, QuarantineSteps DEF RowQuarantine, RepairQuarantine, QuarantineBlocker
<1> QED BY <1>1, <1>3 DEF Held

-----------------------------------------------------------------------------
(* One device's pull. *)

(* Rows of a pull are dated by the provider's clock. *)
LEMMA PulledDated ==
  ASSUME Dated, NEW d \in Device, Served(d), NEW x \in RowsOf(cycle[d])
  PROVE  x.at <= clock
BY DEF Dated, Served, SameRow

(* A row the provider takes now lies beyond every cursor it has handed out. *)
LEMMA NewBeyond ==
  ASSUME NEW k \in Nat, NEW a \in Cursor, a.at <= k, NEW t \in Row, t.at > k
  PROVE  CursorLess(a, RowCursor(t))
BY RowCursorType, RowCursorParts DEF Cursor, CursorLess

(* The copies of a cycle stay copies, whatever subset of them goes on. *)
LEMMA ServedStays ==
  ASSUME ProviderGrows, NEW d \in Device, Served(d), RowsOf(cycle'[d]) \subseteq RowsOf(cycle[d])
  PROVE  Served(d)'
<1> SUFFICES ASSUME NEW x \in RowsOf(cycle'[d])
             PROVE  \E t \in server' : SameRow(t, x) /\ (~x.ok => ~t.ok)
  BY DEF Served, RowsOf, SameRow
<1>1. PICK s \in server : SameRow(s, x) /\ (~x.ok => ~s.ok)
  BY DEF Served
<1>2. PICK t \in server' : SameRow(t, s) /\ (~s.ok => ~t.ok)
  BY DEF ProviderGrows
<1> QED BY <1>1, <1>2 DEF SameRow

(* A cursor that stays passes nothing new. *)
LEMMA PassedStays ==
  ASSUME DeliveryInv, ProviderGrows, TypeOK', NEW d \in Device, cursor'[d] = cursor[d],
         \A o : Held(d, o) => Held(d, o)'
  PROVE  Passed(d)'
<1> SUFFICES ASSUME NEW t \in server' PROVE CursorLess(cursor[d], RowCursor(t)) \/ Held(d, t.op)'
  BY DEF Passed
<1>1. cursor[d] \in Cursor /\ t \in Row
  BY CycleType DEF TypeOK, DeliveryInv, ReplicaInv, TypeInv
<1>2. CASE \E s \in server : SameRow(s, t)
  <2>1. PICK s \in server : SameRow(s, t)
    BY <1>2
  <2>2. CursorLess(cursor[d], RowCursor(s)) \/ Held(d, s.op)
    BY DEF DeliveryInv, PullInv, Passed
  <2> QED BY <2>1, <2>2, SameCursor DEF SameRow
<1>3. CASE t.at > clock
  <2>1. clock \in Nat /\ cursor[d].at <= clock
    BY DEF DeliveryInv, Dated, ProviderGrows
  <2> QED BY <1>1, <1>3, <2>1, NewBeyond
<1> QED BY <1>2, <1>3 DEF ProviderGrows

(* What explains a receipt goes on explaining it. *)
LEMMA CausedStays ==
  ASSUME ProviderGrows, NEW o, Caused(o)
  PROVE  Caused(o)'
<1>1. PICK s \in server : ~s.ok /\ (s.op = o \/ Past(s.op, o))
  BY DEF Caused
<1>2. PICK t \in server' : SameRow(t, s) /\ (~s.ok => ~t.ok)
  BY DEF ProviderGrows
<1>3. t.op = s.op /\ ~t.ok
  BY <1>1, <1>2 DEF SameRow
<1> QED BY <1>1, <1>3 DEF Caused

(* A cycle without rows at hand, or with none yet. *)
Calm(c) == c.phase \in {"idle", "push", "pushed", "pull"} /\ c.blocker = {}

(* A cycle that ends, or waits for an answer, keeps the pull's invariant.  *)
LEMMA CalmKeeps ==
  ASSUME DeliveryInv, ProviderGrows, TypeOK', NEW d \in Device, cursor'[d] = cursor[d],
         \A o : Held(d, o) => Held(d, o)',
         Calm(cycle'[d]), RowsOf(cycle'[d]) \subseteq RowsOf(cycle[d])
  PROVE  PullInv(d)'
<1>1. Served(d)'
  BY ServedStays DEF DeliveryInv, PullInv
<1>2. Passed(d)'
  BY PassedStays
<1>3. PageFollows(d)' /\ RowsFollow(d)' /\ RepairOf(cycle[d])' /\ BlockedByDamage(d)' /\ Unrepaired(d)'
  BY DEF Calm, PageFollows, RowsFollow, RepairOf, BlockedByDamage, Unrepaired, Repairing, Applying
<1> QED BY <1>1, <1>2, <1>3 DEF PullInv

(* A page stays a page while the provider takes more. *)
LEMMA PageStays ==
  ASSUME DeliveryInv, ProviderGrows, TypeOK', NEW d \in Device, cycle'[d] = cycle[d]
  PROVE  PageFollows(d)'
<1> SUFFICES ASSUME cycle[d].phase = "page", NEW t \in server'
             PROVE  /\ \A x \in cycle[d].rows : CursorLess(cycle[d].after, RowCursor(x))
                    /\ \/ ~CursorLess(cycle[d].after, RowCursor(t))
                       \/ \E x \in cycle[d].rows : SameRow(x, t)
                       \/ \A x \in cycle[d].rows : Before(x, t)
  BY DEF PageFollows, DeliveryInv, PullInv, SameRow, Before
<1>1. PageFollows(d) /\ Served(d) /\ Dated
  BY DEF DeliveryInv, PullInv
<1>2. t \in Row /\ cycle[d].rows \subseteq Row /\ clock \in Nat
  BY CycleType DEF TypeOK, DeliveryInv, ReplicaInv, TypeInv, ProviderGrows
<1>3. \A x \in cycle[d].rows : CursorLess(cycle[d].after, RowCursor(x))
  BY <1>1 DEF PageFollows
<1>4. CASE \E s \in server : SameRow(s, t)
  <2>1. PICK s \in server : SameRow(s, t)
    BY <1>4
  <2>2. \/ ~CursorLess(cycle[d].after, RowCursor(s))
        \/ \E x \in cycle[d].rows : SameRow(x, s)
        \/ \A x \in cycle[d].rows : Before(x, s)
    BY <1>1 DEF PageFollows
  <2> QED BY <1>3, <2>1, <2>2, SameCursor DEF SameRow, Before
<1>5. CASE t.at > clock
  <2>1. \A x \in cycle[d].rows : x.at <= clock
    BY <1>1, PulledDated DEF RowsOf
  <2>2. \A x \in cycle[d].rows : Before(x, t)
    BY <1>2, <1>5, <2>1, NewBeyond, RowCursorType, RowCursorParts DEF Before
  <2> QED BY <1>3, <2>2
<1> QED BY <1>4, <1>5 DEF ProviderGrows

(* What follows the pending rows goes on following them while the pull     *)
(* passes none of them.                                                    *)
LEMMA PendingStays ==
  ASSUME DeliveryInv, ProviderGrows, TypeOK', NEW d \in Device, cursor'[d] = cursor[d],
         \A o : Held(d, o) => Held(d, o)',
         cycle[d].phase \in Applying, Pending(cycle'[d]) = Pending(cycle[d])
  PROVE  RowsFollow(d)'
<1> SUFFICES ASSUME NEW t \in server'
             PROVE  /\ \A x \in Pending(cycle[d]) : CursorLess(cursor[d], RowCursor(x))
                    /\ \/ Held(d, t.op)'
                       \/ \E x \in Pending(cycle[d]) : SameRow(x, t)
                       \/ /\ CursorLess(cursor[d], RowCursor(t))
                          /\ \A x \in Pending(cycle[d]) : Before(x, t)
  BY DEF RowsFollow, DeliveryInv, PullInv, SameRow, Before, Pending
<1>1. RowsFollow(d) /\ Served(d) /\ Dated
  BY DEF DeliveryInv, PullInv
<1>2. t \in Row /\ Pending(cycle[d]) \subseteq Row /\ clock \in Nat /\ cursor[d] \in Cursor
  BY CycleType DEF TypeOK, DeliveryInv, ReplicaInv, TypeInv, ProviderGrows, Pending
<1>3. \A x \in Pending(cycle[d]) : CursorLess(cursor[d], RowCursor(x))
  BY <1>1 DEF RowsFollow
<1>4. CASE \E s \in server : SameRow(s, t)
  <2>1. PICK s \in server : SameRow(s, t)
    BY <1>4
  <2>2. \/ Held(d, s.op)
        \/ \E x \in Pending(cycle[d]) : SameRow(x, s)
        \/ /\ CursorLess(cursor[d], RowCursor(s))
           /\ \A x \in Pending(cycle[d]) : Before(x, s)
    BY <1>1 DEF RowsFollow
  <2>3. CASE Held(d, s.op)
    BY <1>3, <2>1, <2>3 DEF SameRow
  <2>4. CASE ~Held(d, s.op)
    BY <1>3, <2>1, <2>2, <2>4, SameCursor DEF SameRow, Before
  <2> QED BY <2>3, <2>4
<1>5. CASE t.at > clock
  <2>1. \A x \in Pending(cycle[d]) : x.at <= clock
    BY <1>1, PulledDated DEF RowsOf, Pending
  <2>2. \A x \in Pending(cycle[d]) : Before(x, t)
    BY <1>2, <1>5, <2>1, NewBeyond, RowCursorType, RowCursorParts DEF Before
  <2>3. CursorLess(cursor[d], RowCursor(t))
    BY <1>1, <1>2, <1>5, NewBeyond DEF Dated
  <2> QED BY <1>3, <2>2, <2>3
<1> QED BY <1>4, <1>5 DEF ProviderGrows

(* A step that leaves a device's cycle and cursor alone keeps its pull.    *)
LEMMA OthersKeep ==
  ASSUME DeliveryInv, ProviderGrows, TypeOK', NEW d \in Device, cursor'[d] = cursor[d],
         \A o : Held(d, o) => Held(d, o)', cycle'[d] = cycle[d]
  PROVE  PullInv(d)'
<1>0. PullInv(d)
  BY DEF DeliveryInv
<1>1. Served(d)'
  BY <1>0, ServedStays DEF PullInv
<1>2. Passed(d)'
  BY PassedStays
<1>3. PageFollows(d)'
  BY PageStays
<1>4. RowsFollow(d)'
  <2>1. CASE cycle[d].phase \in Applying
    BY <2>1, PendingStays
  <2>2. CASE cycle[d].phase \notin Applying
    BY <2>2 DEF RowsFollow
  <2> QED BY <2>1, <2>2
<1>5. RepairOf(cycle[d])'
  BY <1>0 DEF PullInv
<1>6. BlockedByDamage(d)'
  <2> SUFFICES ASSUME cycle[d].phase = "blocked", NEW b \in cycle[d].blocker PROVE Caused(b.op)'
    BY DEF BlockedByDamage
  <2> QED BY <1>0, CausedStays DEF PullInv, BlockedByDamage
<1>7. Unrepaired(d)'
  BY <1>0 DEF PullInv, Unrepaired, ProviderGrows
<1> QED BY <1>1, <1>2, <1>3, <1>4, <1>5, <1>6, <1>7 DEF PullInv

-----------------------------------------------------------------------------
(* The first of a set of rows. *)
First(f, S) == f \in S /\ \A x \in S : x = f \/ Before(f, x)

(* Rows the provider took before the first pending row are dealt with. *)
LEMMA FirstIsReached ==
  ASSUME DeliveryInv, NEW d \in Device, cycle[d].phase \in Applying,
         NEW f, First(f, Pending(cycle[d])), NEW s \in server, s.at < f.at
  PROVE  Held(d, s.op)
<1>1. f \in Row /\ s \in Row /\ Pending(cycle[d]) \subseteq Row
  BY CycleType DEF TypeOK, DeliveryInv, ReplicaInv, TypeInv, Pending, First
<1>2. f.at \in Nat /\ s.at \in Nat
  BY <1>1 DEF Row
<1>3. ~Before(f, s)
  BY <1>2, RowCursorParts DEF Before, CursorLess
<1>4. ASSUME NEW x \in Pending(cycle[d]), SameRow(x, s) PROVE FALSE
  <2>1. x # f
    BY <1>2, <1>4 DEF SameRow
  <2>2. Before(f, x)
    BY <2>1 DEF First
  <2> QED BY <1>3, <1>4, <2>2, SameCursor DEF Before
<1> QED BY <1>3, <1>4 DEF DeliveryInv, PullInv, RowsFollow, First

(* A row is refused only because it, or something in its past, is damaged: *)
(* what it depends on has been received before it and dealt with.          *)
LEMMA RefusedHasCause ==
  ASSUME DeliveryInv, NEW d \in Device, cycle[d].phase \in Applying,
         NEW f, First(f, Pending(cycle[d])), NEW row \in RowsOf(cycle[d]),
         row.op.dev = f.op.dev, \A e \in Device : row.op.front[e] <= f.op.front[e],
         Refused(d, row)
  PROVE  Caused(row.op)
<1> USE DEF DeliveryInv, ReplicaInv, TypeInv, ProviderInv
<1> DEFINE o == row.op
<1>1. row \in Row /\ f \in Row /\ f \in RowsOf(cycle[d])
  BY CycleType DEF RowsOf, Pending, First
<1>2. o \in AllOps /\ f.op \in AllOps
  BY <1>1 DEF Carried, RowsOf
<1>3. o \in Op /\ f.op \in Op /\ AllOps \subseteq Op /\ stored[d] \subseteq AllOps
  BY <1>2, StoredType
<1>4. o.dev \in Device /\ o.seq \in Nat /\ o.seq > 0
  BY <1>3 DEF Op
<1>5. \A e \in Device : deviceHeads[d][e] \in Nat /\ o.front[e] \in Nat /\ f.op.front[e] \in Nat
  BY <1>3 DEF Op, TypeOK
<1>6. CASE ~row.ok
  <2>1. PICK s \in server : SameRow(s, row) /\ ~s.ok
    BY <1>6 DEF PullInv, Served
  <2> QED BY <2>1 DEF Caused, SameRow
<1>7. CASE row.ok
  <2>1. /\ o \notin stored[d]
        /\ \/ o.seq < deviceHeads[d][o.dev] + 1
           \/ /\ o.seq = deviceHeads[d][o.dev] + 1
              /\ \E e \in Device : o.front[e] > deviceHeads[d][e]
    BY <1>4, <1>5, <1>7 DEF Refused, Admit
  <2>2. ~(o.seq < deviceHeads[d][o.dev] + 1)
    <3> SUFFICES ASSUME o.seq < deviceHeads[d][o.dev] + 1 PROVE FALSE
      OBVIOUS
    <3>1. o.seq \in 1 .. deviceHeads[d][o.dev]
      BY <1>4, <1>5
    <3>2. PICK p \in stored[d] : p.dev = o.dev /\ p.seq = o.seq
      BY <1>4, <3>1 DEF NoGaps
    <3>3. p = o
      BY <1>2, <1>3, <3>2 DEF Unique
    <3> QED BY <2>1, <3>2, <3>3
  <2>3. PICK e \in Device : o.front[e] > deviceHeads[d][e]
    BY <2>1, <2>2
  <2>4. o.seq = deviceHeads[d][o.dev] + 1
    BY <2>1, <2>2
  <2>5. e # o.dev
    <3>1. o.front[o.dev] + 1 = o.seq
      BY <1>2 DEF WellFormed
    <3> QED BY <1>4, <1>5, <2>3, <2>4, <3>1
  <2> DEFINE n == deviceHeads[d][e] + 1
  <2>6. n \in Nat /\ n \in 1 .. f.op.front[e] /\ n <= o.front[e]
    BY <1>5, <2>3
  <2>7. PICK s0 \in server : SameRow(s0, f)
    BY <1>1 DEF PullInv, Served
  <2>8. e \in Device \ {s0.op.dev} /\ n \in 1 .. s0.op.front[e]
    BY <2>5, <2>6, <2>7 DEF SameRow
  <2>9. PICK s \in server : s.op.dev = e /\ s.op.seq = n /\ s.at < s0.at
    BY <2>8 DEF PastEarlier
  <2>10. Held(d, s.op)
    BY <2>7, <2>9, FirstIsReached DEF SameRow
  <2>11. s.op \notin stored[d]
    <3> SUFFICES ASSUME s.op \in stored[d] PROVE FALSE
      OBVIOUS
    <3>1. s.op.seq <= deviceHeads[d][s.op.dev]
      BY DEF HeadsCover
    <3> QED BY <1>5, <2>9, <3>1
  <2>12. PICK q \in quarantine[d] : q.row.op = s.op
    BY <2>10, <2>11 DEF Held
  <2>13. PICK r \in server : ~r.ok /\ (r.op = s.op \/ Past(r.op, s.op))
    BY <2>12 DEF QuarantineHasCause
  <2>14. s.op \in AllOps /\ r.op \in AllOps
    BY DEF Carried
  <2>15. Past(s.op, o)
    BY <2>6, <2>9, <1>5 DEF Past
  <2>16. \A x \in Device : s.op.front[x] <= o.front[x]
    BY <1>2, <2>14, <2>15 DEF FrontsClosed
  <2>17. r.op.dev \in Device /\ r.op.seq \in Nat /\ s.op.front \in [Device -> Nat]
    BY <1>3, <2>14 DEF Op
  <2>18. Past(r.op, o)
    <3>1. CASE r.op = s.op
      BY <2>15, <3>1
    <3>2. CASE Past(r.op, s.op)
      BY <1>5, <2>16, <2>17, <3>2 DEF Past
    <3> QED BY <2>13, <3>1, <3>2
  <2> QED BY <2>13, <2>18 DEF Caused
<1> QED BY <1>6, <1>7

(* The first row of a page from the hosted provider follows what the       *)
(* device has, as long as nothing is damaged.                              *)
LEMMA HostedHasNoGap ==
  ASSUME DeliveryInv, NEW d \in Device, cycle[d].phase \in Applying,
         NEW f, First(f, Pending(cycle[d])), StrictSequence, tampered = 0
  PROVE  Admit(d, f) # "Gap"
<1> USE DEF DeliveryInv, ReplicaInv, TypeInv, ProviderInv
<1> SUFFICES ASSUME Admit(d, f) = "Gap" PROVE FALSE
  OBVIOUS
<1>1. f \in Row /\ f \in RowsOf(cycle[d])
  BY CycleType DEF RowsOf, Pending, First
<1>2. f.op \in Op /\ f.op.dev \in Device /\ f.op.seq \in Nat /\ deviceHeads[d][f.op.dev] \in Nat
  BY <1>1 DEF Row, Op, TypeOK
<1>3. f.op.seq > deviceHeads[d][f.op.dev] + 1
  BY DEF Admit
<1>4. PICK s0 \in server : SameRow(s0, f)
  BY <1>1 DEF PullInv, Served
<1>5. f.op.seq - 1 \in 1 .. (s0.op.seq - 1)
  BY <1>2, <1>3, <1>4 DEF SameRow
<1>6. PICK s \in server : s.op.dev = s0.op.dev /\ s.op.seq = f.op.seq - 1 /\ s.at < s0.at
  BY <1>5 DEF InOrder
<1>7. Held(d, s.op)
  BY <1>4, <1>6, FirstIsReached DEF SameRow
<1>8. quarantine[d] = {}
  BY DEF QuarantineHasCause, Intact
<1>9. s.op \in stored[d]
  BY <1>7, <1>8 DEF Held
<1>10. s.op.seq <= deviceHeads[d][s.op.dev]
  BY <1>9 DEF HeadsCover
<1> QED BY <1>2, <1>3, <1>4, <1>6, <1>10 DEF SameRow

(* Passing the first pending row, once it is dealt with, passes no other.  *)
LEMMA PassesOne ==
  ASSUME DeliveryInv, UNCHANGED server, NEW d \in Device, cycle[d].phase \in Applying,
         NEW f, First(f, Pending(cycle[d])), AdvanceCursor(d, f),
         \A o : Held(d, o) => Held(d, o)', Held(d, f.op)',
         Pending(cycle'[d]) = Pending(cycle[d]) \ {f}
  PROVE  RowsFollow(d)' /\ Passed(d)' /\ cursor'[d] = RowCursor(f)
<1>1. RowsFollow(d) /\ TypeOK
  BY DEF DeliveryInv, PullInv, ReplicaInv, TypeInv
<1>2. cursor'[d] = RowCursor(f)
  <2>1. CursorLess(cursor[d], RowCursor(f))
    BY <1>1 DEF RowsFollow, First
  <2> QED BY <1>1, <2>1 DEF AdvanceCursor, TypeOK
<1>3. \A x \in Pending(cycle'[d]) : Before(f, x)
  BY DEF First
<1>4. ASSUME NEW t \in server'
      PROVE  /\ \/ Held(d, t.op)'
                \/ \E x \in Pending(cycle'[d]) : SameRow(x, t)
                \/ /\ CursorLess(cursor'[d], RowCursor(t))
                   /\ \A x \in Pending(cycle'[d]) : Before(x, t)
             /\ CursorLess(cursor'[d], RowCursor(t)) \/ Held(d, t.op)'
  <2>1. CASE Held(d, t.op)
    BY <2>1
  <2>2. CASE \E x \in Pending(cycle[d]) : SameRow(x, t)
    <3>1. PICK x \in Pending(cycle[d]) : SameRow(x, t)
      BY <2>2
    <3>2. CASE x = f
      BY <3>1, <3>2 DEF SameRow
    <3>3. CASE x # f
      BY <1>2, <1>3, <3>1, <3>3, SameCursor DEF Before
    <3> QED BY <3>2, <3>3
  <2>3. CASE \A x \in Pending(cycle[d]) : Before(x, t)
    BY <1>2, <2>3 DEF First, Before
  <2> QED BY <1>1, <1>4, <2>1, <2>2, <2>3 DEF RowsFollow
<1>5. RowsFollow(d)'
  BY <1>2, <1>3, <1>4 DEF RowsFollow, Before, SameRow, Pending
<1>6. Passed(d)'
  BY <1>4 DEF Passed
<1> QED BY <1>2, <1>5, <1>6

(* A page of n rows leaves out nothing that precedes its last row. *)
LEMMA PageOmitsNothing ==
  ASSUME ReplicaInv, NEW after \in Cursor, NEW n \in Nat, NEW row \in server,
         CursorLess(after, RowCursor(row)), NEW y \in Page(after, n), ~Before(y, row)
  PROVE  SameRow(y, row) \/ row \in Page(after, n)
<1> DEFINE beyond == {x \in server : CursorLess(after, RowCursor(x))}
           Lower(z) == {x \in beyond : CursorLess(RowCursor(x), RowCursor(z))}
<1>1. server \subseteq Row /\ IsFiniteSet(server)
  BY DEF ReplicaInv, TypeInv, TypeOK, Finite
<1>2. y \in beyond /\ Cardinality(Lower(y)) < n /\ y \in server
  BY DEF Page
<1>3. row \in beyond
  OBVIOUS
<1>4. IsFiniteSet(beyond)
  BY <1>1, FS_Subset
<1>5. IsFiniteSet(Lower(y)) /\ IsFiniteSet(Lower(row))
  BY <1>4, FS_Subset
<1>6. CASE RowCursor(row) = RowCursor(y)
  <2>1. row.at = y.at /\ row.op.id = y.op.id
    BY <1>6, RowCursorParts
  <2>2. row.op \in AllOps /\ y.op \in AllOps
    BY <1>2 DEF ReplicaInv, Carried
  <2>3. row.op = y.op
    BY <2>1, <2>2 DEF ReplicaInv, Unique
  <2> QED BY <2>1, <2>3 DEF SameRow
<1>7. CASE CursorLess(RowCursor(row), RowCursor(y))
  <2>1. Lower(row) \subseteq Lower(y)
    <3> SUFFICES ASSUME NEW x \in Lower(row) PROVE x \in Lower(y)
      OBVIOUS
    <3>1. RowCursor(x) \in Cursor /\ RowCursor(row) \in Cursor /\ RowCursor(y) \in Cursor
      BY <1>1, <1>2, RowCursorType
    <3> QED BY <1>7, <3>1, CursorTotal
  <2>2. Cardinality(Lower(row)) <= Cardinality(Lower(y))
    BY <1>5, <2>1, FS_Subset
  <2>3. Cardinality(Lower(row)) \in Nat /\ Cardinality(Lower(y)) \in Nat
    BY <1>5, FS_CardinalityType
  <2>4. Cardinality(Lower(row)) < n
    BY <1>2, <2>2, <2>3
  <2> QED BY <1>3, <2>4 DEF Page
<1> HIDE DEF beyond, Lower
<1>8. \/ CursorLess(RowCursor(row), RowCursor(y)) \/ RowCursor(row) = RowCursor(y)
      \/ CursorLess(RowCursor(y), RowCursor(row))
  BY <1>1, <1>2, RowCursorType, CursorTotal
<1> QED BY <1>6, <1>7, <1>8 DEF Before

-----------------------------------------------------------------------------
(* Batches, dates and what the provider has. *)

(* A cycle pushes what it was given, and asks from where its device is. *)
LEMMA CycleRequests ==
  ASSUME ReplicaInv, [Next]_vars, NEW e \in Device
  PROVE  /\ cycle'[e].batch \subseteq cycle[e].batch \/ BeginCycle(e)
         /\ cycle'[e].after \in {cycle[e].after, cursor[e], NoCursor}
<1> USE DEF ReplicaInv, TypeInv
<1> DEFINE Fine == /\ cycle'[e].batch \subseteq cycle[e].batch \/ BeginCycle(e)
                   /\ cycle'[e].after \in {cycle[e].after, cursor[e], NoCursor}
           From(d, c) == /\ c.batch \subseteq cycle[d].batch
                         /\ c.after \in {cycle[d].after, cursor[d], NoCursor}
<1> SUFFICES Fine
  OBVIOUS
<1>1. ASSUME NEW d \in Device, NEW c, CycleBecomes(d, c), From(d, c) PROVE Fine
  BY <1>1 DEF CycleBecomes, TypeOK
<1>2. ASSUME UNCHANGED cycle PROVE Fine
  BY <1>2
<1>3. \A d \in Device : cycle[d] \in CycleState
  BY CycleType
<1>4. Idle.batch = {} /\ Idle.after = NoCursor
  BY DEF Idle
<1>5. \A d \in Device : From(d, Idle)
  BY <1>4
<1>6. \A d \in Device : \A phase, resp : From(d, InPhase(cycle[d], phase)) /\ From(d, Answered(cycle[d], resp))
  BY <1>3 DEF InPhase, Answered, CycleState
<1>7. \A d \in Device : From(d, PullFrom(cursor[d]))
  BY <1>4, IdleType DEF PullFrom, CycleState
<1>8. ASSUME NEW d \in Device, NEW c \in CycleState, From(d, c)
      PROVE  From(d, NextPage(c, cursor[d])) /\ From(d, NextRepair(c, cursor[d]))
  BY <1>5, <1>8 DEF NextPage, NextRepair, CycleState
<1>9. ASSUME NEW d \in Device, BeginCycle(d) PROVE Fine
  <2>1. PICK batch : CycleBecomes(d, IF batch = {} THEN PullFrom(cursor[d]) ELSE Pushing(batch))
    BY <1>9 DEF BeginCycle
  <2>2. Pushing(batch).after = NoCursor
    BY <1>4, IdleType DEF Pushing, CycleState
  <2>3. e # d => cycle'[e] = cycle[e]
    BY <2>1 DEF CycleBecomes, TypeOK
  <2>4. cycle'[d].after \in {cursor[d], NoCursor}
    <3>1. cycle'[d] = PullFrom(cursor[d]) \/ cycle'[d] = Pushing(batch)
      BY <2>1 DEF CycleBecomes, TypeOK
    <3>2. PullFrom(cursor[d]).after = cursor[d]
      BY <1>4, IdleType DEF PullFrom, CycleState
    <3> QED BY <2>2, <3>1, <3>2
  <2> QED BY <1>9, <2>3, <2>4
<1>10. ASSUME NEW d \in Device, PushServed(d) \/ PushLost(d) \/ PushRefused(d) PROVE Fine
  <2>1. UNCHANGED cycle \/ \E resp : CycleBecomes(d, Answered(cycle[d], resp))
    BY <1>10 DEF PushServed, PushLost, PushRefused
  <2> QED BY <1>1, <1>2, <1>6, <2>1
<1>11. ASSUME NEW d \in Device, FinishPush(d) PROVE Fine
  <2>1. CycleBecomes(d, PullFrom(cursor[d])) \/ CycleBecomes(d, Idle)
    BY <1>11 DEF FinishPush
  <2> QED BY <1>1, <1>5, <1>7, <2>1
<1>12. ASSUME NEW d \in Device, PageServed(d) \/ RangeServed(d) PROVE Fine
  <2>1. PICK rows : \/ CycleBecomes(d, [cycle[d] EXCEPT !.phase = "page", !.rows = rows])
                    \/ CycleBecomes(d, [cycle[d] EXCEPT !.phase = "ranged", !.got = rows])
    BY <1>12 DEF PageServed, RangeServed
  <2>2. /\ From(d, [cycle[d] EXCEPT !.phase = "page", !.rows = rows])
        /\ From(d, [cycle[d] EXCEPT !.phase = "ranged", !.got = rows])
    BY <1>3 DEF CycleState
  <2> QED BY <1>1, <2>1, <2>2
<1>13. ASSUME NEW d \in Device, FinishPage(d) \/ FinishRange(d) PROVE Fine
  <2>1. \/ CycleBecomes(d, Idle) \/ CycleBecomes(d, InPhase(cycle[d], "rows"))
        \/ CycleBecomes(d, InPhase(cycle[d], "repair"))
    BY <1>13 DEF FinishPage, FinishRange
  <2> QED BY <1>1, <1>5, <1>6, <2>1
<1>14. ASSUME NEW d \in Device, NEW row \in cycle[d].rows,
              RowSkip(d, row) \/ RowReplay(d, row) \/ RowApply(d, row) \/ RowQuarantine(d, row)
       PROVE  Fine
  <2>1. CycleBecomes(d, Idle) \/ CycleBecomes(d, Processed(cycle[d], row))
    BY <1>14 DEF RowSkip, RowReplay, RowApply, RowQuarantine
  <2>2. From(d, Processed(cycle[d], row))
    BY <1>3 DEF Processed, CycleState
  <2> QED BY <1>1, <1>5, <2>1, <2>2
<1>15. ASSUME NEW d \in Device, NEW row \in cycle[d].rows, RowGap(d, row) PROVE Fine
  <2> DEFINE c == Blocked(cycle[d], row, deviceHeads[d][row.op.dev])
  <2>1. row \in Row /\ row.op \in Op
    BY CycleType DEF Row
  <2>a. row.op.dev \in Device /\ row.op.seq \in Nat \ {0} /\ deviceHeads[d][row.op.dev] \in Nat
    BY <2>1 DEF Op, TypeOK
  <2>2. deviceHeads[d][row.op.dev] + 1 \in Nat /\ row.op.seq - 1 \in Nat
    BY <2>a
  <2>3. c \in CycleState /\ From(d, c)
    BY <1>3, <2>1, <2>2 DEF CycleState, Blocked
  <2>4. CycleBecomes(d, Idle) \/ CycleBecomes(d, NextRepair(c, cursor[d]))
    BY <1>15 DEF RowGap
  <2> HIDE DEF c
  <2> QED BY <1>1, <1>5, <1>8, <2>3, <2>4
<1>16. ASSUME NEW d \in Device, PageDone(d) PROVE Fine
  <2>1. From(d, cycle[d])
    OBVIOUS
  <2> QED BY <1>1, <1>3, <1>8, <1>16, <2>1 DEF PageDone
<1>17. ASSUME NEW d \in Device, NEW row \in cycle[d].got,
              RepairSkip(d, row) \/ RepairQuarantine(d, row)
       PROVE  Fine
  <2>1. CycleBecomes(d, Idle) \/ CycleBecomes(d, InPhase(cycle[d], "blocked"))
    BY <1>17 DEF RepairSkip, RepairQuarantine
  <2> QED BY <1>1, <1>5, <1>6, <2>1
<1>18. ASSUME NEW d \in Device, NEW row \in cycle[d].got,
              RepairReplay(d, row) \/ RepairApply(d, row)
       PROVE  Fine
  <2>1. From(d, Repaired(cycle[d], row))
    BY <1>3 DEF Repaired, CycleState
  <2> QED BY <1>1, <1>18, <2>1 DEF RepairReplay, RepairApply
<1>19. ASSUME NEW d \in Device, QuarantineBlocker(d) PROVE Fine
  <2> DEFINE c == [cycle[d] EXCEPT !.phase = "rows", !.blocker = {}, !.got = {}, !.processed = @ + 1]
  <2>1. CycleBecomes(d, Idle) \/ CycleBecomes(d, c)
    BY <1>19 DEF QuarantineBlocker
  <2>2. From(d, c)
    BY <1>3 DEF CycleState
  <2> HIDE DEF c
  <2> QED BY <1>1, <1>5, <2>1, <2>2
<1>20. ASSUME NEW d \in Device, RepairDone(d) PROVE Fine
  <2> DEFINE again == [cycle[d] EXCEPT !.next = cycle[d].upto + 1]
             back  == [cycle[d] EXCEPT !.phase = "rows", !.rows = @ \union cycle[d].blocker,
                         !.blocker = {}, !.repaired = TRUE]
  <2>1. CycleBecomes(d, NextRepair(again, cursor[d])) \/ CycleBecomes(d, back)
    BY <1>20 DEF RepairDone
  <2>2. again \in CycleState /\ From(d, again) /\ From(d, back)
    BY <1>3 DEF CycleState
  <2> HIDE DEF again, back
  <2> QED BY <1>1, <1>8, <2>1, <2>2
<1>21. ASSUME NEW d \in Device, PullLost(d) \/ Crash(d) PROVE Fine
  BY <1>1, <1>5, <1>21 DEF PullLost, Crash
<1>22. ASSUME NEW d \in Device, \/ TimeStep(d) \/ SessionChanged(d) \/ LateArrival(d)
                                \/ \E r \in Record : LocalWrite(d, r)
       PROVE  Fine
  BY <1>2, <1>22 DEF TimeStep, RetryTimeComes, SessionChanged, LateArrival, LocalWrite
<1>23. ASSUME NEW row \in server, TamperRow(row) PROVE Fine
  BY <1>2, <1>23 DEF TamperRow
<1>24. CASE UNCHANGED vars
  BY <1>2, <1>24 DEF vars
<1> HIDE DEF Fine, From
<1>25. ASSUME NEW d \in Device, RowStep(d) \/ RepairStep(d) PROVE Fine
  BY <1>14, <1>15, <1>17, <1>18, <1>25 DEF RowStep, RepairStep
<1>26. ASSUME NEW d \in Device, CycleStep(d) PROVE Fine
  BY <1>9, <1>10, <1>11, <1>12, <1>13, <1>16, <1>19, <1>20, <1>25, <1>26 DEF CycleStep
<1>27. CASE Next
  BY <1>10, <1>21, <1>22, <1>23, <1>26, <1>27 DEF Next
<1> QED BY <1>24, <1>27

(* A cursor moves only onto a row that is pending. *)
LEMMA CursorSteps ==
  ASSUME TypeOK, [Next]_vars, NEW d \in Device
  PROVE  cursor'[d] = cursor[d] \/ \E row \in Pending(cycle[d]) : cursor'[d] = RowCursor(row)
<1>1. ASSUME UNCHANGED cursor PROVE cursor'[d] = cursor[d]
  BY <1>1
<1>2. ASSUME NEW e \in Device, NEW row, AdvanceCursor(e, row)
      PROVE  cursor'[d] = cursor[d] \/ (e = d /\ cursor'[d] = RowCursor(row))
  BY <1>2 DEF AdvanceCursor, TypeOK
<1>3. ASSUME NEW e \in Device, NEW row \in cycle[e].rows,
             RowSkip(e, row) \/ RowReplay(e, row) \/ RowApply(e, row) \/ RowQuarantine(e, row)
                \/ RowGap(e, row)
      PROVE  AdvanceCursor(e, row) \/ UNCHANGED cursor
  BY <1>3 DEF RowSkip, RowReplay, RowApply, RowQuarantine, RowGap
<1>4. ASSUME NEW e \in Device, QuarantineBlocker(e)
      PROVE  UNCHANGED cursor \/ \E b \in cycle[e].blocker : AdvanceCursor(e, b)
  BY <1>4 DEF QuarantineBlocker
<1>5. ASSUME NEW e \in Device,
             \/ BeginCycle(e) \/ FinishPush(e) \/ TimeStep(e)
             \/ PushServed(e) \/ PageServed(e) \/ FinishPage(e) \/ PageDone(e) \/ RangeServed(e)
             \/ FinishRange(e) \/ RepairDone(e) \/ RepairStep(e) \/ SessionChanged(e)
             \/ PushLost(e) \/ PushRefused(e) \/ PullLost(e) \/ LateArrival(e) \/ Crash(e)
             \/ \E r \in Record : LocalWrite(e, r)
      PROVE  UNCHANGED cursor
  BY <1>5
  DEF BeginCycle, FinishPush, TimeStep, RetryTimeComes, PushServed, PageServed, FinishPage,
      PageDone, RangeServed, FinishRange, RepairDone, RepairStep, RepairSkip, RepairReplay,
      RepairApply, RepairQuarantine, SessionChanged, PushLost, PushRefused, PullLost,
      LateArrival, Crash, LocalWrite, vault
<1>6. ASSUME NEW row \in server, TamperRow(row) PROVE UNCHANGED cursor
  BY <1>6 DEF TamperRow, vault
<1>7. CASE UNCHANGED vars
  BY <1>1, <1>7 DEF vars, vault
<1> QED BY <1>1, <1>2, <1>3, <1>4, <1>5, <1>6, <1>7 DEF Next, CycleStep, RowStep, Pending

(* Every step keeps what is handed out within the provider's clock. *)
LEMMA DatedStep ==
  ASSUME DeliveryInv, [Next]_vars
  PROVE  Dated'
<1> USE DEF DeliveryInv
<1>0. ProviderGrows /\ TypeOK /\ TypeOK'
  BY ProviderStep, TypeOKStep DEF ReplicaInv, TypeInv
<1>1. clock \in Nat /\ clock' \in Nat /\ clock <= clock'
  BY <1>0 DEF ProviderGrows
<1>2. ASSUME NEW t \in server' PROVE t.at <= clock'
  <2>1. CASE \E s \in server : SameRow(s, t)
    <3>1. PICK s \in server : SameRow(s, t)
      BY <2>1
    <3>2. s.at <= clock /\ s.at = t.at /\ t.at \in Nat
      BY <1>0, <3>1 DEF Dated, SameRow, TypeOK, Row
    <3> QED BY <1>1, <3>2
  <2> QED BY <1>0, <2>1 DEF ProviderGrows
<1>3. ASSUME NEW d \in Device PROVE cursor'[d].at <= clock' /\ cycle'[d].after.at <= clock'
  <2>1. cursor[d].at <= clock /\ cycle[d].after.at <= clock
    BY DEF Dated
  <2>2. cursor[d].at \in Nat /\ cycle[d].after.at \in Nat
    BY <1>0, CycleType DEF TypeOK, CycleState, Cursor
  <2>3. ASSUME NEW row \in Pending(cycle[d]) PROVE RowCursor(row).at <= clock /\ RowCursor(row).at \in Nat
    <3>1. row.at <= clock
      BY PulledDated DEF PullInv, RowsOf, Pending
    <3>2. row.at \in Nat
      BY <1>0, CycleType DEF Pending, Row
    <3> QED BY <3>1, <3>2, RowCursorParts
  <2>4. cursor'[d].at <= clock'
    BY <1>0, <1>1, <2>1, <2>2, <2>3, CursorSteps
  <2>5. NoCursor.at <= clock'
    BY <1>1 DEF NoCursor
  <2>6. cycle'[d].after \in {cycle[d].after, cursor[d], NoCursor}
    BY CycleRequests
  <2>7. cycle'[d].after.at <= clock'
    BY <1>1, <2>1, <2>2, <2>5, <2>6
  <2> QED BY <2>4, <2>7
<1> QED BY <1>2, <1>3 DEF Dated

-----------------------------------------------------------------------------
(* What is pushed. *)

(* An outbox gains only writes of its own device. *)
LEMMA OutboxGains ==
  ASSUME ReplicaInv, [Next]_vars, NEW d \in Device, NEW q \in outbox'[d]
  PROVE  q.op.dev = d \/ \E x \in outbox[d] : x.op = q.op
<1> USE DEF ReplicaInv, TypeInv
<1> DEFINE Old == q.op.dev = d \/ \E x \in outbox[d] : x.op = q.op
<1> SUFFICES Old
  OBVIOUS
<1>1. ASSUME UNCHANGED outbox PROVE Old
  BY <1>1
<1>2. \A x \in outbox[d] : x \in OutboxRow
  BY DEF TypeOK
<1>3. ASSUME NEW e \in Device, e # d, NEW rows, outbox' = [outbox EXCEPT ![e] = rows] PROVE Old
  BY <1>3 DEF TypeOK
<1>4. ASSUME NEW e \in Device, BeginCycle(e) PROVE Old
  <2>1. PICK k \in {0} \union {x.next : x \in outbox[e]} :
          outbox' = [outbox EXCEPT ![e] =
            IF newSession[e] THEN Unblocked(outbox[e], k) ELSE outbox[e]]
    BY <1>4 DEF BeginCycle
  <2>2. CASE e = d
    <3>a. q \in outbox[d] \/ q \in Unblocked(outbox[d], k)
      BY <2>1, <2>2 DEF TypeOK
    <3>1. PICK x \in outbox[d] : q = x \/ q = [x EXCEPT !.code = "none", !.due = TRUE, !.next = k + 1]
      BY <3>a DEF Unblocked
    <3>2. [x EXCEPT !.code = "none", !.due = TRUE, !.next = k + 1].op = x.op
      BY <1>2 DEF OutboxRow
    <3> QED BY <3>1, <3>2
  <2> QED BY <1>3, <2>1, <2>2
<1>5. ASSUME NEW e \in Device, FinishPush(e) PROVE Old
  <2>1. \/ outbox' = [outbox EXCEPT ![e] = Acknowledged(@, cycle[e].batch)]
        \/ outbox' = [outbox EXCEPT ![e] = Deferred(@, cycle[e].batch, cycle[e].resp)]
    BY <1>5 DEF FinishPush
  <2>2. CASE e = d
    <3>a. \/ q \in Acknowledged(outbox[d], cycle[d].batch)
          \/ q \in Deferred(outbox[d], cycle[d].batch, cycle[d].resp)
      BY <2>1, <2>2 DEF TypeOK
    <3>1. PICK x \in outbox[d] :
            q = x \/ q = [x EXCEPT !.code = cycle[d].resp, !.due = FALSE, !.next = 0]
      BY <3>a DEF Acknowledged, Deferred
    <3>2. [x EXCEPT !.code = cycle[d].resp, !.due = FALSE, !.next = 0].op = x.op
      BY <1>2 DEF OutboxRow
    <3> QED BY <3>1, <3>2
  <2>3. CASE e # d
    BY <2>1, <2>3 DEF TypeOK
  <2> QED BY <2>2, <2>3
<1>6. ASSUME NEW e \in Device, NEW row \in outbox[e], RetryTimeComes(e, row) PROVE Old
  <2>1. PICK k \in {0} \union {x.next : x \in outbox[e]} :
          outbox' = [outbox EXCEPT ![e] = (@ \ {row}) \union
                      {[row EXCEPT !.due = TRUE, !.next = k + 1]}]
    BY <1>6 DEF RetryTimeComes
  <2>2. [row EXCEPT !.due = TRUE, !.next = k + 1].op = row.op
    BY CycleType DEF OutboxRow
  <2> QED BY <2>1, <2>2 DEF TypeOK
<1>7. ASSUME NEW e \in Device, NEW r \in Record, LocalWrite(e, r) PROVE Old
  <2>1. PICK o : Writes(e, o)
    BY <1>7, LocalWriteAdds
  <2>2. PICK x : outbox' = [outbox EXCEPT ![e] = @ \union {x}] /\ x.op = o
    BY <2>1 DEF Writes
  <2> QED BY <2>1, <2>2 DEF TypeOK, Writes
<1>8. ASSUME NEW e \in Device,
             \/ PushServed(e) \/ PageServed(e) \/ FinishPage(e) \/ PageDone(e) \/ RangeServed(e)
             \/ FinishRange(e) \/ RepairDone(e) \/ QuarantineBlocker(e) \/ SessionChanged(e)
             \/ PushLost(e) \/ PushRefused(e) \/ PullLost(e) \/ LateArrival(e) \/ Crash(e)
      PROVE  UNCHANGED outbox
  BY <1>8
  DEF PushServed, PageServed, FinishPage, PageDone, RangeServed, FinishRange, RepairDone,
      QuarantineBlocker, SessionChanged, PushLost, PushRefused, PullLost, LateArrival, Crash,
      Elsewhere, vault
<1>9. ASSUME NEW e \in Device, RowStep(e) \/ RepairStep(e) PROVE UNCHANGED outbox
  BY <1>9
  DEF RowStep, RepairStep, RowSkip, RowReplay, RowApply, RowQuarantine, RowGap, RepairSkip,
      RepairReplay, RepairApply, RepairQuarantine, Elsewhere, vault
<1>10. ASSUME NEW row \in server, TamperRow(row) PROVE UNCHANGED outbox
  BY <1>10 DEF TamperRow, vault
<1>11. CASE UNCHANGED vars
  BY <1>1, <1>11 DEF vars, vault
<1> HIDE DEF Old
<1>12. ASSUME NEW e \in Device, CycleStep(e) \/ TimeStep(e) PROVE Old
  BY <1>1, <1>4, <1>5, <1>6, <1>8, <1>9, <1>12 DEF CycleStep, TimeStep
<1> QED BY <1>1, <1>7, <1>8, <1>10, <1>11, <1>12 DEF Next

(* An abandoned request carries what its cycle was pushing. *)
LEMMA WireGains ==
  ASSUME TypeOK, [Next]_vars, NEW d \in Device, NEW batch \in wire'[d]
  PROVE  batch \in wire[d] \/ batch \subseteq cycle[d].batch
<1> DEFINE Old == batch \in wire[d] \/ batch \subseteq cycle[d].batch
<1> SUFFICES Old
  OBVIOUS
<1>1. ASSUME UNCHANGED wire PROVE Old
  BY <1>1
<1>2. ASSUME NEW e \in Device, NEW sent \in Prefixes(cycle[e].batch) \union {{}},
             wire' = [wire EXCEPT ![e] = @ \union ({sent} \ {{}})]
      PROVE  Old
  BY <1>2 DEF Prefixes, TypeOK
<1>3. ASSUME NEW e \in Device, PushLost(e) PROVE Old
  BY <1>2, <1>3 DEF PushLost
<1>4. ASSUME NEW e \in Device, Crash(e) PROVE Old
  BY <1>2, <1>4 DEF Crash
<1>5. ASSUME NEW e \in Device, LateArrival(e) PROVE Old
  BY <1>5 DEF LateArrival, TypeOK
<1>6. ASSUME NEW e \in Device,
             \/ BeginCycle(e) \/ FinishPush(e) \/ PushServed(e) \/ PageServed(e) \/ FinishPage(e)
             \/ PageDone(e) \/ RangeServed(e) \/ FinishRange(e) \/ RepairDone(e)
             \/ QuarantineBlocker(e) \/ SessionChanged(e) \/ PushRefused(e) \/ PullLost(e)
             \/ TimeStep(e) \/ \E r \in Record : LocalWrite(e, r)
      PROVE  UNCHANGED wire
  BY <1>6
  DEF BeginCycle, FinishPush, PushServed, PageServed, FinishPage, PageDone, RangeServed,
      FinishRange, RepairDone, QuarantineBlocker, SessionChanged, PushRefused, PullLost,
      TimeStep, RetryTimeComes, LocalWrite, Elsewhere
<1>7. ASSUME NEW e \in Device, RowStep(e) \/ RepairStep(e) PROVE UNCHANGED wire
  BY <1>7
  DEF RowStep, RepairStep, RowSkip, RowReplay, RowApply, RowQuarantine, RowGap, RepairSkip,
      RepairReplay, RepairApply, RepairQuarantine, Elsewhere
<1>8. ASSUME NEW row \in server, TamperRow(row) PROVE UNCHANGED wire
  BY <1>8 DEF TamperRow
<1>9. CASE UNCHANGED vars
  BY <1>1, <1>9 DEF vars
<1> HIDE DEF Old
<1> QED BY <1>1, <1>3, <1>4, <1>5, <1>6, <1>7, <1>8, <1>9 DEF Next, CycleStep

(* Every step keeps devices pushing their own operations. *)
LEMMA AuthoredStep ==
  ASSUME ReplicaInv, Authored, [Next]_vars
  PROVE  Authored'
<1> USE DEF ReplicaInv, TypeInv
<1> SUFFICES ASSUME NEW d \in Device
             PROVE  /\ \A q \in outbox'[d] : q.op.dev = d
                    /\ \A b \in cycle'[d].batch : b.op.dev = d
                    /\ \A batch \in wire'[d] : \A b \in batch : b.op.dev = d
  BY DEF Authored
<1>1. \A q \in outbox'[d] : q.op.dev = d
  BY OutboxGains DEF Authored
<1>2. \A b \in cycle'[d].batch : b.op.dev = d
  <2>1. CASE cycle'[d].batch \subseteq cycle[d].batch
    BY <2>1 DEF Authored
  <2>2. CASE BeginCycle(d)
    <3>1. PICK rows : /\ outbox' = [outbox EXCEPT ![d] = rows]
                      /\ CycleBecomes(d, IF DueOutbox(rows) = {} THEN PullFrom(cursor[d])
                                                                  ELSE Pushing(DueOutbox(rows)))
      BY <2>2 DEF BeginCycle
    <3>2. outbox'[d] = rows
      BY <3>1 DEF TypeOK
    <3>3. cycle'[d] = PullFrom(cursor[d]) \/ cycle'[d] = Pushing(DueOutbox(rows))
      BY <3>1 DEF CycleBecomes, TypeOK
    <3>4. PullFrom(cursor[d]).batch = {} /\ Pushing(DueOutbox(rows)).batch = DueOutbox(rows)
      BY IdleType DEF PullFrom, Pushing, CycleState
    <3>5. DueOutbox(rows) \subseteq rows
      BY DEF DueOutbox
    <3> QED BY <1>1, <3>2, <3>3, <3>4, <3>5
  <2> QED BY <2>1, <2>2, CycleRequests
<1>3. \A batch \in wire'[d] : \A b \in batch : b.op.dev = d
  BY WireGains DEF Authored
<1> QED BY <1>1, <1>2, <1>3

-----------------------------------------------------------------------------
(* What the provider has. *)

(* What a vault stores of other devices came from the provider. *)
LEMMA ForeignServedStep ==
  ASSUME DeliveryInv, [Next]_vars
  PROVE  ForeignServed'
<1> USE DEF DeliveryInv, ReplicaInv, TypeInv, ProviderInv
<1> SUFFICES ASSUME NEW d \in Device, NEW o \in stored'[d], o.dev # d
             PROVE  \E s \in server' : s.op = o
  BY DEF ForeignServed
<1>1. ASSUME \E s \in server : s.op = o PROVE \E s \in server' : s.op = o
  BY <1>1, ServerKeeps
<1>2. CASE o \in stored[d]
  BY <1>1, <1>2 DEF ForeignServed
<1>3. CASE o \notin stored[d]
  <2>1. ASSUME NEW e \in Device, NEW r \in Record, LocalWrite(e, r) PROVE FALSE
    <3>1. PICK p : Writes(e, p)
      BY <2>1, LocalWriteAdds
    <3>2. e = d /\ p = o
      BY <1>3, <3>1, AddsAllOps DEF Writes
    <3> QED BY <3>1, <3>2 DEF Writes
  <2>2. ASSUME NEW e \in Device, NEW row \in cycle[e].rows \union cycle[e].got,
               Admit(e, row) = "Admitted", Apply(e, row.op)
        PROVE  \E s \in server : s.op = o
    <3>1. Adds(e, row.op)
      BY <2>2, AppliedRow, AdmittedAdds
    <3>2. row.op = o
      BY <1>3, <3>1, AddsAllOps
    <3>3. row \in RowsOf(cycle[e])
      BY DEF RowsOf
    <3> QED BY <3>2, <3>3 DEF PullInv, Served, SameRow
  <2>3. ~Quiet
    BY <1>3 DEF Quiet
  <2> QED BY <1>1, <2>1, <2>2, <2>3, StepKinds DEF RowApply, RepairApply
<1> QED BY <1>2, <1>3

(* A new operation knows all that its author has, and nobody knows it.     *)
LEMMA FrontsClosedStep ==
  ASSUME ReplicaInv, FrontsClosed, [Next]_vars
  PROVE  FrontsClosed'
<1> USE DEF ReplicaInv, TypeInv
<1>0. AllOps \subseteq Op
  BY DEF TypeOK, AllOps
<1>1. ASSUME AllOps' = AllOps PROVE FrontsClosed'
  BY <1>1 DEF FrontsClosed
<1>2. ASSUME NEW e \in Device, NEW row \in cycle[e].rows \union cycle[e].got,
             Admit(e, row) = "Admitted", Apply(e, row.op)
      PROVE  AllOps' = AllOps
  BY <1>2, AppliedRow, AdmittedAdds, AddsAllOps
<1>3. ASSUME NEW d \in Device, NEW r \in Record, LocalWrite(d, r) PROVE FrontsClosed'
  <2>1. PICK o : Writes(d, o)
    BY <1>3, LocalWriteAdds
  <2>2. AllOps' = AllOps \union {o} /\ o \in Op /\ o.dev = d /\ o.seq = deviceHeads[d][d] + 1
    BY <2>1, AddsAllOps DEF Writes, Adds
  <2>3. \A e, f \in Device : deviceHeads[e][f] \in Nat /\ o.front[f] \in Nat
    BY <2>2 DEF TypeOK, Op
  <2>4. ASSUME NEW p \in stored[d], NEW e \in Device PROVE p.front[e] <= o.front[e]
    <3>1. p.front[e] \in Nat /\ p.front[e] <= deviceHeads[d][e]
      BY StoredType DEF HeadsCover, Op
    <3>2. CASE p.front[e] = 0
      BY <2>3, <3>2
    <3>3. CASE p.front[e] # 0
      <4>1. p.front[e] \in 1 .. deviceHeads[d][e]
        BY <2>3, <3>1, <3>3
      <4>2. PICK x \in stored[d] : x.dev = e /\ x.seq = p.front[e]
        BY <4>1 DEF NoGaps
      <4>3. Past(x, o)
        BY <2>1 DEF Writes
      <4> QED BY <2>3, <3>1, <4>2, <4>3 DEF Past
    <3> QED BY <3>2, <3>3
  <2>5. ASSUME NEW p \in AllOps, Past(p, o) PROVE p \in stored[d]
    <3>1. p \in Op /\ p.dev \in Device /\ p.seq \in Nat /\ p.seq > 0
      BY <1>0 DEF Op
    <3>2. o.front[p.dev] <= deviceHeads[d][p.dev]
      BY <2>1, <3>1 DEF Writes, Adds
    <3>3. p.seq \in 1 .. deviceHeads[d][p.dev]
      BY <2>3, <2>5, <3>1, <3>2 DEF Past
    <3>4. PICK x \in stored[d] : x.dev = p.dev /\ x.seq = p.seq
      BY <3>1, <3>3 DEF NoGaps
    <3>5. x = p
      BY <3>4, StoredType DEF Unique
    <3> QED BY <3>4, <3>5
  <2>6. ASSUME NEW p \in AllOps PROVE ~Past(o, p)
    <3> SUFFICES ASSUME Past(o, p) PROVE FALSE
      OBVIOUS
    <3>1. p \in Op /\ p.dev \in Device /\ p.front[d] \in Nat /\ p \in stored[p.dev]
      BY <1>0 DEF Op, WellFormed
    <3>2. p.front[d] <= deviceHeads[p.dev][d]
      BY <3>1 DEF HeadsCover
    <3>3. o.seq \in 1 .. deviceHeads[p.dev][d]
      BY <2>2, <2>3, <3>1, <3>2 DEF Past
    <3>4. PICK x \in stored[p.dev] : x.dev = d /\ x.seq = o.seq
      BY <3>1, <3>3 DEF NoGaps
    <3>5. x \in stored[d]
      BY <3>1, <3>4, StoredType DEF WellFormed
    <3>6. x.seq <= deviceHeads[d][d]
      BY <3>4, <3>5 DEF HeadsCover
    <3> QED BY <2>2, <2>3, <3>4, <3>6
  <2>7. ASSUME NEW a \in AllOps', NEW p \in AllOps', Past(p, a), NEW e \in Device
        PROVE  p.front[e] <= a.front[e]
    <3>1. CASE a \in AllOps /\ p \in AllOps
      BY <2>7, <3>1 DEF FrontsClosed
    <3>2. CASE a = o /\ p \in AllOps
      BY <2>4, <2>5, <2>7, <3>2
    <3>3. CASE a \in AllOps /\ p = o
      BY <2>6, <2>7, <3>3
    <3>4. CASE a = o /\ p = o
      BY <2>3, <3>4
    <3> QED BY <2>2, <3>1, <3>2, <3>3, <3>4
  <2> QED BY <2>7 DEF FrontsClosed, Past
<1>4. Quiet => AllOps' = AllOps
  BY DEF Quiet, AllOps
<1> QED BY <1>1, <1>2, <1>3, <1>4, StepKinds DEF RowApply, RepairApply

(* A device pushes an operation after the provider has what it depends on. *)
LEMMA PastEarlierStep ==
  ASSUME DeliveryInv, [Next]_vars
  PROVE  PastEarlier'
<1> USE DEF DeliveryInv, ReplicaInv, TypeInv, ProviderInv
<1>0. ProviderGrows /\ TypeOK'
  BY ProviderStep, TypeOKStep
<1> SUFFICES ASSUME NEW t \in server', NEW e \in Device \ {t.op.dev}, NEW n \in 1 .. t.op.front[e]
             PROVE  \E s \in server' : s.op.dev = e /\ s.op.seq = n /\ s.at < t.at
  BY DEF PastEarlier
<1>1. ASSUME \E s \in server : s.op.dev = e /\ s.op.seq = n /\ s.at < t.at
      PROVE  \E s \in server' : s.op.dev = e /\ s.op.seq = n /\ s.at < t.at
  <2>1. PICK s \in server : s.op.dev = e /\ s.op.seq = n /\ s.at < t.at
    BY <1>1
  <2>2. PICK x \in server' : SameRow(x, s)
    BY <1>0 DEF ProviderGrows
  <2> QED BY <2>1, <2>2 DEF SameRow
<1>2. CASE \E s \in server : SameRow(s, t)
  <2>1. PICK s \in server : SameRow(s, t)
    BY <1>2
  <2>2. e \in Device \ {s.op.dev} /\ n \in 1 .. s.op.front[e]
    BY <2>1 DEF SameRow
  <2>3. \E x \in server : x.op.dev = e /\ x.op.seq = n /\ x.at < s.at
    BY <2>2 DEF PastEarlier
  <2> QED BY <1>1, <2>1, <2>3 DEF SameRow
<1>3. CASE t.at > clock /\ t.op \in AllOps
  <2> DEFINE o == t.op
  <2>1. o \in Op /\ o.dev \in Device /\ o \in stored[o.dev]
    BY <1>3, StoredType DEF Op, WellFormed
  <2>2. o.front[e] <= deviceHeads[o.dev][e] /\ o.front[e] \in Nat /\ deviceHeads[o.dev][e] \in Nat
    BY <2>1 DEF HeadsCover, Op, TypeOK
  <2>3. n \in 1 .. deviceHeads[o.dev][e]
    BY <2>2
  <2>4. PICK p \in stored[o.dev] : p.dev = e /\ p.seq = n
    BY <2>1, <2>3 DEF NoGaps
  <2>5. PICK s \in server : s.op = p
    BY <2>1, <2>4 DEF ForeignServed
  <2>6. s.at <= clock /\ s.at \in Nat /\ clock \in Nat /\ t.at \in Nat
    BY <1>0 DEF Dated, TypeOK, Row
  <2>7. s.at < t.at
    BY <1>3, <2>6
  <2> QED BY <1>1, <2>4, <2>5, <2>7
<1> QED BY <1>0, <1>2, <1>3 DEF ProviderGrows

(* The hosted provider takes a batch only as the continuation of what it   *)
(* has of its device.                                                      *)
LEMMA AppendInOrder ==
  ASSUME ReplicaInv, Dated, InOrder, StrictSequence, NEW d \in Device,
         NEW batch \in SUBSET OutboxRow, \A b \in batch : b.op.dev = d,
         NEW outcome, ServerAppend(batch, outcome)
  PROVE  InOrder'
<1> USE DEF ReplicaInv, TypeInv
<1> DEFINE new == Unseen(batch)
<1>0. new \subseteq batch /\ \A b \in new : b.op.seq \in Nat /\ b.op.dev = d
  BY DEF Unseen, OutboxRow, Op
<1>1. CASE UNCHANGED server
  BY <1>1 DEF InOrder
<1>2. ASSUME NEW h \in {0} \union {row.op.seq : row \in server}, NEW n \in 0 .. MaxBatch,
             InSequence(new, h, n),
             server' = server \union
                {[op |-> b.op, at |-> clock + (b.op.seq - h), ok |-> TRUE] : b \in new}
      PROVE  InOrder'
  <2> SUFFICES ASSUME NEW t \in server', NEW m \in 1 .. (t.op.seq - 1)
               PROVE  \E s \in server' : s.op.dev = t.op.dev /\ s.op.seq = m /\ s.at < t.at
    BY DEF InOrder
  <2>0. h \in Nat /\ n \in Nat /\ clock \in Nat /\ server \subseteq Row
    BY ConstantsAssumption DEF TypeOK, Row, Op
  <2>1. CASE t \in server
    BY <1>2, <2>1 DEF InOrder
  <2>2. CASE t \notin server
    <3>1. PICK b \in new : t = [op |-> b.op, at |-> clock + (b.op.seq - h), ok |-> TRUE]
      BY <1>2, <2>2
    <3>2. t.op = b.op /\ t.at = clock + (b.op.seq - h) /\ t.op.dev = d /\ t.op.seq \in Nat
      BY <1>0, <3>1
    <3>3. t.op.seq \in (h + 1) .. (h + n)
      BY <1>2, <3>2 DEF InSequence
    <3>4. t.at \in Nat /\ t.at > clock
      BY <2>0, <3>2, <3>3
    <3>5. CASE m > h
      <4>1. m \in (h + 1) .. (h + n)
        BY <2>0, <3>2, <3>3, <3>5
      <4>2. PICK a \in new : a.op.seq = m
        BY <1>2, <4>1 DEF InSequence
      <4> DEFINE s == [op |-> a.op, at |-> clock + (a.op.seq - h), ok |-> TRUE]
      <4>3. s \in server' /\ s.op = a.op /\ s.at = clock + (m - h)
        BY <1>2, <4>2
      <4> HIDE DEF s
      <4>4. s.at < t.at
        BY <2>0, <3>2, <3>3, <3>5, <4>3
      <4>5. s.op.dev = d
        BY <1>0, <4>3
      <4> QED BY <3>2, <4>2, <4>3, <4>4, <4>5
    <3>6. CASE m <= h
      <4>1. PICK x \in server : x.op.dev = d /\ x.op.seq = h
        <5>1. h # 0
          BY <3>2, <3>6
        <5> QED BY <1>0, <1>2, <3>1, <5>1 DEF InSequence, NewestSequence
      <4>2. x.at <= clock /\ x.at \in Nat
        BY <2>0 DEF Dated, Row
      <4>3. CASE m = h
        BY <1>2, <2>0, <3>2, <3>4, <4>1, <4>2, <4>3
      <4>4. CASE m # h
        <5>1. m \in 1 .. (x.op.seq - 1)
          BY <2>0, <3>2, <3>6, <4>1, <4>4
        <5>2. PICK s \in server : s.op.dev = x.op.dev /\ s.op.seq = m /\ s.at < x.at
          BY <5>1 DEF InOrder
        <5>3. s.at \in Nat
          BY <2>0 DEF Row
        <5>4. s.at < t.at
          BY <2>0, <3>4, <4>2, <5>2, <5>3
        <5> QED BY <1>2, <3>2, <4>1, <5>2, <5>4
      <4> QED BY <4>3, <4>4
    <3> QED BY <2>0, <3>2, <3>5, <3>6
  <2> QED BY <2>1, <2>2
<1> QED BY <1>1, <1>2 DEF ServerAppend

(* Every step keeps the hosted provider's rows in sequence. *)
LEMMA InOrderStep ==
  ASSUME DeliveryInv, [Next]_vars
  PROVE  InOrder'
<1> USE DEF DeliveryInv, ReplicaInv, TypeInv, ProviderInv
<1> SUFFICES ASSUME StrictSequence PROVE InOrder'
  BY DEF InOrder
<1>1. ASSUME UNCHANGED server PROVE InOrder'
  BY <1>1 DEF InOrder
<1>2. ASSUME NEW d \in Device, PushServed(d) PROVE InOrder'
  <2>1. PICK outcome : ServerAppend(cycle[d].batch, outcome)
    BY <1>2 DEF PushServed
  <2> QED BY <2>1, AppendInOrder, CycleType DEF Authored
<1>3. ASSUME NEW d \in Device, LateArrival(d) PROVE InOrder'
  <2>1. PICK batch \in wire[d], outcome \in {"ok", "integrity_quarantined"} :
          ServerAppend(batch, outcome)
    BY <1>3 DEF LateArrival
  <2>2. batch \in SUBSET OutboxRow /\ \A b \in batch : b.op.dev = d
    BY DEF TypeOK, Authored
  <2> QED BY <2>1, <2>2, AppendInOrder
<1>4. ASSUME NEW hit \in server, TamperRow(hit) PROVE InOrder'
  <2> DEFINE bad == [hit EXCEPT !.ok = FALSE]
  <2>1. bad.op = hit.op /\ bad.at = hit.at
    BY DEF TypeOK, Row
  <2>2. server' = (server \ {hit}) \union {bad}
    BY <1>4 DEF TamperRow
  <2> HIDE DEF bad
  <2>3. \A s \in server : \E x \in server' : SameRow(x, s)
    BY <2>1, <2>2 DEF SameRow
  <2>4. \A t \in server' : \E s \in server : SameRow(s, t)
    BY <2>1, <2>2 DEF SameRow
  <2> SUFFICES ASSUME NEW t \in server', NEW m \in 1 .. (t.op.seq - 1)
               PROVE  \E s \in server' : s.op.dev = t.op.dev /\ s.op.seq = m /\ s.at < t.at
    BY DEF InOrder
  <2>5. PICK x \in server : SameRow(x, t)
    BY <2>4
  <2>6. PICK s \in server : s.op.dev = x.op.dev /\ s.op.seq = m /\ s.at < x.at
    BY <2>5 DEF InOrder, SameRow
  <2>7. PICK y \in server' : SameRow(y, s)
    BY <2>3
  <2> QED BY <2>5, <2>6, <2>7 DEF SameRow
<1>5. ASSUME NEW d \in Device,
             \/ BeginCycle(d) \/ FinishPush(d) \/ PageServed(d) \/ FinishPage(d) \/ PageDone(d)
             \/ RangeServed(d) \/ FinishRange(d) \/ RepairDone(d) \/ QuarantineBlocker(d)
             \/ TimeStep(d) \/ SessionChanged(d) \/ PushLost(d) \/ PushRefused(d)
             \/ PullLost(d) \/ Crash(d) \/ \E r \in Record : LocalWrite(d, r)
      PROVE  UNCHANGED server
  BY <1>5
  DEF BeginCycle, FinishPush, PageServed, FinishPage, PageDone, RangeServed, FinishRange,
      RepairDone, QuarantineBlocker, TimeStep, RetryTimeComes, SessionChanged, PushLost,
      PushRefused, PullLost, Crash, LocalWrite, Elsewhere
<1>6. ASSUME NEW d \in Device, RowStep(d) \/ RepairStep(d) PROVE UNCHANGED server
  BY <1>6
  DEF RowStep, RepairStep, RowSkip, RowReplay, RowApply, RowQuarantine, RowGap, RepairSkip,
      RepairReplay, RepairApply, RepairQuarantine, Elsewhere
<1>7. CASE UNCHANGED vars
  BY <1>1, <1>7 DEF vars
<1> QED BY <1>1, <1>2, <1>3, <1>4, <1>5, <1>6, <1>7 DEF Next, CycleStep

(* Every step keeps what the provider has as described. *)
LEMMA ProviderInvStep ==
  ASSUME DeliveryInv, [Next]_vars
  PROVE  ProviderInv'
<1>1. FrontsClosed' /\ ForeignServed' /\ PastEarlier' /\ Authored' /\ InOrder'
  BY FrontsClosedStep, ForeignServedStep, PastEarlierStep, AuthoredStep, InOrderStep
  DEF DeliveryInv, ProviderInv
<1>2. Intact'
  BY ProviderStep DEF DeliveryInv, ProviderInv, Intact, ProviderGrows
<1> QED BY <1>1, <1>2 DEF ProviderInv

-----------------------------------------------------------------------------
(* The steps of one device's pull. *)

(* What every step gives the device that takes it. *)
LEMMA PullStepFacts ==
  ASSUME DeliveryInv, [Next]_vars, NEW d \in Device
  PROVE  /\ ProviderGrows /\ TypeOK /\ TypeOK' /\ PullInv(d)
         /\ \A o : Held(d, o) => Held(d, o)'
         /\ cycle[d] \in CycleState /\ cursor[d] \in Cursor
BY ProviderStep, TypeOKStep, HeldStays, CycleType DEF DeliveryInv, ReplicaInv, TypeInv

(* The next state of the cycle that moves. *)
LEMMA CycleNow ==
  ASSUME TypeOK, NEW d \in Device, NEW c, CycleBecomes(d, c)
  PROVE  cycle'[d] = c
BY DEF CycleBecomes, TypeOK

(* A cycle that ends, or waits for an answer. *)
LEMMA CalmMove ==
  ASSUME DeliveryInv, [Next]_vars, NEW d \in Device, NEW c, CycleBecomes(d, c),
         UNCHANGED cursor, Calm(c), RowsOf(c) \subseteq RowsOf(cycle[d])
  PROVE  PullInv(d)'
<1>1. cycle'[d] = c
  BY PullStepFacts, CycleNow
<1> QED BY <1>1, PullStepFacts, CalmKeeps

(* The cycle ends. *)
LEMMA IdleMove ==
  ASSUME DeliveryInv, [Next]_vars, NEW d \in Device, CycleBecomes(d, Idle), UNCHANGED cursor
  PROVE  PullInv(d)'
<1>1. Calm(Idle) /\ RowsOf(Idle) = {}
  BY IdleType DEF Calm, RowsOf
<1> QED BY <1>1, CalmMove

(* Pushing, and asking for the next page. *)
LEMMA PushMoves ==
  ASSUME DeliveryInv, [Next]_vars, NEW d \in Device,
         \/ BeginCycle(d) \/ PushServed(d) \/ PushLost(d) \/ PushRefused(d) \/ FinishPush(d)
         \/ PageDone(d)
  PROVE  PullInv(d)'
<1>0. cycle[d] \in CycleState /\ RepairOf(cycle[d])
  BY PullStepFacts DEF PullInv
<1>1. \A batch : /\ Calm(PullFrom(cursor[d])) /\ RowsOf(PullFrom(cursor[d])) = {}
                 /\ Calm(Pushing(batch)) /\ RowsOf(Pushing(batch)) = {}
  BY IdleType DEF PullFrom, Pushing, Calm, RowsOf, CycleState
<1>2. CASE BeginCycle(d)
  <2>1. PICK batch : CycleBecomes(d, IF batch = {} THEN PullFrom(cursor[d]) ELSE Pushing(batch))
    BY <1>2 DEF BeginCycle
  <2>2. UNCHANGED cursor
    BY <1>2 DEF BeginCycle
  <2>3. CycleBecomes(d, PullFrom(cursor[d])) \/ CycleBecomes(d, Pushing(batch))
    BY <2>1
  <2> QED BY <1>1, <2>2, <2>3, CalmMove
<1>3. CASE PushServed(d) \/ PushLost(d) \/ PushRefused(d)
  <2>1. UNCHANGED cycle \/ \E resp : CycleBecomes(d, Answered(cycle[d], resp))
    BY <1>3 DEF PushServed, PushLost, PushRefused
  <2>2. UNCHANGED cursor /\ cycle[d].phase = "push"
    BY <1>3 DEF PushServed, PushLost, PushRefused, vault
  <2>3. \A resp : /\ Answered(cycle[d], resp).phase = "pushed"
                  /\ Answered(cycle[d], resp).blocker = cycle[d].blocker
                  /\ RowsOf(Answered(cycle[d], resp)) = RowsOf(cycle[d])
    BY <1>0 DEF Answered, RowsOf, CycleState
  <2>4. cycle[d].blocker = {}
    BY <1>0, <2>2 DEF RepairOf, Repairing
  <2>5. \A resp : Calm(Answered(cycle[d], resp))
    BY <2>3, <2>4 DEF Calm
  <2>6. CASE UNCHANGED cycle
    BY <2>2, <2>6, PullStepFacts, OthersKeep
  <2> QED BY <2>1, <2>2, <2>3, <2>5, <2>6, CalmMove
<1>4. CASE FinishPush(d)
  <2>1. CycleBecomes(d, PullFrom(cursor[d])) \/ CycleBecomes(d, Idle)
    BY <1>4 DEF FinishPush
  <2>2. UNCHANGED cursor
    BY <1>4 DEF FinishPush
  <2> QED BY <1>1, <2>1, <2>2, CalmMove, IdleMove
<1>5. CASE PageDone(d)
  <2>1. CycleBecomes(d, NextPage(cycle[d], cursor[d])) /\ UNCHANGED cursor /\ cycle[d].phase = "rows"
    BY <1>5 DEF PageDone, vault
  <2>2. cycle[d].blocker = {}
    BY <1>0, <2>1 DEF RepairOf, Repairing
  <2>3. \/ NextPage(cycle[d], cursor[d]) = Idle
        \/ /\ NextPage(cycle[d], cursor[d]).phase = "pull"
           /\ NextPage(cycle[d], cursor[d]).blocker = cycle[d].blocker
           /\ RowsOf(NextPage(cycle[d], cursor[d])) = RowsOf(cycle[d])
    BY <1>0 DEF NextPage, RowsOf, CycleState
  <2>4. CASE NextPage(cycle[d], cursor[d]) = Idle
    BY <2>1, <2>4, IdleMove
  <2>5. CASE NextPage(cycle[d], cursor[d]) # Idle
    <3>1. Calm(NextPage(cycle[d], cursor[d]))
      BY <2>2, <2>3, <2>5 DEF Calm
    <3> QED BY <2>1, <2>3, <2>5, <3>1, CalmMove
  <2> QED BY <2>4, <2>5
<1> QED BY <1>2, <1>3, <1>4, <1>5

(* A page arrives. *)
LEMMA PageMove ==
  ASSUME DeliveryInv, [Next]_vars, NEW d \in Device, PageServed(d)
  PROVE  PullInv(d)'
<1> DEFINE n == Smaller(MaxOperations - cycle[d].processed, MaxBatch)
           after == cycle[d].after
           page == Page(after, n)
           c == [cycle[d] EXCEPT !.phase = "page", !.rows = page]
<1>0. cycle[d] \in CycleState /\ PullInv(d) /\ after \in Cursor
  BY PullStepFacts DEF CycleState
<1>1. n \in Nat
  BY <1>0, ConstantsAssumption DEF Smaller, CycleState
<1>2. page \subseteq server /\ \A x \in page : CursorLess(after, RowCursor(x))
  BY DEF Page
<1>3. ASSUME NEW row \in server, CursorLess(after, RowCursor(row)), NEW y \in page, ~Before(y, row)
      PROVE  \E x \in page : SameRow(x, row)
  <2>1. SameRow(y, row) \/ row \in page
    BY <1>0, <1>1, <1>3, PageOmitsNothing DEF DeliveryInv
  <2> QED BY <2>1 DEF SameRow
<1>a. cycle[d].phase = "pull" /\ CycleBecomes(d, c) /\ UNCHANGED <<server, cursor>>
  BY DEF PageServed, vault
<1> HIDE DEF page, n
<1>4. /\ c.phase = "page" /\ c.rows = page /\ c.after = after /\ c.blocker = cycle[d].blocker
      /\ c.got = cycle[d].got
  BY <1>0 DEF CycleState
<1>5. cycle'[d] = c
  BY <1>a, PullStepFacts, CycleNow
<1> HIDE DEF c
<1>6. cycle[d].blocker = {}
  BY <1>0, <1>a DEF PullInv, RepairOf, Repairing
<1>7. Served(d)'
  <2> SUFFICES ASSUME NEW x \in RowsOf(c)
               PROVE  \E s \in server : SameRow(s, x) /\ (~x.ok => ~s.ok)
    BY <1>a, <1>5 DEF Served
  <2>1. CASE x \in page
    BY <1>2, <2>1 DEF SameRow
  <2>2. CASE x \notin page
    BY <1>0, <1>4, <2>2 DEF RowsOf, PullInv, Served
  <2> QED BY <2>1, <2>2
<1>8. Passed(d)'
  BY <1>a, PullStepFacts, PassedStays
<1>9. PageFollows(d)'
  <2>1. \A x \in page : CursorLess(after, RowCursor(x))
    BY <1>2
  <2>2. ASSUME NEW row \in server
        PROVE  \/ ~CursorLess(after, RowCursor(row))
               \/ \E x \in page : SameRow(x, row)
               \/ \A x \in page : Before(x, row)
    BY <1>3
  <2>3. cycle'[d].rows = page /\ cycle'[d].after = after /\ server' = server
    BY <1>a, <1>4, <1>5
  <2> QED BY <2>1, <2>2, <2>3 DEF PageFollows
<1>10. RowsFollow(d)' /\ RepairOf(cycle[d])' /\ BlockedByDamage(d)' /\ Unrepaired(d)'
  BY <1>4, <1>5, <1>6 DEF RowsFollow, RepairOf, BlockedByDamage, Unrepaired, Repairing, Applying
<1> QED BY <1>7, <1>8, <1>9, <1>10 DEF PullInv

(* A page that answers the device's cursor is applied. *)
LEMMA PageAccepted ==
  ASSUME DeliveryInv, [Next]_vars, NEW d \in Device, FinishPage(d)
  PROVE  PullInv(d)'
<1> DEFINE c == InPhase(cycle[d], "rows")
<1>0. cycle[d] \in CycleState /\ PullInv(d) /\ cursor[d] \in Cursor /\ TypeOK
  BY PullStepFacts
<1>1. cycle[d].phase = "page" /\ UNCHANGED <<server, cursor>>
  BY DEF FinishPage, vault
<1>2. CASE cursor[d] # cycle[d].after \/ cycle[d].rows = {}
  BY <1>1, <1>2, IdleMove DEF FinishPage
<1>3. CASE cursor[d] = cycle[d].after /\ cycle[d].rows # {}
  <2>1. CycleBecomes(d, c)
    BY <1>3 DEF FinishPage
  <2>2. /\ c.phase = "rows" /\ c.rows = cycle[d].rows /\ c.blocker = cycle[d].blocker
        /\ RowsOf(c) = RowsOf(cycle[d])
    BY <1>0 DEF InPhase, CycleState, RowsOf
  <2>3. cycle'[d] = c
    BY <1>0, <2>1, CycleNow
  <2> HIDE DEF c
  <2>4. cycle[d].blocker = {}
    BY <1>0, <1>1 DEF PullInv, RepairOf, Repairing
  <2>5. Pending(c) = cycle[d].rows
    BY <2>2, <2>4 DEF Pending
  <2>6. Served(d)'
    BY <1>0, <2>2, <2>3, PullStepFacts, ServedStays DEF PullInv
  <2>7. Passed(d)'
    BY <1>1, PullStepFacts, PassedStays
  <2>8. \A x \in cycle[d].rows : CursorLess(cursor[d], RowCursor(x))
    BY <1>0, <1>1, <1>3 DEF PullInv, PageFollows
  <2>9. ASSUME NEW row \in server
        PROVE  \/ Held(d, row.op)'
               \/ \E x \in cycle[d].rows : SameRow(x, row)
               \/ /\ CursorLess(cursor[d], RowCursor(row))
                  /\ \A x \in cycle[d].rows : Before(x, row)
    <3>1. CASE ~CursorLess(cursor[d], RowCursor(row))
      BY <1>0, <3>1, PullStepFacts DEF PullInv, Passed
    <3>2. CASE \A x \in cycle[d].rows : Before(x, row)
      <4>1. PICK x \in cycle[d].rows : TRUE
        BY <1>3
      <4>2. x \in Row /\ row \in Row
        BY <1>0, CycleType DEF TypeOK
      <4>3. CursorLess(cursor[d], RowCursor(x)) /\ CursorLess(RowCursor(x), RowCursor(row))
        BY <2>8, <3>2 DEF Before
      <4>4. CursorLess(cursor[d], RowCursor(row))
        BY <1>0, <4>2, <4>3, RowCursorType, CursorTotal
      <4> QED BY <3>2, <4>4
    <3> QED BY <1>0, <1>1, <1>3, <3>1, <3>2 DEF PullInv, PageFollows
  <2>10. RowsFollow(d)'
    <3>1. Pending(cycle'[d]) = cycle[d].rows /\ cursor' = cursor /\ server' = server
      BY <1>1, <2>3, <2>5
    <3> QED BY <2>8, <2>9, <3>1 DEF RowsFollow, Pending
  <2>11. PageFollows(d)' /\ RepairOf(cycle[d])' /\ BlockedByDamage(d)' /\ Unrepaired(d)'
    BY <2>2, <2>3, <2>4 DEF PageFollows, RepairOf, BlockedByDamage, Unrepaired, Repairing
  <2> QED BY <2>6, <2>7, <2>10, <2>11 DEF PullInv
<1> QED BY <1>2, <1>3

(* The next row of a page is the first that is pending. *)
LEMMA NextRowFirst ==
  ASSUME DeliveryInv, NEW d \in Device, NEW row, NextRow(d, row)
  PROVE  /\ cycle[d].phase = "rows" /\ cycle[d].phase \in Applying /\ cycle[d].blocker = {}
         /\ Pending(cycle[d]) = cycle[d].rows /\ First(row, Pending(cycle[d]))
<1>1. cycle[d].phase = "rows" /\ cycle[d].phase \in Applying
  BY DEF NextRow, Applying
<1>2. cycle[d].blocker = {}
  BY <1>1 DEF DeliveryInv, PullInv, RepairOf, Repairing
<1> QED BY <1>1, <1>2 DEF NextRow, Pending, First, Before

(* A row of a page is passed once it is stored or put aside. *)
LEMMA RowPassed ==
  ASSUME DeliveryInv, [Next]_vars, NEW d \in Device, NEW row, NextRow(d, row),
         UNCHANGED server, AdvanceCursor(d, row), CycleBecomes(d, Processed(cycle[d], row)),
         Held(d, row.op)'
  PROVE  PullInv(d)'
<1> DEFINE c == Processed(cycle[d], row)
<1>0. cycle[d] \in CycleState /\ PullInv(d) /\ TypeOK
  BY PullStepFacts
<1>1. /\ c.phase = "rows" /\ c.rows = cycle[d].rows \ {row} /\ c.blocker = {}
      /\ c.got = cycle[d].got
  BY <1>0, NextRowFirst DEF Processed, CycleState
<1>2. cycle'[d] = c
  BY <1>0, CycleNow
<1> HIDE DEF c
<1>3. Pending(cycle'[d]) = Pending(cycle[d]) \ {row} /\ RowsOf(cycle'[d]) \subseteq RowsOf(cycle[d])
  BY <1>1, <1>2, NextRowFirst DEF Pending, RowsOf
<1>4. RowsFollow(d)' /\ Passed(d)'
  BY <1>3, NextRowFirst, PullStepFacts, PassesOne
<1>5. Served(d)'
  BY <1>0, <1>3, PullStepFacts, ServedStays DEF PullInv
<1>6. PageFollows(d)' /\ RepairOf(cycle[d])' /\ BlockedByDamage(d)' /\ Unrepaired(d)'
  BY <1>1, <1>2 DEF PageFollows, RepairOf, BlockedByDamage, Unrepaired, Repairing
<1> QED BY <1>4, <1>5, <1>6 DEF PullInv

(* The steps that deal with the next row of a page. *)
LEMMA RowMoves ==
  ASSUME DeliveryInv, [Next]_vars, NEW d \in Device, NEW row \in cycle[d].rows,
         RowSkip(d, row) \/ RowReplay(d, row) \/ RowApply(d, row) \/ RowQuarantine(d, row)
  PROVE  PullInv(d)'
<1>0. UNCHANGED server /\ NextRow(d, row) /\ TypeOK
  BY PullStepFacts DEF RowSkip, RowReplay, RowApply, RowQuarantine, Elsewhere
<1>1. CASE RowSkip(d, row)
  <2>1. PICK q \in Known(d, row) :
          IF q.row = row
          THEN AdvanceCursor(d, row) /\ CycleBecomes(d, Processed(cycle[d], row))
          ELSE CycleBecomes(d, Idle) /\ UNCHANGED cursor
    BY <1>1 DEF RowSkip
  <2>2. CASE q.row = row
    <3>1. Held(d, row.op)
      BY <2>2 DEF Known, Held
    <3> QED BY <1>0, <2>1, <2>2, <3>1, PullStepFacts, RowPassed
  <2>3. CASE q.row # row
    BY <2>1, <2>3, IdleMove
  <2> QED BY <2>2, <2>3
<1>2. CASE RowReplay(d, row)
  <2>1. Held(d, row.op)
    BY <1>2 DEF RowReplay, Admit, Held
  <2> QED BY <1>0, <1>2, <2>1, PullStepFacts, RowPassed DEF RowReplay
<1>3. CASE RowApply(d, row)
  <2>1. Held(d, row.op)'
    BY <1>0, <1>3 DEF RowApply, Apply, Held, TypeOK
  <2> QED BY <1>0, <1>3, <2>1, RowPassed DEF RowApply
<1>4. CASE RowQuarantine(d, row)
  <2> DEFINE q == [row |-> row, code |-> "integrity_quarantined"]
  <2>1. q \in quarantine'[d] /\ q.row = row
    BY <1>0, <1>4 DEF RowQuarantine, Quarantined, TypeOK
  <2>2. Held(d, row.op)'
    BY <2>1 DEF Held
  <2> QED BY <1>0, <1>4, <2>2, RowPassed DEF RowQuarantine
<1> QED BY <1>1, <1>2, <1>3, <1>4

(* A pull that goes on with the same pending rows, and no repair where     *)
(* there was none.                                                         *)
LEMMA SamePendingMove ==
  ASSUME DeliveryInv, [Next]_vars, NEW d \in Device, NEW c, CycleBecomes(d, c),
         UNCHANGED cursor, cycle[d].phase \in Applying, c.phase \in Applying,
         Pending(c) = Pending(cycle[d]),
         \A x \in RowsOf(c) : x \in RowsOf(cycle[d]) \/ x \in server,
         UNCHANGED server,
         RepairOf(c), c.phase = "blocked" => \A b \in c.blocker : Caused(b.op),
         StrictSequence /\ tampered = 0 => c.phase \notin Repairing
  PROVE  PullInv(d)'
<1>0. cycle'[d] = c /\ PullInv(d)
  BY PullStepFacts, CycleNow
<1>1. Served(d)'
  <2> SUFFICES ASSUME NEW x \in RowsOf(c)
               PROVE  \E s \in server : SameRow(s, x) /\ (~x.ok => ~s.ok)
    BY <1>0 DEF Served
  <2>1. CASE x \in server
    BY <2>1 DEF SameRow
  <2>2. CASE x \in RowsOf(cycle[d])
    BY <1>0, <2>2 DEF PullInv, Served
  <2> QED BY <2>1, <2>2
<1>2. Passed(d)'
  BY PullStepFacts, PassedStays
<1>3. RowsFollow(d)'
  BY <1>0, PullStepFacts, PendingStays
<1>4. PageFollows(d)'
  BY <1>0 DEF PageFollows, Applying, Repairing
<1>5. BlockedByDamage(d)'
  BY <1>0, PullStepFacts, CausedStays DEF BlockedByDamage
<1>6. Unrepaired(d)'
  BY <1>0, PullStepFacts DEF Unrepaired, ProviderGrows
<1>7. RepairOf(cycle[d])'
  BY <1>0
<1> QED BY <1>1, <1>2, <1>3, <1>4, <1>5, <1>6, <1>7 DEF PullInv

(* The request of a chunk ends no later than the gap. *)
LEMMA NextRepairParts ==
  ASSUME NEW c \in CycleState, NEW at, NEW r, r = NextRepair(c, at), r # Idle
  PROVE  /\ r.phase = "range" /\ r.rows = c.rows /\ r.blocker = c.blocker /\ r.got = c.got
         /\ r.last = c.last /\ r.upto <= r.last
<1> DEFINE to == Smaller(c.next + Smaller(MaxOperations - c.processed, MaxBatch) - 1, c.last)
           n == [c EXCEPT !.phase = "range", !.after = at, !.repaired = FALSE, !.upto = to]
<1>1. r = n
  BY DEF NextRepair
<1>2. c.last \in Nat /\ c.next \in Nat /\ c.processed \in 0 .. MaxOperations
  BY DEF CycleState
<1>3. Smaller(MaxOperations - c.processed, MaxBatch) \in Nat
  BY <1>2, ConstantsAssumption DEF Smaller
<1>4. \A m \in Nat : Smaller(c.next + m - 1, c.last) <= c.last
  BY <1>2 DEF Smaller
<1>5. to <= c.last
  BY <1>3, <1>4
<1> HIDE DEF to
<1>6. /\ n.phase = "range" /\ n.rows = c.rows /\ n.blocker = c.blocker /\ n.got = c.got
      /\ n.last = c.last /\ n.upto = to
  BY DEF CycleState
<1> QED BY <1>1, <1>5, <1>6

(* A gap is set aside and its repair requested. *)
LEMMA GapMove ==
  ASSUME DeliveryInv, [Next]_vars, NEW d \in Device, NEW row \in cycle[d].rows, RowGap(d, row)
  PROVE  PullInv(d)'
<1> DEFINE c == Blocked(cycle[d], row, deviceHeads[d][row.op.dev])
           r == NextRepair(c, cursor[d])
<1>0. cycle[d] \in CycleState /\ PullInv(d) /\ TypeOK
  BY PullStepFacts
<1>1. NextRow(d, row) /\ UNCHANGED <<server, cursor>> /\ Admit(d, row) = "Gap"
  BY DEF RowGap, Elsewhere
<1>2. row \in Row /\ row.op \in Op
  BY <1>0, CycleType DEF Row
<1>3. row.op.dev \in Device /\ row.op.seq \in Nat \ {0} /\ deviceHeads[d][row.op.dev] \in Nat
  BY <1>0, <1>2 DEF Op, TypeOK
<1>4. deviceHeads[d][row.op.dev] + 1 \in Nat /\ row.op.seq - 1 \in Nat
  BY <1>3
<1>5. /\ c \in CycleState /\ c.rows = cycle[d].rows \ {row} /\ c.blocker = {row}
      /\ c.got = cycle[d].got /\ c.last = row.op.seq - 1
  BY <1>0, <1>2, <1>4 DEF CycleState, Blocked
<1>6. CycleBecomes(d, Idle) \/ CycleBecomes(d, r)
  BY DEF RowGap
<1> HIDE DEF c
<1>7. CASE CycleBecomes(d, Idle)
  BY <1>1, <1>7, IdleMove
<1>8. CASE CycleBecomes(d, r) /\ r # Idle
  <2>1. /\ r.phase = "range" /\ r.rows = c.rows /\ r.blocker = c.blocker /\ r.got = c.got
        /\ r.last = c.last /\ r.upto <= r.last
    BY <1>5, <1>8, NextRepairParts
  <2> HIDE DEF r
  <2>2. First(row, Pending(cycle[d])) /\ cycle[d].phase \in Applying /\ cycle[d].blocker = {}
        /\ Pending(cycle[d]) = cycle[d].rows
    BY <1>1, NextRowFirst
  <2>3. Pending(r) = Pending(cycle[d]) /\ RowsOf(r) \subseteq RowsOf(cycle[d])
    BY <1>5, <2>1, <2>2 DEF Pending, RowsOf
  <2>4. \A x \in r.rows : Before(row, x)
    BY <1>5, <2>1, <2>2 DEF First
  <2>5. RepairOf(r)
    BY <1>3, <1>5, <2>1, <2>4 DEF RepairOf, Repairing
  <2>6. ~(StrictSequence /\ tampered = 0)
    BY <1>1, <2>2, HostedHasNoGap
  <2>7. r.phase \in Applying
    BY <2>1 DEF Applying, Repairing
  <2> QED BY <1>1, <1>8, <2>1, <2>2, <2>3, <2>5, <2>6, <2>7, SamePendingMove
<1> QED BY <1>6, <1>7, <1>8

(* In a repair, the blocked row is the first that is pending. *)
LEMMA BlockerFirst ==
  ASSUME DeliveryInv, NEW d \in Device, cycle[d].phase \in Repairing
  PROVE  /\ cycle[d].phase \in Applying /\ cycle[d].blocker # {}
         /\ \A b \in cycle[d].blocker : First(b, Pending(cycle[d]))
BY DEF DeliveryInv, PullInv, RepairOf, Applying, First, Pending

(* The past of a fetched row is in the past of the row it unblocks. *)
LEMMA FetchedIsPast ==
  ASSUME DeliveryInv, NEW d \in Device, cycle[d].phase = "repair", NEW g \in cycle[d].got,
         NEW b \in cycle[d].blocker
  PROVE  /\ g.op.dev = b.op.dev /\ Past(g.op, b.op)
         /\ \A e \in Device : g.op.front[e] <= b.op.front[e]
         /\ Caused(g.op) => Caused(b.op)
<1> USE DEF DeliveryInv, ReplicaInv, TypeInv, ProviderInv
<1>1. g.op \in AllOps /\ b.op \in AllOps
  BY DEF Carried
<1>2. g.op \in Op /\ b.op \in Op
  BY <1>1, StoredType
<1>3. g.op.dev = b.op.dev /\ g.op.seq < b.op.seq
  BY DEF PullInv, RepairOf
<1>4. b.op.front[b.op.dev] + 1 = b.op.seq
  BY <1>1 DEF WellFormed
<1>5. g.op.seq \in Nat /\ b.op.seq \in Nat /\ b.op.dev \in Device
  BY <1>2 DEF Op
<1>6. b.op.front \in [Device -> Nat] /\ g.op.front \in [Device -> Nat]
  BY <1>2 DEF Op
<1>7. b.op.front[b.op.dev] \in Nat
  BY <1>5, <1>6
<1>8. Past(g.op, b.op)
  BY <1>3, <1>4, <1>5, <1>7 DEF Past
<1>9. \A e \in Device : g.op.front[e] <= b.op.front[e]
  BY <1>1, <1>8 DEF FrontsClosed
<1>10. ASSUME Caused(g.op) PROVE Caused(b.op)
  <2>1. PICK s \in server : ~s.ok /\ (s.op = g.op \/ Past(s.op, g.op))
    BY <1>10 DEF Caused
  <2>2. s.op.dev \in Device /\ s.op.seq \in Nat
    BY DEF TypeOK, Row, Op
  <2>3. Past(s.op, b.op)
    <3>1. CASE s.op = g.op
      BY <1>8, <3>1
    <3>2. CASE Past(s.op, g.op)
      BY <1>6, <1>9, <2>2, <3>2 DEF Past
    <3> QED BY <2>1, <3>1, <3>2
  <2> QED BY <2>1, <2>3 DEF Caused
<1> QED BY <1>3, <1>8, <1>9, <1>10

(* A fetched row that is refused has a cause. *)
LEMMA FetchedRefused ==
  ASSUME DeliveryInv, NEW d \in Device, cycle[d].phase = "repair", NEW g \in cycle[d].got,
         Refused(d, g)
  PROVE  Caused(g.op)
<1>1. cycle[d].phase \in Repairing
  BY DEF Repairing
<1>2. PICK b \in cycle[d].blocker : First(b, Pending(cycle[d]))
  BY <1>1, BlockerFirst
<1>3. cycle[d].phase \in Applying
  BY <1>1, BlockerFirst
<1>4. g \in RowsOf(cycle[d])
  BY DEF RowsOf
<1> QED BY <1>2, <1>3, <1>4, FetchedIsPast, RefusedHasCause

(* The steps of a repair. *)
LEMMA RepairMoves ==
  ASSUME DeliveryInv, [Next]_vars, NEW d \in Device,
         \/ RangeServed(d) \/ FinishRange(d) \/ RepairStep(d) \/ RepairDone(d)
  PROVE  PullInv(d)'
<1>0. cycle[d] \in CycleState /\ PullInv(d) /\ TypeOK
  BY PullStepFacts
<1>1. UNCHANGED <<server, cursor>>
  BY DEF RangeServed, FinishRange, RepairStep, RepairSkip, RepairReplay, RepairApply,
         RepairQuarantine, RepairDone, Elsewhere, vault
<1>2. cycle[d].phase \in Repairing
  BY DEF RangeServed, FinishRange, RepairStep, RepairSkip, RepairReplay, RepairApply,
         RepairQuarantine, RepairDone, NextRepairRow, Repairing
<1>3. /\ cycle[d].phase \in Applying /\ cycle[d].blocker # {} /\ RepairOf(cycle[d])
      /\ ~(StrictSequence /\ tampered = 0)
  BY <1>0, <1>2, BlockerFirst DEF PullInv, Unrepaired
<1>4. ASSUME NEW c, CycleBecomes(d, c), c.phase \in Applying, Pending(c) = Pending(cycle[d]),
             \A x \in RowsOf(c) : x \in RowsOf(cycle[d]) \/ x \in server,
             RepairOf(c), c.phase = "blocked" => \A b \in c.blocker : Caused(b.op)
      PROVE  PullInv(d)'
  BY <1>1, <1>3, <1>4, SamePendingMove
<1>5. ASSUME CycleBecomes(d, Idle) PROVE PullInv(d)'
  BY <1>1, <1>5, IdleMove
<1>6. CASE RangeServed(d)
  <2>1. PICK b \in cycle[d].blocker :
          CycleBecomes(d, [cycle[d] EXCEPT !.phase = "ranged",
                             !.got = DeviceRange(b.op.dev, cycle[d].next, cycle[d].upto)])
    BY <1>6 DEF RangeServed
  <2> DEFINE range == DeviceRange(b.op.dev, cycle[d].next, cycle[d].upto)
             c == [cycle[d] EXCEPT !.phase = "ranged", !.got = range]
  <2>a. CycleBecomes(d, c) /\ cycle[d].phase = "range"
    BY <1>6, <2>1 DEF RangeServed
  <2>2. cycle[d].upto \in Nat /\ cycle[d].next \in Nat /\ cycle[d].last \in Nat
    BY <1>0 DEF CycleState
  <2>3. cycle[d].upto <= cycle[d].last /\ b.op.seq = cycle[d].last + 1 /\ \A x \in cycle[d].blocker : x = b
    BY <1>3, <2>a DEF RepairOf
  <2>4. range \subseteq server /\ \A g \in range : g.op.dev = b.op.dev /\ g.op.seq \in cycle[d].next .. cycle[d].upto
    BY DEF DeviceRange
  <2>5. \A g \in range : g.op.dev = b.op.dev /\ g.op.seq < b.op.seq
    BY <2>2, <2>3, <2>4
  <2> HIDE DEF range
  <2>6. /\ c.phase = "ranged" /\ c.rows = cycle[d].rows /\ c.blocker = cycle[d].blocker
        /\ c.got = range /\ c.last = cycle[d].last
    BY <1>0 DEF CycleState
  <2> HIDE DEF c
  <2>7. RepairOf(c)
    BY <1>3, <2>3, <2>5, <2>6 DEF RepairOf, Repairing
  <2>8. Pending(c) = Pending(cycle[d]) /\ \A x \in RowsOf(c) : x \in RowsOf(cycle[d]) \/ x \in server
    BY <2>4, <2>6 DEF Pending, RowsOf
  <2> QED BY <1>4, <2>a, <2>6, <2>7, <2>8 DEF Applying, Repairing
<1>7. ASSUME NEW phase \in {"repair", "blocked"}, cycle[d].phase \in {"ranged", "repair"},
             CycleBecomes(d, InPhase(cycle[d], phase)),
             phase = "blocked" => \A b \in cycle[d].blocker : Caused(b.op)
      PROVE  PullInv(d)'
  <2> DEFINE c == InPhase(cycle[d], phase)
  <2>1. /\ c.phase = phase /\ c.rows = cycle[d].rows /\ c.blocker = cycle[d].blocker
        /\ c.got = cycle[d].got /\ c.last = cycle[d].last
    BY <1>0 DEF InPhase, CycleState
  <2>a. CycleBecomes(d, c)
    BY <1>7
  <2> HIDE DEF c
  <2>2. RepairOf(c)
    BY <1>3, <1>7, <2>1 DEF RepairOf, Repairing
  <2>3. Pending(c) = Pending(cycle[d]) /\ RowsOf(c) = RowsOf(cycle[d])
    BY <2>1 DEF Pending, RowsOf
  <2> QED BY <1>4, <1>7, <2>a, <2>1, <2>2, <2>3 DEF Applying, Repairing
<1>8. CASE FinishRange(d)
  <2>1. CycleBecomes(d, Idle) \/ CycleBecomes(d, InPhase(cycle[d], "repair"))
    BY <1>8 DEF FinishRange
  <2> QED BY <1>5, <1>7, <1>8, <2>1 DEF FinishRange
<1>9. ASSUME NEW g \in cycle[d].got, RepairSkip(d, g) \/ RepairQuarantine(d, g) PROVE PullInv(d)'
  <2>1. cycle[d].phase = "repair"
    BY <1>9 DEF RepairSkip, RepairQuarantine, NextRepairRow
  <2>2. CASE CycleBecomes(d, Idle)
    BY <1>5, <2>2
  <2>3. CASE RepairQuarantine(d, g)
    <3>1. Caused(g.op)
      BY <2>1, <2>3, FetchedRefused DEF RepairQuarantine
    <3>2. \A b \in cycle[d].blocker : Caused(b.op)
      BY <2>1, <3>1, FetchedIsPast
    <3> QED BY <1>7, <2>1, <2>3, <3>2 DEF RepairQuarantine
  <2>4. CASE RepairSkip(d, g) /\ ~CycleBecomes(d, Idle)
    <3>1. PICK q \in Known(d, g) : q.row = g /\ CycleBecomes(d, InPhase(cycle[d], "blocked"))
      BY <2>4 DEF RepairSkip
    <3>2. Caused(g.op)
      BY <3>1 DEF DeliveryInv, QuarantineHasCause, Known, Caused
    <3>3. \A b \in cycle[d].blocker : Caused(b.op)
      BY <2>1, <3>2, FetchedIsPast
    <3> QED BY <1>7, <2>1, <3>1, <3>3
  <2> QED BY <1>9, <2>2, <2>3, <2>4
<1>10. ASSUME NEW g \in cycle[d].got, RepairReplay(d, g) \/ RepairApply(d, g) PROVE PullInv(d)'
  <2> DEFINE c == Repaired(cycle[d], g)
  <2>1. cycle[d].phase = "repair" /\ CycleBecomes(d, c)
    BY <1>10 DEF RepairReplay, RepairApply, NextRepairRow
  <2>2. /\ c.phase = "repair" /\ c.rows = cycle[d].rows /\ c.blocker = cycle[d].blocker
        /\ c.got \subseteq cycle[d].got /\ c.last = cycle[d].last
    BY <1>0, <2>1 DEF Repaired, CycleState
  <2> HIDE DEF c
  <2>3. RepairOf(c)
    BY <1>3, <2>1, <2>2 DEF RepairOf, Repairing
  <2>4. Pending(c) = Pending(cycle[d]) /\ RowsOf(c) \subseteq RowsOf(cycle[d])
    BY <2>2 DEF Pending, RowsOf
  <2> QED BY <1>4, <2>1, <2>2, <2>3, <2>4 DEF Applying, Repairing
<1>11. CASE RepairDone(d)
  <2> DEFINE again == [cycle[d] EXCEPT !.next = cycle[d].upto + 1]
             r == NextRepair(again, cursor[d])
             back  == [cycle[d] EXCEPT !.phase = "rows", !.rows = @ \union cycle[d].blocker,
                         !.blocker = {}, !.repaired = TRUE]
  <2>1. CycleBecomes(d, r) \/ CycleBecomes(d, back)
    BY <1>11 DEF RepairDone
  <2>2. /\ again \in CycleState /\ again.rows = cycle[d].rows /\ again.blocker = cycle[d].blocker
        /\ again.got = cycle[d].got /\ again.last = cycle[d].last
    BY <1>0 DEF CycleState
  <2>3. /\ back.phase = "rows" /\ back.rows = cycle[d].rows \union cycle[d].blocker
        /\ back.blocker = {} /\ back.got = cycle[d].got
    BY <1>0 DEF CycleState
  <2> HIDE DEF again, back
  <2>4. CASE CycleBecomes(d, back)
    <3>1. RepairOf(back)
      BY <2>3 DEF RepairOf, Repairing
    <3>2. Pending(back) = Pending(cycle[d]) /\ RowsOf(back) = RowsOf(cycle[d])
      BY <2>3 DEF Pending, RowsOf
    <3> QED BY <1>4, <2>3, <2>4, <3>1, <3>2 DEF Applying
  <2>5. CASE CycleBecomes(d, r) /\ r # Idle
    <3>1. /\ r.phase = "range" /\ r.rows = cycle[d].rows /\ r.blocker = cycle[d].blocker
          /\ r.got = cycle[d].got /\ r.last = cycle[d].last /\ r.upto <= r.last
      BY <2>2, <2>5, NextRepairParts
    <3> HIDE DEF r
    <3>2. RepairOf(r)
      BY <1>3, <3>1 DEF RepairOf, Repairing
    <3>3. Pending(r) = Pending(cycle[d]) /\ RowsOf(r) = RowsOf(cycle[d])
      BY <3>1 DEF Pending, RowsOf
    <3> QED BY <1>4, <2>5, <3>1, <3>2, <3>3 DEF Applying, Repairing
  <2>6. CASE CycleBecomes(d, Idle)
    BY <1>5, <2>6
  <2> QED BY <2>1, <2>4, <2>5, <2>6
<1> QED BY <1>6, <1>8, <1>9, <1>10, <1>11 DEF RepairStep

(* The blocked row is put aside and passed. *)
LEMMA BlockerMove ==
  ASSUME DeliveryInv, [Next]_vars, NEW d \in Device, QuarantineBlocker(d)
  PROVE  PullInv(d)'
<1> DEFINE c == [cycle[d] EXCEPT !.phase = "rows", !.blocker = {}, !.got = {}, !.processed = @ + 1]
<1>0. cycle[d] \in CycleState /\ PullInv(d) /\ TypeOK
  BY PullStepFacts
<1>1. PICK b \in cycle[d].blocker :
        \/ CycleBecomes(d, Idle) /\ UNCHANGED cursor
        \/ /\ Quarantined(d, b, "gap_pending")
           /\ AdvanceCursor(d, b)
           /\ CycleBecomes(d, c)
  BY DEF QuarantineBlocker
<1>2. cycle[d].phase \in Repairing /\ UNCHANGED server
  BY DEF QuarantineBlocker, Repairing, Elsewhere
<1>3. CASE CycleBecomes(d, Idle) /\ UNCHANGED cursor
  BY <1>3, IdleMove
<1>4. CASE Quarantined(d, b, "gap_pending") /\ AdvanceCursor(d, b) /\ CycleBecomes(d, c)
  <2>1. c.phase = "rows" /\ c.blocker = {} /\ c.got = {} /\ c.rows = cycle[d].rows
    BY <1>0 DEF CycleState
  <2>2. cycle'[d] = c
    BY <1>0, <1>4, CycleNow
  <2> HIDE DEF c
  <2>3. First(b, Pending(cycle[d])) /\ cycle[d].phase \in Applying
    BY <1>2, BlockerFirst
  <2>4. cycle[d].blocker = {b} /\ \A x \in cycle[d].rows : Before(b, x)
    BY <1>0 DEF PullInv, RepairOf
  <2>5. b \notin cycle[d].rows
    <3>1. RowCursor(b) \in Cursor
      BY <1>0, CycleType, RowCursorType
    <3> QED BY <2>4, <3>1, CursorOrder DEF Before
  <2>6. Pending(cycle'[d]) = Pending(cycle[d]) \ {b} /\ RowsOf(cycle'[d]) \subseteq RowsOf(cycle[d])
    BY <2>1, <2>2, <2>4, <2>5 DEF Pending, RowsOf
  <2>7. Held(d, b.op)'
    <3> DEFINE q == [row |-> b, code |-> "gap_pending"]
    <3>1. q \in quarantine'[d] /\ q.row = b
      BY <1>0, <1>4 DEF Quarantined, TypeOK
    <3> QED BY <3>1 DEF Held
  <2>8. RowsFollow(d)' /\ Passed(d)'
    BY <1>2, <1>4, <2>3, <2>6, <2>7, PullStepFacts, PassesOne
  <2>9. Served(d)'
    BY <1>0, <2>6, PullStepFacts, ServedStays DEF PullInv
  <2>10. PageFollows(d)' /\ RepairOf(cycle[d])' /\ BlockedByDamage(d)' /\ Unrepaired(d)'
    BY <2>1, <2>2 DEF PageFollows, RepairOf, BlockedByDamage, Unrepaired, Repairing
  <2> QED BY <2>8, <2>9, <2>10 DEF PullInv
<1> QED BY <1>1, <1>3, <1>4

(* The cycle and the cursor of the other devices stay as they are. *)
LEMMA OnlyOneMoves ==
  ASSUME TypeOK, NEW d \in Device, NEW e \in Device, e # d,
         CycleStep(d) \/ PushLost(d) \/ PushRefused(d) \/ PullLost(d) \/ Crash(d)
  PROVE  cycle'[e] = cycle[e] /\ cursor'[e] = cursor[e]
<1>1. ASSUME NEW c, CycleBecomes(d, c) PROVE cycle'[e] = cycle[e]
  BY <1>1 DEF CycleBecomes, TypeOK
<1>2. ASSUME NEW row, AdvanceCursor(d, row) PROVE cursor'[e] = cursor[e]
  BY <1>2 DEF AdvanceCursor, TypeOK
<1>3. CASE \/ BeginCycle(d) \/ PushServed(d) \/ FinishPush(d) \/ PageServed(d) \/ FinishPage(d)
           \/ PageDone(d) \/ RangeServed(d) \/ FinishRange(d) \/ RepairDone(d)
           \/ PushLost(d) \/ PushRefused(d) \/ PullLost(d) \/ Crash(d)
  <2>1. UNCHANGED cursor
    BY <1>3
    DEF BeginCycle, PushServed, FinishPush, PageServed, FinishPage, PageDone, RangeServed,
        FinishRange, RepairDone, PushLost, PushRefused, PullLost, Crash, vault
  <2>2. UNCHANGED cycle \/ \E c : CycleBecomes(d, c)
    BY <1>3
    DEF BeginCycle, PushServed, FinishPush, PageServed, FinishPage, PageDone, RangeServed,
        FinishRange, RepairDone, PushLost, PushRefused, PullLost, Crash
  <2> QED BY <1>1, <2>1, <2>2
<1>4. CASE RowStep(d) \/ RepairStep(d) \/ QuarantineBlocker(d)
  <2>1. UNCHANGED cursor \/ \E row : AdvanceCursor(d, row)
    BY <1>4
    DEF RowStep, RepairStep, QuarantineBlocker, RowSkip, RowReplay, RowApply, RowQuarantine,
        RowGap, RepairSkip, RepairReplay, RepairApply, RepairQuarantine, vault
  <2>2. \E c : CycleBecomes(d, c)
    BY <1>4
    DEF RowStep, RepairStep, QuarantineBlocker, RowSkip, RowReplay, RowApply, RowQuarantine,
        RowGap, RepairSkip, RepairReplay, RepairApply, RepairQuarantine
  <2> QED BY <1>1, <1>2, <2>1, <2>2
<1> QED BY <1>3, <1>4 DEF CycleStep

(* Every step keeps the pull of every device. *)
LEMMA PullInvStep ==
  ASSUME DeliveryInv, [Next]_vars, NEW e \in Device
  PROVE  PullInv(e)'
<1>0. TypeOK
  BY PullStepFacts
<1>1. ASSUME UNCHANGED <<cycle, cursor>> PROVE PullInv(e)'
  BY <1>1, PullStepFacts, OthersKeep
<1>2. ASSUME NEW d \in Device, CycleStep(d) \/ PushLost(d) \/ PushRefused(d) \/ PullLost(d) \/ Crash(d)
      PROVE  PullInv(e)'
  <2>1. CASE e # d
    BY <1>0, <1>2, <2>1, OnlyOneMoves, PullStepFacts, OthersKeep
  <2>2. CASE e = d
    <3>1. CASE PullLost(d) \/ Crash(d)
      BY <2>2, <3>1, IdleMove DEF PullLost, Crash, vault
    <3>2. CASE RowStep(d)
      BY <2>2, <3>2, RowMoves, GapMove DEF RowStep
    <3>3. CASE \/ BeginCycle(d) \/ PushServed(d) \/ PushLost(d) \/ PushRefused(d) \/ FinishPush(d)
               \/ PageDone(d)
      BY <2>2, <3>3, PushMoves
    <3>4. CASE \/ RangeServed(d) \/ FinishRange(d) \/ RepairStep(d) \/ RepairDone(d)
      BY <2>2, <3>4, RepairMoves
    <3>5. CASE PageServed(d) \/ FinishPage(d) \/ QuarantineBlocker(d)
      BY <2>2, <3>5, PageMove, PageAccepted, BlockerMove
    <3> QED BY <1>2, <3>1, <3>2, <3>3, <3>4, <3>5 DEF CycleStep
  <2> QED BY <2>1, <2>2
<1>3. ASSUME NEW d \in Device, \/ TimeStep(d) \/ SessionChanged(d) \/ LateArrival(d)
                               \/ \E r \in Record : LocalWrite(d, r)
      PROVE  UNCHANGED <<cycle, cursor>>
  BY <1>3 DEF TimeStep, RetryTimeComes, SessionChanged, LateArrival, LocalWrite, vault
<1>4. ASSUME NEW row \in server, TamperRow(row) PROVE UNCHANGED <<cycle, cursor>>
  BY <1>4 DEF TamperRow, vault
<1>5. CASE UNCHANGED vars
  BY <1>1, <1>5 DEF vars, vault
<1> QED BY <1>1, <1>2, <1>3, <1>4, <1>5 DEF Next

(* Every receipt that a step adds is explained by a damaged row. *)
LEMMA QuarantineHasCauseStep ==
  ASSUME DeliveryInv, [Next]_vars
  PROVE  QuarantineHasCause'
<1> USE DEF DeliveryInv
<1>0. TypeOK /\ ProviderGrows
  BY ProviderStep DEF ReplicaInv, TypeInv
<1> SUFFICES ASSUME NEW d \in Device, NEW q \in quarantine'[d] PROVE Caused(q.row.op)
  <2>1. \A d \in Device : \A q \in quarantine'[d] : Caused(q.row.op)'
    BY <1>0, CausedStays
  <2> QED BY <2>1 DEF QuarantineHasCause, Caused
<1>1. CASE q \in quarantine[d]
  BY <1>1 DEF QuarantineHasCause, Caused
<1>2. ASSUME NEW e \in Device, NEW row, NEW code, Quarantined(e, row, code), Caused(row.op)
      PROVE  Caused(q.row.op)
  <2>1. q \in quarantine[d] \/ q = [row |-> row, code |-> code]
    BY <1>0, <1>2 DEF Quarantined, TypeOK
  <2>2. [row |-> row, code |-> code].row = row
    OBVIOUS
  <2> QED BY <1>1, <1>2, <2>1, <2>2
<1>3. ASSUME NEW e \in Device, NEW row \in cycle[e].rows, RowQuarantine(e, row)
      PROVE  Caused(q.row.op)
  <2>1. NextRow(e, row) /\ Refused(e, row) /\ Quarantined(e, row, "integrity_quarantined")
    BY <1>3 DEF RowQuarantine
  <2>2. cycle[e].phase \in Applying /\ First(row, Pending(cycle[e])) /\ row \in RowsOf(cycle[e])
    BY <2>1, NextRowFirst DEF RowsOf
  <2>3. \A f \in Device : row.op.front[f] <= row.op.front[f]
    BY <1>0, CycleType DEF Row, Op
  <2>4. Caused(row.op)
    BY <2>1, <2>2, <2>3, RefusedHasCause
  <2> QED BY <1>2, <2>1, <2>4
<1>4. ASSUME NEW e \in Device, NEW g \in cycle[e].got, RepairQuarantine(e, g)
      PROVE  Caused(q.row.op)
  <2>1. /\ cycle[e].phase = "repair" /\ Refused(e, g)
        /\ Quarantined(e, g, "integrity_quarantined")
    BY <1>4 DEF RepairQuarantine, NextRepairRow
  <2> QED BY <1>2, <2>1, FetchedRefused
<1>5. ASSUME NEW e \in Device, QuarantineBlocker(e) PROVE Caused(q.row.op)
  <2>1. UNCHANGED quarantine \/ \E b \in cycle[e].blocker : Quarantined(e, b, "gap_pending")
    BY <1>5 DEF QuarantineBlocker
  <2>2. \A b \in cycle[e].blocker : Caused(b.op)
    BY <1>5 DEF QuarantineBlocker, PullInv, BlockedByDamage
  <2> QED BY <1>1, <1>2, <2>1, <2>2
<1>6. CASE UNCHANGED quarantine
  BY <1>1, <1>6
<1>7. TypeInv
  BY DEF ReplicaInv
<1> QED BY <1>3, <1>4, <1>5, <1>6, <1>7, QuarantineSteps

(* What a pull passes, puts aside and repairs is as it should be, for any  *)
(* number of devices, writes, faults and damaged rows.                     *)
THEOREM DeliveryInvariant == Spec => []DeliveryInv
<1>1. Init => DeliveryInv
  <2> SUFFICES ASSUME Init PROVE DeliveryInv
    OBVIOUS
  <2>1. AllOps = {}
    BY DEF Init, AllOps
  <2>2. Dated
    BY DEF Init, Dated, NoCursor, Idle
  <2>3. ProviderInv
    BY <2>1, IdleType
    DEF Init, ProviderInv, FrontsClosed, ForeignServed, PastEarlier, Authored, InOrder, Intact
  <2>4. QuarantineHasCause
    BY DEF Init, QuarantineHasCause
  <2>5. ASSUME NEW d \in Device PROVE PullInv(d)
    <3>1. cycle[d] = Idle /\ server = {}
      BY DEF Init
    <3> QED BY <3>1, IdleType
        DEF PullInv, Served, RowsOf, Passed, PageFollows, RowsFollow, RepairOf,
            BlockedByDamage, Unrepaired, Repairing, Applying
  <2> QED BY <2>2, <2>3, <2>4, <2>5, ReplicaInit DEF DeliveryInv
<1>2. DeliveryInv /\ [Next]_vars => DeliveryInv'
  <2> SUFFICES ASSUME DeliveryInv, [Next]_vars PROVE DeliveryInv'
    OBVIOUS
  <2>1. ReplicaInv'
    BY ReplicaStep DEF DeliveryInv
  <2>2. Dated' /\ ProviderInv' /\ QuarantineHasCause'
    BY DatedStep, ProviderInvStep, QuarantineHasCauseStep
  <2>3. \A d \in Device : PullInv(d)'
    BY PullInvStep
  <2> QED BY <2>1, <2>2, <2>3 DEF DeliveryInv
<1> QED BY <1>1, <1>2, PTL DEF Spec

(* A cursor never passes a row that the device neither stored nor put      *)
(* aside: repairs out of order, stale pages, rows that arrive meanwhile    *)
(* and a crash between two rows skip nothing, whatever the page size.      *)
THEOREM CursorPassesNothingEver == Spec => []CursorPassesNothing
<1>1. DeliveryInv => CursorPassesNothing
  BY DEF DeliveryInv, PullInv, Passed, Held, CursorPassesNothing
<1> QED BY <1>1, DeliveryInvariant, PTL

(* Nothing is quarantined without a damaged row in its past: an honest     *)
(* operation is neither a sequence conflict nor an invalid frontier, since *)
(* what it depends on reached the provider before it.                      *)
THEOREM QuarantineAlwaysHasCause == Spec => []QuarantineHasCause
<1>1. DeliveryInv => QuarantineHasCause
  BY DEF DeliveryInv
<1> QED BY <1>1, DeliveryInvariant, PTL

(* A pull from the hosted provider meets no gap while it damages nothing:  *)
(* service_append_sync_operations takes operations in sequence, and pages  *)
(* hand them out in that order.                                            *)
THEOREM HostedNeverRepairsEver == Spec => []HostedNeverRepairs
<1>1. DeliveryInv => HostedNeverRepairs
  BY DEF DeliveryInv, PullInv, Unrepaired, Repairing, HostedNeverRepairs
<1> QED BY <1>1, DeliveryInvariant, PTL

=============================================================================
