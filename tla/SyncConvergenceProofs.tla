------------------------ MODULE SyncConvergenceProofs ------------------------
(***************************************************************************)
(* Signed sync keeps replicas causally closed, merges to the same view in  *)
(* every order of arrival, loses no write, and implements the causal       *)
(* store: for every number of devices, records and operations, whatever is *)
(* lost, delayed, damaged or interrupted.                                  *)
(***************************************************************************)
EXTENDS SyncReplicationProofs

(* Every operation in a queue, on the wire, at the provider or in a cycle  *)
(* was committed by some vault: damage never makes a new one acceptable.   *)
Carried ==
  /\ \A row \in server : row.op \in AllOps
  /\ \A d \in Device :
       /\ \A q \in outbox[d] : q.op \in AllOps
       /\ \A b \in cycle[d].batch : b.op \in AllOps
       /\ \A row \in cycle[d].rows \union cycle[d].blocker \union cycle[d].got : row.op \in AllOps
       /\ \A batch \in wire[d] : \A b \in batch : b.op \in AllOps

(* An author has its own operations, and each follows the one before it. *)
WellFormed ==
  \A o \in AllOps : o \in stored[o.dev] /\ o.front[o.dev] + 1 = o.seq

(* The device heads of a vault bound everything its operations mention. *)
HeadsCover ==
  \A d \in Device : \A p \in stored[d] :
    /\ p.seq <= deviceHeads[d][p.dev]
    /\ \A e \in Device : p.front[e] <= deviceHeads[d][e]

(* A vault has every operation up to its device heads. *)
NoGaps ==
  \A d, e \in Device : \A n \in 1 .. deviceHeads[d][e] :
    \E p \in stored[d] : p.dev = e /\ p.seq = n

(* Device and sequence, or the id, identify an operation. *)
Unique ==
  \A o, p \in AllOps : (o.dev = p.dev /\ o.seq = p.seq) \/ o.id = p.id => o = p

ReplicaInv ==
  TypeInv /\ Carried /\ WellFormed /\ HeadsCover /\ NoGaps /\ Unique /\ ViewIsMerge

-----------------------------------------------------------------------------
(* What a vault gains by one operation. *)

(* What a vault has stored are operations. *)
LEMMA StoredType == ASSUME TypeOK, NEW d \in Device
  PROVE stored[d] \subseteq Op /\ stored[d] \subseteq AllOps /\ AllOps \subseteq Op
BY DEF TypeOK, AllOps

(* Device d adds o, the next operation of its device, with its past. *)
Adds(d, o) ==
  /\ o \in Op
  /\ o.front[o.dev] + 1 = o.seq
  /\ o.seq = deviceHeads[d][o.dev] + 1
  /\ \A e \in Device : o.front[e] <= deviceHeads[d][e]
  /\ stored' = [stored EXCEPT ![d] = @ \union {o}]
  /\ deviceHeads' = [deviceHeads EXCEPT ![d][o.dev] = o.seq]

(* Adding an operation changes the set of one vault only, and by it alone. *)
LEMMA AddsAllOps ==
  ASSUME TypeOK, NEW d \in Device, NEW o, Adds(d, o)
  PROVE  /\ AllOps' = AllOps \union {o}
         /\ stored'[d] = stored[d] \union {o}
         /\ \A e \in Device : e # d => stored'[e] = stored[e]
         /\ \A e \in Device : stored[e] \subseteq stored'[e]
<1>1. /\ stored'[d] = stored[d] \union {o}
      /\ \A e \in Device : e # d => stored'[e] = stored[e]
  BY DEF Adds, TypeOK
<1>2. AllOps' = AllOps \union {o}
  BY <1>1 DEF AllOps
<1> QED BY <1>1, <1>2

(* Adding an operation advances one device head of one vault by one. *)
LEMMA AddsHeads ==
  ASSUME TypeOK, NEW d \in Device, NEW o, Adds(d, o)
  PROVE  /\ deviceHeads'[d][o.dev] = deviceHeads[d][o.dev] + 1
         /\ \A e, f \in Device : e # d \/ f # o.dev => deviceHeads'[e][f] = deviceHeads[e][f]
         /\ \A e, f \in Device : deviceHeads[e][f] \in Nat /\ deviceHeads'[e][f] \in Nat
         /\ \A e, f \in Device : deviceHeads[e][f] <= deviceHeads'[e][f]
<1>1. o.dev \in Device /\ o.seq \in Nat
  BY DEF Adds, Op
<1>2. \A e, f \in Device : deviceHeads[e][f] \in Nat
  BY DEF TypeOK
<1>3. /\ deviceHeads'[d][o.dev] = deviceHeads[d][o.dev] + 1
      /\ \A e, f \in Device : e # d \/ f # o.dev => deviceHeads'[e][f] = deviceHeads[e][f]
  BY <1>1 DEF Adds, TypeOK
<1> QED BY <1>1, <1>2, <1>3

(* An operation that is added follows everything the vault has stored. *)
LEMMA AddsNewTo ==
  ASSUME TypeOK, HeadsCover, NEW d \in Device, NEW o, Adds(d, o)
  PROVE  NewTo(o, stored[d])
<1> SUFFICES ASSUME NEW p \in stored[d] PROVE ~Past(o, p) /\ (p.dev = o.dev => p.seq < o.seq)
  BY DEF NewTo, Adds
<1>1. p \in Op /\ o \in Op /\ o.dev \in Device /\ deviceHeads[d][o.dev] \in Nat
  BY StoredType DEF Adds, Op, TypeOK
<1>2. p.front[o.dev] <= deviceHeads[d][o.dev] /\ p.front[o.dev] \in Nat
  BY <1>1 DEF HeadsCover, Op
<1>3. p.seq <= deviceHeads[d][p.dev] /\ p.seq \in Nat
  BY <1>1 DEF HeadsCover, Op
<1>4. o.seq = deviceHeads[d][o.dev] + 1
  BY DEF Adds
<1> QED BY <1>1, <1>2, <1>3, <1>4 DEF Past

(* The parts of the invariant about which operations there are.            *)
LEMMA AddsPreserves ==
  ASSUME ReplicaInv, NEW d \in Device, NEW o, Adds(d, o),
         \/ o \in AllOps
         \/ o.dev = d /\ \A p \in AllOps : p.id # o.id
  PROVE  WellFormed' /\ HeadsCover' /\ NoGaps' /\ Unique'
<1> USE DEF ReplicaInv, TypeInv
<1>1. o \in Op /\ o.dev \in Device /\ o.seq \in Nat
  BY DEF Adds, Op
<1>2. WellFormed'
  <2> SUFFICES ASSUME NEW p \in AllOps' PROVE p \in stored'[p.dev] /\ p.front[p.dev] + 1 = p.seq
    BY DEF WellFormed
  <2>1. CASE p \in AllOps
    <3>1. p \in stored[p.dev] /\ p.front[p.dev] + 1 = p.seq /\ p.dev \in Device
      BY <2>1, StoredType DEF WellFormed, Op
    <3>2. stored[p.dev] \subseteq stored'[p.dev]
      BY <3>1, AddsAllOps
    <3> QED BY <3>1, <3>2
  <2>2. CASE p = o /\ o.dev = d
    <3>1. o \in stored'[d]
      BY AddsAllOps
    <3>2. o.front[o.dev] + 1 = o.seq
      BY DEF Adds
    <3> QED BY <2>2, <3>1, <3>2
  <2> QED BY <2>1, <2>2, AddsAllOps
<1>3. HeadsCover'
  <2> SUFFICES ASSUME NEW f \in Device, NEW p \in stored'[f]
               PROVE  /\ p.seq <= deviceHeads'[f][p.dev]
                      /\ \A e \in Device : p.front[e] <= deviceHeads'[f][e]
    BY DEF HeadsCover
  <2>1. CASE p \in stored[f]
    <3>1. p \in Op
      BY <2>1, StoredType
    <3>2. /\ p.dev \in Device /\ p.seq \in Nat /\ p.front \in [Device -> Nat]
          /\ p.seq <= deviceHeads[f][p.dev]
          /\ \A e \in Device : p.front[e] <= deviceHeads[f][e]
      BY <2>1, <3>1 DEF HeadsCover, Op
    <3> QED BY <3>2, AddsHeads
  <2>2. CASE p = o /\ f = d
    <3>1. o.front \in [Device -> Nat]
      BY <1>1 DEF Op
    <3>2. \A e \in Device : o.front[e] <= deviceHeads[d][e]
      BY DEF Adds
    <3>3. o.seq = deviceHeads'[d][o.dev]
      BY AddsHeads DEF Adds
    <3> QED BY <1>1, <2>2, <3>1, <3>2, <3>3, AddsHeads
  <2> QED BY <2>1, <2>2, AddsAllOps
<1>4. NoGaps'
  <2> SUFFICES ASSUME NEW f \in Device, NEW e \in Device, NEW n \in 1 .. deviceHeads'[f][e]
               PROVE  \E p \in stored'[f] : p.dev = e /\ p.seq = n
    BY DEF NoGaps
  <2>1. CASE n \in 1 .. deviceHeads[f][e]
    <3>1. PICK p \in stored[f] : p.dev = e /\ p.seq = n
      BY <2>1 DEF NoGaps
    <3> QED BY <3>1, AddsAllOps
  <2>2. CASE n \notin 1 .. deviceHeads[f][e]
    <3>1. f = d /\ e = o.dev
      BY <2>2, AddsHeads
    <3>2. deviceHeads'[d][o.dev] = deviceHeads[d][o.dev] + 1 /\ deviceHeads[d][o.dev] \in Nat
      BY <1>1, AddsHeads
    <3>3. n = o.seq
      BY <2>2, <3>1, <3>2 DEF Adds
    <3> QED BY <3>1, <3>3, AddsAllOps
  <2> QED BY <2>1, <2>2
<1>5. CASE o \in AllOps
  <2>1. AllOps' = AllOps
    BY <1>5, AddsAllOps
  <2>2. Unique'
    BY <2>1 DEF Unique
  <2> QED BY <1>2, <1>3, <1>4, <2>2
<1>6. CASE o.dev = d /\ \A p \in AllOps : p.id # o.id
  <2>1. \A p \in AllOps : p.dev = d => p.seq < o.seq
    <3> SUFFICES ASSUME NEW p \in AllOps, p.dev = d PROVE p.seq < o.seq
      OBVIOUS
    <3>1. p \in stored[d] /\ p \in Op
      BY StoredType DEF WellFormed
    <3>2. p.seq <= deviceHeads[d][d] /\ p.seq \in Nat /\ deviceHeads[d][d] \in Nat
      BY <3>1 DEF HeadsCover, Op, TypeOK
    <3> QED BY <1>6, <3>2 DEF Adds
  <2>2. \A p \in AllOps : p.seq \in Nat
    BY StoredType DEF Op
  <2>3. Unique'
    BY <1>1, <1>6, <2>1, <2>2, AddsAllOps DEF Unique
  <2> QED BY <1>2, <1>3, <1>4, <2>3
<1> QED BY <1>5, <1>6

(* The view of a device that adds an operation, for a record of another    *)
(* and for its own.                                                        *)
LEMMA AddsView ==
  ASSUME ReplicaInv, NEW d \in Device, NEW o, Adds(d, o),
         LET heads == Maximal(stored'[d], o.rec) IN
           /\ recordHeads' = [recordHeads EXCEPT ![d][o.rec] = heads]
           /\ live' = [live EXCEPT ![d][o.rec] = ValueOf(heads)]
           /\ conflicts' = [conflicts EXCEPT ![d][o.rec] =
                ConflictOf(heads)]
  PROVE  ViewIsMerge'
<1> USE DEF ReplicaInv, TypeInv
<1> SUFFICES ASSUME NEW e \in Device, NEW r \in Record
             PROVE  LET heads == Maximal(stored'[e], r) IN
                    /\ recordHeads'[e][r] = heads
                    /\ live'[e][r] = ValueOf(heads)
                    /\ conflicts'[e][r] = ConflictOf(heads)
  BY DEF ViewIsMerge
<1>1. o \in Op /\ o.rec \in Record
  BY DEF Adds, Op
<1>2. CASE e = d /\ r = o.rec
  <2>1. NewTo(o, stored[d]) /\ stored[d] \in SUBSET Op
    BY AddsNewTo, StoredType
  <2>2. o \in Maximal(stored'[d], o.rec)
    <3>1. stored'[d] = stored[d] \union {o}
      BY AddsAllOps
    <3>2. o \in Maximal(stored[d] \union {o}, o.rec)
      BY <1>1, <2>1, MaximalStep
    <3> QED BY <3>1, <3>2
  <2> DEFINE heads == Maximal(stored'[d], o.rec)
  <2>3. heads # {}
    BY <2>2
  <2> HIDE DEF heads
  <2>4. /\ recordHeads'[d][o.rec] = heads
        /\ live'[d][o.rec] = ValueOf(heads)
        /\ conflicts'[d][o.rec] = ConflictOf(heads)
    BY <1>1 DEF heads, TypeOK
  <2> QED BY <1>2, <2>3, <2>4 DEF heads
<1>3. CASE e # d \/ r # o.rec
  <2>1. Maximal(stored'[e], r) = Maximal(stored[e], r)
    <3>1. CASE e # d
      BY <3>1, AddsAllOps
    <3>2. CASE e = d /\ r # o.rec
      <4>1. NewTo(o, stored[d]) /\ stored[d] \in SUBSET Op
        BY AddsNewTo, StoredType
      <4>2. stored'[d] = stored[d] \union {o}
        BY AddsAllOps
      <4>3. Maximal(stored[d] \union {o}, r) = Maximal(stored[d], r)
        BY <1>1, <3>2, <4>1, MaximalStep
      <4> QED BY <3>2, <4>2, <4>3
    <3> QED BY <1>3, <3>1, <3>2
  <2>2. /\ recordHeads'[e][r] = recordHeads[e][r]
        /\ live'[e][r] = live[e][r]
        /\ conflicts'[e][r] = conflicts[e][r]
    BY <1>1, <1>3 DEF TypeOK
  <2> DEFINE heads == Maximal(stored[e], r)
  <2>3. /\ recordHeads[e][r] = heads
        /\ live[e][r] = ValueOf(heads)
        /\ conflicts[e][r] = ConflictOf(heads)
    BY DEF ViewIsMerge
  <2> HIDE DEF heads
  <2> QED BY <2>1, <2>2, <2>3 DEF heads
<1> QED BY <1>2, <1>3

-----------------------------------------------------------------------------
(* The three steps that change what a vault stores. *)

(* Admission lets in only the next operation of a device, with its past. *)
LEMMA AdmittedAdds ==
  ASSUME ReplicaInv, NEW d \in Device, NEW row \in Row, row.op \in AllOps,
         Admit(d, row) = "Admitted", Apply(d, row.op)
  PROVE  Adds(d, row.op)
<1> USE DEF ReplicaInv, TypeInv
<1>1. row.op \in Op /\ row.op.dev \in Device /\ row.op.seq \in Nat
  BY DEF Row, Op
<1>2. \A e \in Device : row.op.front[e] \in Nat /\ deviceHeads[d][e] \in Nat
  BY <1>1 DEF Op, TypeOK
<1>3. row.op.seq = deviceHeads[d][row.op.dev] + 1
  BY <1>1, <1>2 DEF Admit
<1>4. ~ \E e \in Device : row.op.front[e] > deviceHeads[d][e]
  BY DEF Admit
<1>5. \A e \in Device : row.op.front[e] <= deviceHeads[d][e]
  BY <1>2, <1>4
<1>6. row.op.front[row.op.dev] + 1 = row.op.seq
  BY DEF WellFormed
<1> QED BY <1>1, <1>3, <1>5, <1>6 DEF Adds, Apply

(* Applying an admitted row keeps the invariant: the incremental merge is  *)
(* the merge of the larger set.                                            *)
LEMMA AppliedPreserves ==
  ASSUME ReplicaInv, NEW d \in Device, NEW row \in Row, row.op \in AllOps,
         Admit(d, row) = "Admitted", Apply(d, row.op)
  PROVE  WellFormed' /\ HeadsCover' /\ NoGaps' /\ Unique' /\ ViewIsMerge'
<1> USE DEF ReplicaInv, TypeInv
<1> DEFINE o == row.op
           before == Maximal(stored[d], o.rec)
           after  == Maximal(stored'[d], o.rec)
<1>1. Adds(d, o)
  BY AdmittedAdds
<1>2. o \in Op /\ o.rec \in Record /\ NewTo(o, stored[d]) /\ stored[d] \in SUBSET Op
  BY <1>1, AddsNewTo, StoredType DEF Adds, Op
<1>3. after = Maximal(stored[d] \union {o}, o.rec)
  BY <1>1, AddsAllOps
<1>4. before = Maximal(stored[d], o.rec) /\ recordHeads[d][o.rec] = before
  BY <1>2 DEF ViewIsMerge
<1> HIDE DEF o, before, after
<1>5. /\ MergedHeads(o, before) = after
      /\ MergedLive(o, before, live[d][o.rec]) = ValueOf(after)
      /\ MergedConflict(o, before, conflicts[d][o.rec]) =
           ConflictOf(after)
  <2> DEFINE ops == stored[d]
             old == live[d][o.rec]
             oldConflict == conflicts[d][o.rec]
  <2>1. o \in Op /\ NewTo(o, ops) /\ ops \in SUBSET Op
    BY <1>2
  <2>2. before = Maximal(ops, o.rec) /\ after = Maximal(ops \union {o}, o.rec)
    BY <1>3, <1>4
  <2> HIDE DEF ops, old, oldConflict
  <2>3. /\ MergedHeads(o, before) = after
        /\ MergedLive(o, before, old) = ValueOf(after)
        /\ MergedConflict(o, before, oldConflict) = ConflictOf(after)
    BY <2>1, <2>2, MergeIsCorrect
  <2> QED BY <2>3 DEF old, oldConflict
<1>6. Apply(d, o)
  BY DEF o
<1>7. /\ recordHeads' = [recordHeads EXCEPT ![d][o.rec] = after]
      /\ live' = [live EXCEPT ![d][o.rec] = ValueOf(after)]
      /\ conflicts' = [conflicts EXCEPT ![d][o.rec] =
           ConflictOf(after)]
  BY <1>4, <1>5, <1>6 DEF Apply
<1>8. ViewIsMerge'
  BY <1>1, <1>7, AddsView DEF after
<1>9. WellFormed' /\ HeadsCover' /\ NoGaps' /\ Unique'
  BY <1>1, AddsPreserves DEF o
<1> QED BY <1>8, <1>9

Writes(d, o) ==
  /\ Adds(d, o)
  /\ o.dev = d
  /\ \A p \in AllOps : p.id # o.id
  /\ \A p \in stored[d] : Past(p, o)
  /\ recordHeads' = [recordHeads EXCEPT ![d][o.rec] = {o}]
  /\ live' = [live EXCEPT ![d][o.rec] = {o}]
  /\ conflicts' = [conflicts EXCEPT ![d][o.rec] = {}]
  /\ \E q : outbox' = [outbox EXCEPT ![d] = @ \union {q}] /\ q.op = o

(* A local mutation adds and queues one new operation that supersedes      *)
(* everything its author has stored.                                       *)
LEMMA LocalWriteAdds ==
  ASSUME ReplicaInv, NEW d \in Device, NEW r \in Record, LocalWrite(d, r)
  PROVE  \E o : Writes(d, o)
<1> USE DEF ReplicaInv, TypeInv
<1>1. PICK id \in 1 .. MaxWrites, sec \in {0} \union {q.sec : q \in outbox[d]}, later \in 0 .. 1 :
        /\ \A p \in AllOps : p.id # id
        /\ CommitOutgoing(d, BuildOperation(d, r, id), sec + later)
  BY DEF LocalWrite
<1> DEFINE o == BuildOperation(d, r, id)
<1>2. /\ o \in Op /\ o.dev = d /\ o.rec = r /\ o.id = id
      /\ o.seq = deviceHeads[d][d] + 1 /\ o.front = deviceHeads[d]
  BY DEF BuildOperation, Op, TypeOK
<1>3. CommitOutgoing(d, o, sec + later)
  BY <1>1
<1> HIDE DEF o
<1>4. \A e \in Device : deviceHeads[d][e] \in Nat
  BY DEF TypeOK
<1>5. Adds(d, o)
  BY <1>2, <1>3, <1>4 DEF Adds, CommitOutgoing
<1>6. \A p \in stored[d] : Past(p, o)
  <2> SUFFICES ASSUME NEW p \in stored[d] PROVE deviceHeads[d][p.dev] >= p.seq
    BY <1>2 DEF Past
  <2>1. p \in Op /\ p.seq <= deviceHeads[d][p.dev]
    BY StoredType DEF HeadsCover
  <2> QED BY <1>4, <2>1 DEF Op
<1>7. \E q : outbox' = [outbox EXCEPT ![d] = @ \union {q}] /\ q.op = o
  <2> DEFINE q == [op |-> o, sec |-> sec + later, next |-> 0, due |-> TRUE, code |-> "none"]
  <2>1. outbox' = [outbox EXCEPT ![d] = @ \union {q}] /\ q.op = o
    BY <1>3 DEF CommitOutgoing
  <2> QED BY <2>1
<1>8. /\ recordHeads' = [recordHeads EXCEPT ![d][o.rec] = {o}]
      /\ live' = [live EXCEPT ![d][o.rec] = {o}]
      /\ conflicts' = [conflicts EXCEPT ![d][o.rec] = {}]
  BY <1>3 DEF CommitOutgoing
<1>9. o.dev = d /\ o.rec = r /\ \A p \in AllOps : p.id # o.id
  BY <1>1, <1>2
<1>10. Writes(d, o)
  BY <1>5, <1>6, <1>7, <1>8, <1>9 DEF Writes
<1> QED BY <1>10

(* A local mutation keeps the invariant. *)
LEMMA LocalWritePreserves ==
  ASSUME ReplicaInv, NEW d \in Device, NEW r \in Record, LocalWrite(d, r)
  PROVE  WellFormed' /\ HeadsCover' /\ NoGaps' /\ Unique' /\ ViewIsMerge'
<1> USE DEF ReplicaInv, TypeInv
<1>1. PICK o : Writes(d, o)
  BY LocalWriteAdds
<1>2. o \in Op /\ NewTo(o, stored[d]) /\ stored[d] \in SUBSET Op
  BY <1>1, AddsNewTo, StoredType DEF Adds, Writes
<1>3. Maximal(stored[d] \union {o}, o.rec) = {o}
  <2>1. Maximal(stored[d] \union {o}, o.rec) =
          {h \in Maximal(stored[d], o.rec) : ~Past(h, o)} \union {o}
    BY <1>2, MaximalStep
  <2>2. Maximal(stored[d], o.rec) \subseteq stored[d]
    BY DEF Maximal
  <2> QED BY <1>1, <2>1, <2>2 DEF Writes
<1>4. Maximal(stored'[d], o.rec) = {o}
  BY <1>1, <1>3, AddsAllOps DEF Writes
<1>5. ValueOf({o}) = {o} /\ ConflictOf({o}) = {}
  BY <1>2, LeastIdSingleton DEF ValueOf, ConflictOf
<1>6. ViewIsMerge'
  BY <1>1, <1>4, <1>5, AddsView DEF Writes
<1>7. WellFormed' /\ HeadsCover' /\ NoGaps' /\ Unique'
  BY <1>1, AddsPreserves DEF Writes
<1> QED BY <1>6, <1>7

-----------------------------------------------------------------------------
(* Which steps change what a vault stores. *)

(* The records of every vault stay as they are. *)
Quiet == UNCHANGED <<stored, deviceHeads, recordHeads, live, conflicts>>

(* Only a local mutation, a row of a page and a row of a repair change     *)
(* what a vault stores.                                                    *)
LEMMA StepKinds ==
  ASSUME TypeInv, [Next]_vars
  PROVE  \/ Quiet
         \/ \E d \in Device, r \in Record : LocalWrite(d, r)
         \/ \E d \in Device : \E row \in cycle[d].rows : RowApply(d, row)
         \/ \E d \in Device : \E row \in cycle[d].got : RepairApply(d, row)
<1>1. ASSUME NEW d \in Device, \/ BeginCycle(d) \/ FinishPush(d) \/ TimeStep(d)
      PROVE  Quiet
  BY <1>1 DEF BeginCycle, FinishPush, TimeStep, RetryTimeComes, Quiet
<1>2. ASSUME UNCHANGED vault PROVE Quiet
  BY <1>2 DEF vault, Quiet
<1>3. ASSUME NEW d \in Device,
             \/ PushServed(d) \/ PageServed(d) \/ FinishPage(d) \/ PageDone(d) \/ RangeServed(d)
             \/ FinishRange(d) \/ RepairDone(d) \/ SessionChanged(d) \/ PushLost(d)
             \/ PushRefused(d) \/ PullLost(d) \/ LateArrival(d) \/ Crash(d)
      PROVE  UNCHANGED vault
  BY <1>3
  DEF PushServed, PageServed, FinishPage, PageDone, RangeServed, FinishRange, RepairDone,
      SessionChanged, PushLost, PushRefused, PullLost, LateArrival, Crash
<1>4. ASSUME NEW d \in Device, NEW row, RepairSkip(d, row) \/ RepairReplay(d, row)
      PROVE  UNCHANGED vault
  BY <1>4 DEF RepairSkip, RepairReplay
<1>5. ASSUME NEW d \in Device, NEW row,
             \/ RowSkip(d, row) \/ RowReplay(d, row) \/ RowQuarantine(d, row) \/ RowGap(d, row)
             \/ RepairQuarantine(d, row) \/ QuarantineBlocker(d)
      PROVE  Quiet
  BY <1>5
  DEF RowSkip, RowReplay, RowQuarantine, RowGap, RepairQuarantine, QuarantineBlocker,
      UnchangedRecords, Quiet
<1>6. ASSUME NEW row, TamperRow(row) PROVE UNCHANGED vault
  BY <1>6 DEF TamperRow
<1>7. ASSUME UNCHANGED vars PROVE UNCHANGED vault
  BY <1>7 DEF vars
<1>8. CASE UNCHANGED vars
  BY <1>2, <1>7, <1>8
<1>9. CASE \E row \in server : TamperRow(row)
  BY <1>2, <1>6, <1>9
<1>10. ASSUME NEW d \in Device, CycleStep(d)
       PROVE  \/ Quiet
              \/ \E row \in cycle[d].rows : RowApply(d, row)
              \/ \E row \in cycle[d].got : RepairApply(d, row)
  BY <1>1, <1>2, <1>3, <1>4, <1>5, <1>10 DEF CycleStep, RowStep, RepairStep
<1>11. ASSUME NEW d \in Device,
              \/ TimeStep(d) \/ SessionChanged(d) \/ PushLost(d) \/ PushRefused(d) \/ PullLost(d)
              \/ LateArrival(d) \/ Crash(d)
       PROVE  Quiet
  BY <1>1, <1>2, <1>3, <1>11
<1> QED BY <1>8, <1>9, <1>10, <1>11 DEF Next

(* An admitted row is one that some vault committed. *)
LEMMA AppliedRow ==
  ASSUME ReplicaInv, NEW d \in Device, NEW row \in cycle[d].rows \union cycle[d].got
  PROVE  row \in Row /\ row.op \in AllOps
BY CycleType DEF ReplicaInv, TypeInv, Carried

(* No step removes an operation from a vault. *)
LEMMA StoredGrows ==
  ASSUME ReplicaInv, [Next]_vars
  PROVE  /\ \A d \in Device : stored[d] \subseteq stored'[d]
         /\ AllOps \subseteq AllOps'
<1> USE DEF ReplicaInv, TypeInv
<1>1. ASSUME NEW d \in Device, NEW o, Adds(d, o)
      PROVE  /\ \A e \in Device : stored[e] \subseteq stored'[e]
             /\ AllOps \subseteq AllOps'
  BY <1>1, AddsAllOps
<1>2. CASE Quiet
  BY <1>2 DEF Quiet, AllOps
<1>3. ASSUME NEW d \in Device, NEW r \in Record, LocalWrite(d, r) PROVE \E o : Adds(d, o)
  BY <1>3, LocalWriteAdds DEF Writes
<1>4. ASSUME NEW d \in Device, NEW row \in cycle[d].rows, RowApply(d, row) PROVE Adds(d, row.op)
  BY <1>4, AppliedRow, AdmittedAdds DEF RowApply
<1>5. ASSUME NEW d \in Device, NEW row \in cycle[d].got, RepairApply(d, row) PROVE Adds(d, row.op)
  BY <1>5, AppliedRow, AdmittedAdds DEF RepairApply
<1> QED BY <1>1, <1>2, <1>3, <1>4, <1>5, StepKinds

-----------------------------------------------------------------------------
(* Operations in transit. *)

RowsOf(c) == c.rows \union c.blocker \union c.got

(* A cycle that takes its rows from the provider or from its own last      *)
(* state carries committed operations only.                                *)
LEMMA CycleCarried ==
  ASSUME TypeOK, Carried, AllOps \subseteq AllOps', NEW d \in Device, NEW c, CycleBecomes(d, c),
         UNCHANGED <<server, outbox, wire>>,
         c.batch \in {cycle[d].batch, {}},
         RowsOf(c) \subseteq RowsOf(cycle[d]) \union server
  PROVE  Carried'
<1>1. cycle'[d] = c /\ \A e \in Device : e # d => cycle'[e] = cycle[e]
  BY DEF CycleBecomes, TypeOK
<1>2. \A row \in RowsOf(c) : row.op \in AllOps'
  BY DEF Carried, RowsOf
<1>3. \A b \in c.batch : b.op \in AllOps'
  BY DEF Carried
<1>4. \A e \in Device :
        /\ \A b \in cycle'[e].batch : b.op \in AllOps'
        /\ \A row \in cycle'[e].rows \union cycle'[e].blocker \union cycle'[e].got : row.op \in AllOps'
  BY <1>1, <1>2, <1>3 DEF Carried, RowsOf
<1> QED BY <1>4 DEF Carried

(* The provider holds what was pushed and nothing else. *)
LEMMA ServerAppendCarried ==
  ASSUME NEW batch, NEW outcome, ServerAppend(batch, outcome)
  PROVE  \A row \in server' : \/ \E x \in server : x.op = row.op
                              \/ \E b \in batch : b.op = row.op
<1> DEFINE new == Unseen(batch)
<1>1. new \subseteq batch
  BY DEF Unseen
<1> HIDE DEF new
<1>2. CASE /\ clock' = IF new = {} THEN clock ELSE clock + 1
           /\ server' = server \union {[op |-> b.op, at |-> clock + 1, ok |-> TRUE] : b \in new}
  BY <1>1, <1>2
<1>3. CASE \E h \in {0} \union {row.op.seq : row \in server}, n \in 0 .. MaxBatch :
             /\ InSequence(new, h, n)
             /\ clock' = clock + n
             /\ server' = server \union
                  {[op |-> b.op, at |-> clock + (b.op.seq - h), ok |-> TRUE] : b \in new}
  BY <1>1, <1>3
<1>4. CASE UNCHANGED <<server, clock>>
  BY <1>4
<1> QED BY <1>2, <1>3, <1>4 DEF ServerAppend, new

(* Every step keeps operations in transit committed ones. *)
LEMMA CarriedStep ==
  ASSUME ReplicaInv, [Next]_vars
  PROVE  Carried'
<1> USE DEF ReplicaInv, TypeInv
<1>0. AllOps \subseteq AllOps'
  BY StoredGrows
<1>1. ASSUME NEW d \in Device, NEW r \in Record, LocalWrite(d, r) PROVE Carried'
  <2>1. PICK o : Writes(d, o)
    BY <1>1, LocalWriteAdds
  <2>2. PICK q : outbox' = [outbox EXCEPT ![d] = @ \union {q}] /\ q.op = o
    BY <2>1 DEF Writes
  <2>3. o \in AllOps'
    BY <2>1, AddsAllOps DEF Writes
  <2>4. \A e \in Device : \A x \in outbox'[e] : x.op \in AllOps'
    BY <1>0, <2>2, <2>3 DEF Carried, TypeOK
  <2>5. UNCHANGED <<server, wire, cycle>>
    BY <1>1 DEF LocalWrite
  <2> QED BY <1>0, <2>4, <2>5 DEF Carried
<1>2. ASSUME NEW d \in Device, NEW c, CycleBecomes(d, c), UNCHANGED <<server, outbox, wire>>,
             c.batch \in {cycle[d].batch, {}},
             RowsOf(c) \subseteq RowsOf(cycle[d]) \union server
      PROVE  Carried'
  BY <1>0, <1>2, CycleCarried
<1>3. ASSUME NEW d \in Device, CycleBecomes(d, Idle), UNCHANGED <<server, outbox, wire>>
      PROVE  Carried'
  BY <1>2, <1>3, IdleType DEF RowsOf
<1>4. \A d \in Device : cycle[d] \in CycleState
  BY CycleType
<1>5. \A d \in Device : \A phase, resp :
        /\ InPhase(cycle[d], phase).batch = cycle[d].batch
        /\ RowsOf(InPhase(cycle[d], phase)) = RowsOf(cycle[d])
        /\ Answered(cycle[d], resp).batch = cycle[d].batch
        /\ RowsOf(Answered(cycle[d], resp)) = RowsOf(cycle[d])
  BY <1>4 DEF InPhase, Answered, RowsOf, CycleState
<1>6. ASSUME NEW d \in Device, NEW phase, CycleBecomes(d, InPhase(cycle[d], phase)),
             UNCHANGED <<server, outbox, wire>>
      PROVE  Carried'
  BY <1>2, <1>5, <1>6
<1>7. ASSUME NEW d \in Device, BeginCycle(d) PROVE Carried'
  <2>1. PICK k \in {0} \union {q.next : q \in outbox[d]} :
          LET rows  == IF newSession[d] THEN Unblocked(outbox[d], k) ELSE outbox[d]
              batch == DueOutbox(rows)
          IN  /\ outbox' = [outbox EXCEPT ![d] = rows]
              /\ CycleBecomes(d, IF batch = {} THEN PullFrom(cursor[d]) ELSE Pushing(batch))
    BY <1>7 DEF BeginCycle
  <2> DEFINE rows  == IF newSession[d] THEN Unblocked(outbox[d], k) ELSE outbox[d]
             batch == DueOutbox(rows)
             c == IF batch = {} THEN PullFrom(cursor[d]) ELSE Pushing(batch)
  <2>2. \A q \in outbox[d] : [q EXCEPT !.code = "none", !.due = TRUE, !.next = k + 1].op = q.op
    BY CycleType DEF OutboxRow
  <2>3. \A q \in rows : q.op \in AllOps
    <3> SUFFICES ASSUME NEW q \in rows PROVE \E x \in outbox[d] : q.op = x.op
      BY DEF Carried
    <3>1. PICK x \in outbox[d] :
            q = x \/ q = [x EXCEPT !.code = "none", !.due = TRUE, !.next = k + 1]
      BY DEF Unblocked
    <3> QED BY <2>2, <3>1
  <2>4. \A q \in batch : q.op \in AllOps
    BY <2>3 DEF DueOutbox
  <2> HIDE DEF rows, batch
  <2>5. c.batch \subseteq batch /\ RowsOf(c) = {}
    BY IdleType DEF PullFrom, Pushing, RowsOf, CycleState
  <2> HIDE DEF c
  <2>6. outbox' = [outbox EXCEPT ![d] = rows] /\ CycleBecomes(d, c)
    BY <2>1 DEF rows, batch, c
  <2>7. \A e \in Device : \A q \in outbox'[e] : q.op \in AllOps'
    BY <1>0, <2>3, <2>6 DEF Carried, TypeOK
  <2>8. \A e \in Device : \A b \in cycle'[e].batch : b.op \in AllOps'
    BY <1>0, <2>4, <2>5, <2>6 DEF Carried, CycleBecomes, TypeOK
  <2>9. \A e \in Device : \A row \in cycle'[e].rows \union cycle'[e].blocker \union cycle'[e].got :
          row.op \in AllOps'
    BY <1>0, <2>5, <2>6 DEF Carried, CycleBecomes, TypeOK, RowsOf
  <2>10. UNCHANGED <<server, wire>>
    BY <1>7 DEF BeginCycle
  <2> QED BY <1>0, <2>7, <2>8, <2>9, <2>10 DEF Carried
<1>8. ASSUME NEW d \in Device, NEW resp, CycleBecomes(d, Answered(cycle[d], resp))
      PROVE  \A e \in Device :
               /\ \A b \in cycle'[e].batch : b.op \in AllOps'
               /\ \A row \in cycle'[e].rows \union cycle'[e].blocker \union cycle'[e].got :
                    row.op \in AllOps'
  <2>1. cycle'[d] = Answered(cycle[d], resp) /\ \A e \in Device : e # d => cycle'[e] = cycle[e]
    BY <1>8 DEF CycleBecomes, TypeOK
  <2>2. cycle'[d].batch = cycle[d].batch /\ RowsOf(cycle'[d]) = RowsOf(cycle[d])
    BY <1>5, <2>1
  <2> QED BY <1>0, <2>1, <2>2 DEF Carried, RowsOf
<1>9. ASSUME NEW d \in Device, PushServed(d) PROVE Carried'
  <2>1. PICK outcome \in {"ok", "integrity_quarantined"} :
          /\ ServerAppend(cycle[d].batch, outcome)
          /\ CycleBecomes(d, Answered(cycle[d], outcome))
    BY <1>9 DEF PushServed
  <2>2. \A row \in server' : row.op \in AllOps'
    BY <1>0, <2>1, ServerAppendCarried DEF Carried
  <2>3. UNCHANGED <<wire, outbox>>
    BY <1>9 DEF PushServed, vault
  <2> QED BY <1>0, <1>8, <2>1, <2>2, <2>3 DEF Carried
<1>10. ASSUME NEW d \in Device, LateArrival(d) PROVE Carried'
  <2>1. PICK batch \in wire[d] :
          /\ \E outcome \in {"ok", "integrity_quarantined"} : ServerAppend(batch, outcome)
          /\ wire' = [wire EXCEPT ![d] = @ \ {batch}]
          /\ UNCHANGED <<vault, newSession, cycle, bounds>>
    BY <1>10 DEF LateArrival
  <2>2. \A row \in server' : row.op \in AllOps'
    BY <1>0, <2>1, ServerAppendCarried DEF Carried
  <2>3. \A e \in Device : \A x \in wire'[e] : \A b \in x : b.op \in AllOps'
    BY <1>0, <2>1 DEF Carried, TypeOK
  <2> QED BY <1>0, <2>1, <2>2, <2>3 DEF Carried, vault
<1>11. ASSUME NEW d \in Device, NEW sent \in Prefixes(cycle[d].batch) \union {{}},
              wire' = [wire EXCEPT ![d] = @ \union ({sent} \ {{}})]
       PROVE  \A e \in Device : \A x \in wire'[e] : \A b \in x : b.op \in AllOps'
  <2>1. sent \subseteq cycle[d].batch
    BY DEF Prefixes
  <2>2. \A b \in sent : b.op \in AllOps
    BY <2>1 DEF Carried
  <2> QED BY <1>0, <1>11, <2>2 DEF Carried, TypeOK
<1>12. ASSUME NEW d \in Device, PushLost(d) PROVE Carried'
  <2>1. \A e \in Device : \A x \in wire'[e] : \A b \in x : b.op \in AllOps'
    BY <1>11, <1>12 DEF PushLost
  <2>2. UNCHANGED <<server, outbox>>
    BY <1>12 DEF PushLost, vault
  <2>3. CASE UNCHANGED cycle
    BY <1>0, <2>1, <2>2, <2>3 DEF Carried
  <2>4. CASE CycleBecomes(d, Answered(cycle[d], "transient"))
    BY <1>0, <1>8, <2>1, <2>2, <2>4 DEF Carried
  <2> QED BY <1>12, <2>3, <2>4 DEF PushLost
<1>13. ASSUME NEW d \in Device, Crash(d) PROVE Carried'
  <2>1. \A e \in Device : \A x \in wire'[e] : \A b \in x : b.op \in AllOps'
    BY <1>11, <1>13 DEF Crash
  <2>2. CycleBecomes(d, Idle) /\ UNCHANGED <<server, outbox>>
    BY <1>13 DEF Crash, vault
  <2>3. \A e \in Device : cycle'[e] = cycle[e] \/ cycle'[e] = Idle
    BY <2>2 DEF CycleBecomes, TypeOK
  <2> QED BY <1>0, <2>1, <2>2, <2>3, IdleType DEF Carried
<1>14. ASSUME NEW d \in Device, PushRefused(d) PROVE Carried'
  <2>1. PICK code \in Refusals : CycleBecomes(d, Answered(cycle[d], code))
    BY <1>14 DEF PushRefused
  <2> QED BY <1>2, <1>5, <1>14, <2>1 DEF PushRefused, vault
<1>15. ASSUME NEW d \in Device, FinishPush(d) PROVE Carried'
  <2>1. \A q \in outbox[d] : \A code : [q EXCEPT !.code = code, !.due = FALSE, !.next = 0].op = q.op
    BY CycleType DEF OutboxRow
  <2>2. \A q \in Deferred(outbox[d], cycle[d].batch, cycle[d].resp) : q.op \in AllOps
    <3> SUFFICES ASSUME NEW q \in Deferred(outbox[d], cycle[d].batch, cycle[d].resp)
                 PROVE  \E x \in outbox[d] : q.op = x.op
      BY DEF Carried
    <3>1. PICK x \in outbox[d] :
            q = x \/ q = [x EXCEPT !.code = cycle[d].resp, !.due = FALSE, !.next = 0]
      BY DEF Deferred
    <3> QED BY <2>1, <3>1
  <2>3. \A q \in Acknowledged(outbox[d], cycle[d].batch) : q.op \in AllOps
    BY DEF Acknowledged, Carried
  <2>4. \A e \in Device : \A q \in outbox'[e] : q.op \in AllOps'
    BY <1>0, <1>15, <2>2, <2>3 DEF FinishPush, Carried, TypeOK
  <2>5. PullFrom(cursor[d]).batch = {} /\ RowsOf(PullFrom(cursor[d])) = {}
    BY IdleType DEF PullFrom, RowsOf, CycleState
  <2>6. \A e \in Device : cycle'[e] \in {cycle[e], Idle, PullFrom(cursor[d])}
    BY <1>15 DEF FinishPush, CycleBecomes, TypeOK
  <2>7. \A e \in Device :
          /\ \A b \in cycle'[e].batch : b.op \in AllOps'
          /\ \A row \in cycle'[e].rows \union cycle'[e].blocker \union cycle'[e].got : row.op \in AllOps'
    BY <1>0, <2>5, <2>6, IdleType DEF Carried, RowsOf
  <2> QED BY <1>0, <1>15, <2>4, <2>7 DEF FinishPush, Carried
<1>16. ASSUME NEW d \in Device, PageServed(d) PROVE Carried'
  <2> DEFINE page == Page(cycle[d].after, Smaller(MaxOperations - cycle[d].processed, MaxBatch))
             c == [cycle[d] EXCEPT !.phase = "page", !.rows = page]
  <2>1. page \subseteq server
    BY DEF Page
  <2> HIDE DEF page
  <2>2. c.batch = cycle[d].batch /\ RowsOf(c) \subseteq RowsOf(cycle[d]) \union page
    BY <1>4 DEF CycleState, RowsOf
  <2>3. CycleBecomes(d, c) /\ UNCHANGED <<server, outbox, wire>>
    BY <1>16 DEF PageServed, vault, page
  <2> HIDE DEF c
  <2> QED BY <1>2, <2>1, <2>2, <2>3
<1>17. ASSUME NEW d \in Device, FinishPage(d) \/ FinishRange(d) PROVE Carried'
  <2>1. \/ CycleBecomes(d, Idle) \/ CycleBecomes(d, InPhase(cycle[d], "rows"))
        \/ CycleBecomes(d, InPhase(cycle[d], "repair"))
    BY <1>17 DEF FinishPage, FinishRange
  <2>2. UNCHANGED <<server, outbox, wire>>
    BY <1>17 DEF FinishPage, FinishRange, vault
  <2> QED BY <1>3, <1>6, <2>1, <2>2
<1>18. ASSUME NEW d \in Device, NEW row \in cycle[d].rows,
              RowSkip(d, row) \/ RowReplay(d, row) \/ RowApply(d, row) \/ RowQuarantine(d, row)
       PROVE  Carried'
  <2>1. UNCHANGED <<server, outbox, wire>>
    BY <1>18 DEF RowSkip, RowReplay, RowApply, RowQuarantine, Elsewhere
  <2>2. CycleBecomes(d, Idle) \/ CycleBecomes(d, Processed(cycle[d], row))
    BY <1>18 DEF RowSkip, RowReplay, RowApply, RowQuarantine
  <2>3. /\ Processed(cycle[d], row).batch = cycle[d].batch
        /\ RowsOf(Processed(cycle[d], row)) \subseteq RowsOf(cycle[d])
    BY <1>4 DEF Processed, RowsOf, CycleState
  <2> QED BY <1>2, <1>3, <2>1, <2>2, <2>3
<1>19. ASSUME NEW d \in Device, NEW c \in CycleState, CycleBecomes(d, NextRepair(c, cursor[d])),
              c.batch = cycle[d].batch, RowsOf(c) \subseteq RowsOf(cycle[d]),
              UNCHANGED <<server, outbox, wire>>
       PROVE  Carried'
  <2>1. \/ NextRepair(c, cursor[d]) = Idle
        \/ /\ NextRepair(c, cursor[d]).batch = c.batch
           /\ RowsOf(NextRepair(c, cursor[d])) = RowsOf(c)
    BY DEF NextRepair, CycleState, RowsOf
  <2> QED BY <1>2, <1>3, <1>19, <2>1
<1>20. ASSUME NEW d \in Device, NEW row \in cycle[d].rows, RowGap(d, row) PROVE Carried'
  <2> DEFINE c == Blocked(cycle[d], row, deviceHeads[d][row.op.dev])
  <2>1. row \in Row /\ row.op \in Op
    BY CycleType DEF Row
  <2>2. deviceHeads[d][row.op.dev] + 1 \in Nat /\ row.op.seq - 1 \in Nat
    BY <2>1 DEF Op, TypeOK
  <2>3. c \in CycleState /\ c.batch = cycle[d].batch
    BY <1>4, <2>1, <2>2 DEF CycleState, Blocked
  <2>4. RowsOf(c) \subseteq RowsOf(cycle[d])
    BY <1>4 DEF CycleState, Blocked, RowsOf
  <2>5. UNCHANGED <<server, outbox, wire>>
    BY <1>20 DEF RowGap, Elsewhere
  <2>6. CycleBecomes(d, Idle) \/ CycleBecomes(d, NextRepair(c, cursor[d]))
    BY <1>20 DEF RowGap
  <2> HIDE DEF c
  <2> QED BY <1>3, <1>19, <2>3, <2>4, <2>5, <2>6
<1>21. ASSUME NEW d \in Device, PageDone(d) PROVE Carried'
  <2>1. \/ NextPage(cycle[d], cursor[d]) = Idle
        \/ /\ NextPage(cycle[d], cursor[d]).batch = cycle[d].batch
           /\ RowsOf(NextPage(cycle[d], cursor[d])) = RowsOf(cycle[d])
    BY <1>4 DEF NextPage, CycleState, RowsOf
  <2>2. CycleBecomes(d, NextPage(cycle[d], cursor[d])) /\ UNCHANGED <<server, outbox, wire>>
    BY <1>21 DEF PageDone, vault
  <2> QED BY <1>2, <1>3, <2>1, <2>2
<1>22. ASSUME NEW d \in Device, RangeServed(d) PROVE Carried'
  <2>1. PICK b \in cycle[d].blocker :
          CycleBecomes(d, [cycle[d] EXCEPT !.phase = "ranged",
                             !.got = DeviceRange(b.op.dev, cycle[d].next, cycle[d].upto)])
    BY <1>22 DEF RangeServed
  <2> DEFINE range == DeviceRange(b.op.dev, cycle[d].next, cycle[d].upto)
             c == [cycle[d] EXCEPT !.phase = "ranged", !.got = range]
  <2>2. range \subseteq server
    BY DEF DeviceRange
  <2> HIDE DEF range
  <2>3. c.batch = cycle[d].batch /\ RowsOf(c) \subseteq RowsOf(cycle[d]) \union range
    BY <1>4 DEF CycleState, RowsOf
  <2>4. CycleBecomes(d, c) /\ UNCHANGED <<server, outbox, wire>>
    BY <1>22, <2>1 DEF range, RangeServed, vault
  <2> HIDE DEF c
  <2> QED BY <1>2, <2>2, <2>3, <2>4
<1>23. ASSUME NEW d \in Device, NEW row \in cycle[d].got,
              RepairSkip(d, row) \/ RepairQuarantine(d, row)
       PROVE  Carried'
  <2>1. CycleBecomes(d, Idle) \/ CycleBecomes(d, InPhase(cycle[d], "blocked"))
    BY <1>23 DEF RepairSkip, RepairQuarantine
  <2>2. UNCHANGED <<server, outbox, wire>>
    BY <1>23 DEF RepairSkip, RepairQuarantine, vault, Elsewhere
  <2> QED BY <1>3, <1>6, <2>1, <2>2
<1>24. ASSUME NEW d \in Device, NEW row \in cycle[d].got,
              RepairReplay(d, row) \/ RepairApply(d, row)
       PROVE  Carried'
  <2>1. CycleBecomes(d, Repaired(cycle[d], row)) /\ UNCHANGED <<server, outbox, wire>>
    BY <1>24 DEF RepairReplay, RepairApply, vault, Elsewhere
  <2>2. /\ Repaired(cycle[d], row).batch = cycle[d].batch
        /\ RowsOf(Repaired(cycle[d], row)) \subseteq RowsOf(cycle[d])
    BY <1>4 DEF Repaired, RowsOf, CycleState
  <2> QED BY <1>2, <2>1, <2>2
<1>25. ASSUME NEW d \in Device, QuarantineBlocker(d) PROVE Carried'
  <2> DEFINE c == [cycle[d] EXCEPT !.phase = "rows", !.blocker = {}, !.got = {}, !.processed = @ + 1]
  <2>1. CycleBecomes(d, Idle) \/ CycleBecomes(d, c)
    BY <1>25 DEF QuarantineBlocker
  <2>2. UNCHANGED <<server, outbox, wire>>
    BY <1>25 DEF QuarantineBlocker, Elsewhere
  <2>3. c.batch = cycle[d].batch /\ RowsOf(c) \subseteq RowsOf(cycle[d])
    BY <1>4 DEF CycleState, RowsOf
  <2> HIDE DEF c
  <2> QED BY <1>2, <1>3, <2>1, <2>2, <2>3
<1>26. ASSUME NEW d \in Device, RepairDone(d) PROVE Carried'
  <2> DEFINE again == [cycle[d] EXCEPT !.next = cycle[d].upto + 1]
             back  == [cycle[d] EXCEPT !.phase = "rows", !.rows = @ \union cycle[d].blocker,
                         !.blocker = {}, !.repaired = TRUE]
  <2>1. again \in CycleState /\ again.batch = cycle[d].batch /\ RowsOf(again) = RowsOf(cycle[d])
    BY <1>4 DEF CycleState, RowsOf
  <2>2. back.batch = cycle[d].batch /\ RowsOf(back) = RowsOf(cycle[d])
    BY <1>4 DEF CycleState, RowsOf
  <2>3. CycleBecomes(d, NextRepair(again, cursor[d])) \/ CycleBecomes(d, back)
    BY <1>26 DEF RepairDone
  <2>4. UNCHANGED <<server, outbox, wire>>
    BY <1>26 DEF RepairDone, vault
  <2> HIDE DEF again, back
  <2> QED BY <1>2, <1>19, <2>1, <2>2, <2>3, <2>4
<1>27. ASSUME NEW d \in Device, NEW row \in outbox[d], RetryTimeComes(d, row) PROVE Carried'
  <2>1. PICK k \in {0} \union {q.next : q \in outbox[d]} :
          outbox' = [outbox EXCEPT ![d] = (@ \ {row}) \union
                      {[row EXCEPT !.due = TRUE, !.next = k + 1]}]
    BY <1>27 DEF RetryTimeComes
  <2>2. [row EXCEPT !.due = TRUE, !.next = k + 1].op = row.op
    BY CycleType DEF OutboxRow
  <2>3. \A e \in Device : \A q \in outbox'[e] : q.op \in AllOps'
    BY <1>0, <2>1, <2>2 DEF Carried, TypeOK
  <2> QED BY <1>0, <1>27, <2>3 DEF RetryTimeComes, Carried
<1>28. ASSUME NEW d \in Device, PullLost(d) PROVE Carried'
  BY <1>3, <1>28 DEF PullLost, vault
<1>29. ASSUME NEW row \in server, TamperRow(row) PROVE Carried'
  <2>1. [row EXCEPT !.ok = FALSE].op = row.op
    BY DEF TypeOK, Row
  <2>2. \A x \in server' : x.op \in AllOps'
    BY <1>0, <1>29, <2>1 DEF TamperRow, Carried
  <2> QED BY <1>0, <1>29, <2>2 DEF TamperRow, Carried, vault
<1>30. ASSUME NEW d \in Device, SessionChanged(d) PROVE Carried'
  BY <1>0, <1>30 DEF SessionChanged, Carried, vault
<1>31. CASE UNCHANGED vars
  BY <1>0, <1>31 DEF vars, vault, Carried
<1> QED
  BY <1>1, <1>7, <1>9, <1>10, <1>12, <1>13, <1>14, <1>15, <1>16, <1>17, <1>18, <1>20, <1>21,
     <1>22, <1>23, <1>24, <1>25, <1>26, <1>27, <1>28, <1>29, <1>30, <1>31
  DEF Next, CycleStep, TimeStep, RowStep, RepairStep

-----------------------------------------------------------------------------
(* The inductive invariant. *)

(* The invariant holds initially. *)
LEMMA ReplicaInit == Init => ReplicaInv
<1> SUFFICES ASSUME Init PROVE ReplicaInv
  OBVIOUS
<1>1. TypeInv
  BY TypeInit
<1>2. AllOps = {}
  BY DEF Init, AllOps
<1>3. Carried
  BY IdleType DEF Init, Carried
<1>4. WellFormed /\ Unique
  BY <1>2 DEF WellFormed, Unique
<1>5. HeadsCover /\ NoGaps
  BY DEF Init, HeadsCover, NoGaps
<1>6. ViewIsMerge
  <2>1. \A r \in Record : Maximal({}, r) = {}
    BY DEF Maximal
  <2>2. ValueOf({}) = {} /\ ConflictOf({}) = {}
    BY DEF ValueOf, ConflictOf
  <2> QED BY <2>1, <2>2 DEF Init, ViewIsMerge
<1> QED BY <1>1, <1>3, <1>4, <1>5, <1>6 DEF ReplicaInv

(* Every step preserves the invariant. *)
LEMMA ReplicaStep ==
  ASSUME ReplicaInv, [Next]_vars
  PROVE  ReplicaInv'
<1>1. TypeInv' /\ Carried'
  BY TypeOKStep, FiniteStep, RepairWithinBudgetStep, CarriedStep DEF ReplicaInv, TypeInv
<1>2. ASSUME Quiet PROVE WellFormed' /\ HeadsCover' /\ NoGaps' /\ Unique' /\ ViewIsMerge'
  <2>1. AllOps' = AllOps
    BY <1>2 DEF Quiet, AllOps
  <2>2. WellFormed' /\ Unique'
    BY <1>2, <2>1 DEF Quiet, ReplicaInv, WellFormed, Unique
  <2>3. HeadsCover' /\ NoGaps' /\ ViewIsMerge'
    BY <1>2 DEF Quiet, ReplicaInv, HeadsCover, NoGaps, ViewIsMerge
  <2> QED BY <2>2, <2>3
<1>3. ASSUME NEW d \in Device, NEW row \in cycle[d].rows, RowApply(d, row)
      PROVE  WellFormed' /\ HeadsCover' /\ NoGaps' /\ Unique' /\ ViewIsMerge'
  BY <1>3, AppliedRow, AppliedPreserves DEF RowApply
<1>4. ASSUME NEW d \in Device, NEW row \in cycle[d].got, RepairApply(d, row)
      PROVE  WellFormed' /\ HeadsCover' /\ NoGaps' /\ Unique' /\ ViewIsMerge'
  BY <1>4, AppliedRow, AppliedPreserves DEF RepairApply
<1>5. TypeInv
  BY DEF ReplicaInv
<1> QED BY <1>1, <1>2, <1>3, <1>4, <1>5, StepKinds, LocalWritePreserves DEF ReplicaInv

(* The invariant the safety properties follow from: what every vault has   *)
(* stored and shows is determined by its device heads, through admission,  *)
(* repair, faults and crashes.                                             *)
THEOREM ReplicaInvariant == Spec => []ReplicaInv
BY ReplicaInit, ReplicaStep, PTL DEF Spec

-----------------------------------------------------------------------------
(* What the invariant means for a user. *)

(* A device never stores an operation without its whole causal past: the   *)
(* checks of admit_operation, gap repair and the per-row transactions keep *)
(* every vault causally closed for any number of devices and operations.   *)
THEOREM CausallyClosedAlways == Spec => []CausallyClosed
<1>1. ReplicaInv => CausallyClosed
  <2> SUFFICES ASSUME ReplicaInv, NEW d \in Device, NEW o \in stored[d], NEW e \in Device,
                      NEW n \in 1 .. o.front[e]
               PROVE  \E p \in stored[d] : p.dev = e /\ p.seq = n
    BY DEF CausallyClosed
  <2>1. o \in Op /\ o.front[e] \in Nat /\ deviceHeads[d][e] \in Nat
    BY StoredType DEF ReplicaInv, TypeInv, TypeOK, Op
  <2>2. o.front[e] <= deviceHeads[d][e]
    BY DEF ReplicaInv, HeadsCover
  <2>3. n \in 1 .. deviceHeads[d][e]
    BY <2>1, <2>2
  <2> QED BY <2>3 DEF ReplicaInv, NoGaps
<1> QED BY <1>1, ReplicaInvariant, PTL

(* decide_merge and the writes of apply_verified_in_transaction always     *)
(* leave heads, live value and conflict of a record as a function of what  *)
(* is stored.                                                              *)
THEOREM ViewIsMergeAlways == Spec => []ViewIsMerge
<1>1. ReplicaInv => ViewIsMerge
  BY DEF ReplicaInv
<1> QED BY <1>1, ReplicaInvariant, PTL

(* Equal device heads mean equal stored operations. *)
LEMMA SameHeadsSameOps ==
  ASSUME ReplicaInv, NEW d \in Device, NEW e \in Device, deviceHeads[d] = deviceHeads[e]
  PROVE  stored[d] \subseteq stored[e]
<1> SUFFICES ASSUME NEW o \in stored[d] PROVE o \in stored[e]
  OBVIOUS
<1> USE DEF ReplicaInv, TypeInv
<1>1. o \in Op /\ o \in AllOps /\ o.dev \in Device /\ o.seq \in Nat \ {0}
  BY StoredType DEF Op
<1>2. o.seq <= deviceHeads[d][o.dev] /\ deviceHeads[d][o.dev] \in Nat
  BY <1>1 DEF HeadsCover, TypeOK
<1>3. o.seq \in 1 .. deviceHeads[e][o.dev]
  BY <1>1, <1>2
<1>4. PICK p \in stored[e] : p.dev = o.dev /\ p.seq = o.seq
  BY <1>1, <1>3 DEF NoGaps
<1>5. p \in AllOps
  BY StoredType
<1> QED BY <1>1, <1>4, <1>5 DEF Unique

(* Replicas with the same device heads show the same heads, values and     *)
(* conflicts, whatever order, repair or replay brought them there.         *)
THEOREM ConvergenceAlways == Spec => []Convergence
<1>1. ReplicaInv => Convergence
  <2> SUFFICES ASSUME ReplicaInv, NEW d \in Device, NEW e \in Device,
                      deviceHeads[d] = deviceHeads[e]
               PROVE  /\ recordHeads[d] = recordHeads[e]
                      /\ live[d] = live[e]
                      /\ conflicts[d] = conflicts[e]
    BY DEF Convergence
  <2>1. stored[d] = stored[e]
    BY SameHeadsSameOps
  <2>2. \A r \in Record : /\ recordHeads[d][r] = recordHeads[e][r]
                          /\ live[d][r] = live[e][r]
                          /\ conflicts[d][r] = conflicts[e][r]
    BY <2>1 DEF ReplicaInv, ViewIsMerge
  <2>3. /\ recordHeads[d] \in [Record -> SUBSET Op] /\ recordHeads[e] \in [Record -> SUBSET Op]
        /\ live[d] \in [Record -> SUBSET Op] /\ live[e] \in [Record -> SUBSET Op]
        /\ conflicts[d] \in [Record -> SUBSET Op] /\ conflicts[e] \in [Record -> SUBSET Op]
    BY DEF ReplicaInv, TypeInv, TypeOK
  <2> QED BY <2>2, <2>3
<1> QED BY <1>1, ReplicaInvariant, PTL

-----------------------------------------------------------------------------
(* The protocol implements the causal store. *)

(* The view of a set of operations in the terms of this module. *)
LEMMA AbstractView ==
  ASSUME NEW ops
  PROVE  Abstract!View(ops) =
           [r \in Record |-> [heads    |-> Maximal(ops, r),
                              value    |-> ValueOf(Maximal(ops, r)),
                              conflict |-> ConflictOf(Maximal(ops, r))]]
BY DEF Abstract!View, Abstract!Maximal, Abstract!ValueOf, Abstract!ConflictOf, Abstract!LeastId,
       Abstract!ConflictPair, Abstract!Past, Maximal, ValueOf, ConflictOf, LeastId, ConflictPair, Past

(* What a device shows is the view of what it has stored. *)
LEMMA ShownIsView ==
  ASSUME ViewIsMerge
  PROVE  Shown = [d \in Device |-> Abstract!View(stored[d])]
<1>1. \A d \in Device : Shown[d] = Abstract!View(stored[d])
  BY AbstractView DEF Shown, ViewIsMerge
<1> QED BY <1>1 DEF Shown

(* The same after a step. *)
LEMMA ShownIsViewNext ==
  ASSUME ViewIsMerge'
  PROVE  Shown' = [d \in Device |-> Abstract!View(stored'[d])]
<1>1. \A d \in Device : Shown'[d] = Abstract!View(stored'[d])
  BY AbstractView DEF Shown, ViewIsMerge
<1> QED BY <1>1 DEF Shown

(* Adding an operation is the step Learn of the causal store. *)
LEMMA AddsIsLearn ==
  ASSUME ReplicaInv, ReplicaInv', NEW d \in Device, NEW o, Adds(d, o)
  PROVE  Abstract!Learn(d, o)
<1> USE DEF ReplicaInv, TypeInv
<1>1. o \notin stored[d]
  <2>1. NewTo(o, stored[d])
    BY AddsNewTo
  <2>2. o.seq \in Nat
    BY DEF Adds, Op
  <2>3. o \in stored[d] => o.seq < o.seq
    BY <2>1 DEF NewTo
  <2> QED BY <2>2, <2>3
<1>2. Abstract!PastWithin(o, stored[d])
  <2> SUFFICES ASSUME NEW e \in Device, NEW n \in 1 .. o.front[e]
               PROVE  \E p \in stored[d] : p.dev = e /\ p.seq = n
    BY DEF Abstract!PastWithin
  <2>1. o.front[e] \in Nat /\ deviceHeads[d][e] \in Nat /\ o.front[e] <= deviceHeads[d][e]
    BY DEF Adds, Op, TypeOK
  <2>2. n \in 1 .. deviceHeads[d][e]
    BY <2>1
  <2> QED BY <2>2 DEF NoGaps
<1>3. stored' = [stored EXCEPT ![d] = @ \union {o}]
  BY DEF Adds
<1>4. Shown' = [Shown EXCEPT ![d] = Abstract!View(stored[d] \union {o})]
  <2>1. Shown = [e \in Device |-> Abstract!View(stored[e])]
    BY ShownIsView
  <2>2. Shown' = [e \in Device |-> Abstract!View(stored'[e])]
    BY ShownIsViewNext
  <2>3. /\ stored'[d] = stored[d] \union {o}
        /\ \A e \in Device : e # d => stored'[e] = stored[e]
    BY AddsAllOps
  <2> QED BY <2>1, <2>2, <2>3
<1> QED BY <1>1, <1>2, <1>3, <1>4 DEF Abstract!Learn

(* Every step is one of the causal store, or a stutter. *)
LEMMA RefinementStep ==
  ASSUME ReplicaInv, ReplicaInv', [Next]_vars
  PROVE  [Abstract!Next]_(Abstract!vars)
<1> USE DEF ReplicaInv, TypeInv
<1>1. CASE Quiet
  BY <1>1 DEF Quiet, Abstract!vars, Shown
<1>2. ASSUME NEW d \in Device, NEW o \in AllOps, Adds(d, o) PROVE Abstract!Next
  <2>1. Abstract!Learn(d, o)
    BY <1>2, AddsIsLearn
  <2>2. o \in Abstract!Everything
    BY <1>2 DEF Abstract!Everything, AllOps
  <2> QED BY <2>1, <2>2 DEF Abstract!Next, Abstract!Receive
<1>3. ASSUME NEW d \in Device, NEW o, Writes(d, o) PROVE Abstract!Next
  <2>1. Abstract!Learn(d, o)
    BY <1>3, AddsIsLearn DEF Writes
  <2>2. o \in stored'[d] /\ o.dev = d
    BY <1>3, AddsAllOps DEF Writes
  <2>3. \A p \in AllOps : p.dev = d => p.seq < o.seq
    <3> SUFFICES ASSUME NEW p \in AllOps, p.dev = d PROVE p.seq < o.seq
      OBVIOUS
    <3>1. p \in stored[d]
      BY DEF WellFormed
    <3>2. NewTo(o, stored[d])
      BY <1>3, AddsNewTo DEF Writes
    <3> QED BY <2>2, <3>1, <3>2 DEF NewTo
  <2>4. \A p \in Abstract!Everything : p.id # o.id /\ (p.dev = d => p.seq < o.seq)
    BY <1>3, <2>3 DEF Abstract!Everything, AllOps, Writes
  <2>5. \A p \in stored[d] : Abstract!Past(p, o)
    BY <1>3 DEF Abstract!Past, Past, Writes
  <2>6. Abstract!Write(d)
    BY <2>1, <2>2, <2>4, <2>5 DEF Abstract!Write
  <2> QED BY <2>6 DEF Abstract!Next
<1>4. ASSUME NEW d \in Device, NEW row \in cycle[d].rows, RowApply(d, row) PROVE Abstract!Next
  BY <1>2, <1>4, AppliedRow, AdmittedAdds DEF RowApply
<1>5. ASSUME NEW d \in Device, NEW row \in cycle[d].got, RepairApply(d, row) PROVE Abstract!Next
  BY <1>2, <1>5, AppliedRow, AdmittedAdds DEF RepairApply
<1> QED BY <1>1, <1>3, <1>4, <1>5, StepKinds, LocalWriteAdds

(* Every behaviour of signed sync, with its faults, crashes, damage, pages *)
(* and repairs, is a behaviour of the causal store.                        *)
THEOREM Refinement == Spec => ImplementsCausalStore
<1>1. Init => Abstract!Init
  <2> SUFFICES ASSUME Init PROVE Abstract!Init
    OBVIOUS
  <2>1. Shown = [d \in Device |-> Abstract!View(stored[d])]
    BY ReplicaInit, ShownIsView DEF ReplicaInv
  <2>2. stored = [d \in Device |-> {}]
    BY DEF Init
  <2> QED BY <2>1, <2>2 DEF Abstract!Init
<1>2. ReplicaInv /\ ReplicaInv' /\ [Next]_vars => [Abstract!Next]_(Abstract!vars)
  BY RefinementStep
<1> QED BY <1>1, <1>2, ReplicaInvariant, PTL DEF Spec, ImplementsCausalStore, Abstract!Spec

=============================================================================
