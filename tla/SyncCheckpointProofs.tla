------------------------- MODULE SyncCheckpointProofs -------------------------
(***************************************************************************)
(* Checkpoints, for any number of devices, page sizes, writes and faults:  *)
(* a scan keeps to the pin it started from, a pin only moves forward on    *)
(* one history to what certifies the device's state, and as long as the    *)
(* provider does not rewind everybody is on its one chain.                 *)
(***************************************************************************)
EXTENDS SyncCheckpoint, SequenceTheorems, TLAPS

(* A device keeps at most one scan. *)
OneScan == \A d \in Device : \A x, y \in scan[d] : x = y

(* While the rows of a page are saved, the scan is on the chain they are   *)
(* taken from.                                                             *)
RowsFollowScan ==
  \A d \in Device : job[d].phase = "rows" => OnChain(ScanAt(d), job[d].shown)

Publishing == {"push", "pushed", "append", "appended", "tail", "tailed"}

(* A checkpoint that is being published was linked behind the pin. *)
PublishedFollowsPin ==
  \A d \in Device : job[d].phase \in Publishing =>
    /\ OnChain(pin[d], job[d].published)
    /\ Len(pin[d]) < Len(job[d].published)

(* What the provider showed is still there, unless it rewinds. *)
ShownIsOnChain ==
  rewinds = 0 => \A d \in Device : OnChain(job[d].shown, chain)

(* The part of the inductive invariant that is about scans and pins; it    *)
(* holds whatever the provider does.                                       *)
PinInv ==
  /\ TypeOK
  /\ OneScan
  /\ RowsFollowScan
  /\ ScanFollowsPin
  /\ PublishedFollowsPin

CheckpointInv == PinInv /\ ShownIsOnChain /\ OneHistory

-----------------------------------------------------------------------------
(* Chains. *)

LEMMA OnChainSelf ==
  ASSUME NEW c \in Checkpoint
  PROVE  OnChain(c, c) /\ OnChain(<<>>, c)
BY DEF OnChain, Checkpoint

LEMMA OnChainTransitive ==
  ASSUME NEW a \in Checkpoint, NEW b \in Checkpoint, NEW c \in Checkpoint,
         OnChain(a, b), OnChain(b, c)
  PROVE  OnChain(a, c)
BY DEF OnChain, Checkpoint

(* Two chains of the same length, one on the other, are the same. *)
LEMMA OnChainFull ==
  ASSUME NEW a \in Checkpoint, NEW b \in Checkpoint, OnChain(a, b), Len(a) >= Len(b)
  PROVE  a = b
<1>1. Len(a) \in Nat /\ Len(b) \in Nat
  BY DEF Checkpoint
<1>2. Len(a) = Len(b) /\ \A i \in 1 .. Len(a) : a[i] = b[i]
  BY <1>1 DEF OnChain
<1> QED BY <1>2, SeqEqual DEF Checkpoint

(* The beginning of a chain. *)
LEMMA Beginning ==
  ASSUME NEW c \in Checkpoint, NEW k \in Nat, k <= Len(c)
  PROVE  /\ SubSeq(c, 1, k) \in Checkpoint
         /\ Len(SubSeq(c, 1, k)) = k
         /\ \A i \in 1 .. k : SubSeq(c, 1, k)[i] = c[i]
BY SubSeqProperties DEF Checkpoint

(* The next row of a page: the beginning of the chain that is one longer   *)
(* than the scan.                                                          *)
LEMMA NextRow ==
  ASSUME NEW at \in Checkpoint, NEW shown \in Checkpoint,
         OnChain(at, shown), at # shown
  PROVE  LET row == SubSeq(shown, 1, Len(at) + 1)
         IN  /\ row \in Checkpoint
             /\ Len(row) = Len(at) + 1
             /\ OnChain(row, shown)
             /\ OnChain(at, row)
<1> DEFINE row == SubSeq(shown, 1, Len(at) + 1)
<1>1. Len(at) \in Nat /\ Len(shown) \in Nat
  BY DEF Checkpoint
<1>2. Len(at) < Len(shown)
  BY <1>1, OnChainFull DEF OnChain
<1>3. /\ row \in Seq(Link) /\ Len(row) = Len(at) + 1
      /\ \A i \in 1 .. Len(at) + 1 : row[i] = shown[i]
  BY <1>1, <1>2, Beginning DEF Checkpoint
<1> QED BY <1>1, <1>2, <1>3 DEF OnChain, Checkpoint

(* A chain on the next row is that row or was on the scan already. *)
LEMMA OnNextRow ==
  ASSUME NEW p \in Checkpoint, NEW at \in Checkpoint, NEW row \in Checkpoint,
         OnChain(at, row), Len(row) = Len(at) + 1
  PROVE  OnChain(p, row) <=> (OnChain(p, at) \/ row = p)
<1>1. Len(p) \in Nat /\ Len(at) \in Nat /\ Len(row) \in Nat
  BY DEF Checkpoint
<1>2. ASSUME OnChain(p, row), row # p PROVE OnChain(p, at)
  <2>1. Len(p) <= Len(at)
    BY <1>1, <1>2, OnChainFull DEF OnChain
  <2> QED BY <1>1, <1>2, <2>1 DEF OnChain
<1>3. ASSUME OnChain(p, at) PROVE OnChain(p, row)
  BY <1>3, OnChainTransitive
<1> QED BY <1>2, <1>3, OnChainSelf

(* A new link makes a longer chain behind the old one. *)
LEMMA NewLink ==
  ASSUME NEW c \in Checkpoint, NEW l \in Link
  PROVE  /\ Append(c, l) \in Checkpoint
         /\ Len(Append(c, l)) = Len(c) + 1
         /\ OnChain(c, Append(c, l))
BY AppendProperties DEF OnChain, Checkpoint

(* What the provider takes continues its chain. *)
LEMMA ExtendsChain ==
  ASSUME NEW c \in Checkpoint, chain \in Checkpoint, Extends(c)
  PROVE  OnChain(chain, c)
<1>1. Len(c) \in Nat /\ Len(c) # 0
  BY EmptySeq DEF Extends, Checkpoint
<1>2. Len(c) - 1 \in Nat /\ Len(c) - 1 <= Len(c)
  BY <1>1
<1>3. /\ Len(SubSeq(c, 1, Len(c) - 1)) = Len(c) - 1
      /\ \A i \in 1 .. Len(c) - 1 : SubSeq(c, 1, Len(c) - 1)[i] = c[i]
  BY <1>2, Beginning
<1> QED BY <1>1, <1>3 DEF Extends, OnChain

-----------------------------------------------------------------------------
(* Types. *)

LEMMA IdleType == Idle \in Job
BY DEF Idle, Job, Phases, Checkpoint

(* A device's work keeps its type when it goes to another phase. *)
LEMMA InPhaseType ==
  ASSUME NEW j \in Job, NEW phase \in Phases
  PROVE  InPhase(j, phase) \in Job /\ Reading(j, phase) \in Job
BY IdleType DEF Job, InPhase, Reading

LEMMA NextPageType ==
  ASSUME NEW j \in Job, NEW s, NEW p
  PROVE  /\ NextPage(j, s, p) \in Job
         /\ NextPage(j, s, p).phase \in {"idle", "scan"}
         /\ NextPage(j, s, p).shown = <<>>
<1>1. CASE (\E x \in s : x.base # p) \/ j.scanned >= MaxOperations
  BY <1>1, IdleType DEF NextPage, Idle
<1>2. CASE ~((\E x \in s : x.base # p) \/ j.scanned >= MaxOperations)
  <2>1. Smaller(MaxOperations - j.scanned, MaxBatch) \in Nat
    BY <1>2, CheckpointAssumption DEF Smaller, Job
  <2>2. NextPage(j, s, p) = [Idle EXCEPT !.phase = "scan", !.scanned = j.scanned,
                               !.limit = Smaller(MaxOperations - j.scanned, MaxBatch)]
    BY <1>2 DEF NextPage
  <2> QED BY <2>1, <2>2, IdleType DEF Job, Idle, Phases
<1> QED BY <1>1, <1>2

LEMMA ScanAtType ==
  ASSUME TypeOK, NEW d \in Device
  PROVE  ScanAt(d) \in Checkpoint
<1>1. CASE scan[d] = {}
  BY <1>1 DEF ScanAt, Checkpoint
<1>2. CASE scan[d] # {}
  <2>1. (CHOOSE x \in scan[d] : TRUE) \in scan[d]
    BY <1>2
  <2> QED BY <1>2, <2>1 DEF ScanAt, TypeOK, Scan
<1> QED BY <1>1, <1>2

(* ScanAt as a function of the saved scans. *)
PlaceOf(saved) == IF saved = {} THEN <<>> ELSE (CHOOSE x \in saved : TRUE).at

LEMMA ScanAtIsPlace ==
  ASSUME NEW d
  PROVE  ScanAt(d) = PlaceOf(scan[d]) /\ ScanAt(d)' = PlaceOf(scan'[d])
BY DEF ScanAt, PlaceOf

LEMMA PlaceOfOne ==
  ASSUME NEW x
  PROVE  PlaceOf({x}) = x.at
BY DEF PlaceOf

(* The one scan of a device is what ScanAt and PinSeen read. *)
LEMMA TheScan ==
  ASSUME OneScan, NEW d \in Device, NEW x \in scan[d]
  PROVE  ScanAt(d) = x.at /\ PinSeen(d) = x.seen
<1>1. (CHOOSE y \in scan[d] : TRUE) = x
  BY DEF OneScan
<1> QED BY <1>1 DEF ScanAt, PinSeen

(* PinSeen tells whether the scan has passed the pin. *)
LEMMA PinSeenMeans ==
  ASSUME TypeOK, OneScan, ScanFollowsPin, NEW d \in Device
  PROVE  PinSeen(d) <=> OnChain(pin[d], ScanAt(d))
<1>1. CASE scan[d] = {}
  <2>1. ScanAt(d) = <<>> /\ (PinSeen(d) <=> pin[d] = <<>>)
    BY <1>1 DEF ScanAt, PinSeen
  <2>2. pin[d] \in Checkpoint /\ <<>> \in Checkpoint
    BY DEF TypeOK, Checkpoint
  <2>3. Len(pin[d]) \in Nat /\ Len(<<>>) = 0
    BY <2>2 DEF Checkpoint
  <2>4. OnChain(pin[d], <<>>) => pin[d] = <<>>
    BY <2>2, <2>3, OnChainFull
  <2> QED BY <2>1, <2>2, <2>4, OnChainSelf
<1>2. CASE scan[d] # {}
  <2>1. PICK x \in scan[d] : TRUE
    BY <1>2
  <2> QED BY <2>1, TheScan DEF ScanFollowsPin
<1> QED BY <1>1, <1>2

(* The provider takes only checkpoints. *)
LEMMA AppendType ==
  ASSUME TypeOK, NEW c \in Checkpoint, NEW ok, ProviderAppend(c, ok)
  PROVE  chain' \in Checkpoint /\ issued' \in SUBSET Checkpoint
BY DEF ProviderAppend, TypeOK

(* The row a step saves is a checkpoint. *)
LEMMA RowType ==
  ASSUME TypeOK, OneScan, RowsFollowScan, NEW d \in Device, ScanRow(d)
  PROVE  LET row == SubSeq(job[d].shown, 1, Len(ScanAt(d)) + 1)
         IN  /\ row \in Checkpoint
             /\ Len(row) = Len(ScanAt(d)) + 1
             /\ OnChain(row, job[d].shown)
             /\ OnChain(ScanAt(d), row)
<1>1. ScanAt(d) \in Checkpoint /\ job[d].shown \in Checkpoint
  BY ScanAtType DEF TypeOK, Job
<1>2. OnChain(ScanAt(d), job[d].shown) /\ ScanAt(d) # job[d].shown
  BY DEF ScanRow, RowsFollowScan
<1> QED BY <1>1, <1>2, NextRow

(* Accepting a checkpoint keeps the types of what it writes. *)
LEMMA AcceptType ==
  ASSUME TypeOK, NEW d \in Device, NEW c \in Checkpoint, Accept(d, c)
  PROVE  /\ pin' \in [Device -> Checkpoint]
         /\ schedule' \in [Device -> Schedule]
         /\ scan' \in [Device -> SUBSET Scan]
<1>1. NewSchedule \in Schedule
  BY DEF NewSchedule, Schedule
<1>2. {[x EXCEPT !.base = c, !.seen = TRUE] : x \in {y \in scan[d] : y.at = c}} \in SUBSET Scan
  <2> SUFFICES ASSUME NEW x \in scan[d]
               PROVE  [x EXCEPT !.base = c, !.seen = TRUE] \in Scan
    OBVIOUS
  <2>1. x \in Scan
    BY DEF TypeOK
  <2> QED BY <2>1 DEF Scan
<1> QED BY <1>1, <1>2 DEF Accept, TypeOK

(* Every step keeps the types. *)
LEMMA TypeStep ==
  ASSUME TypeOK, OneScan, RowsFollowScan, [Next]_vars
  PROVE  TypeOK'
<1> USE DEF JobBecomes
<1>1. ASSUME NEW d \in Device PROVE job[d] \in Job /\ ScanAt(d) \in Checkpoint
  BY ScanAtType DEF TypeOK
<1>2. ASSUME NEW d \in Device, LocalWrite(d) PROVE TypeOK'
  <2>1. heads' \in [Device -> Frontier]
    BY <1>2 DEF LocalWrite, TypeOK, Frontier
  <2>2. schedule' \in [Device -> Schedule]
    BY <1>2 DEF LocalWrite, NoteOperation, TypeOK, Schedule
  <2> QED BY <1>2, <2>1, <2>2 DEF LocalWrite, TypeOK, bounds
<1>3. ASSUME NEW d \in Device, NEW e \in Device, Receive(d, e) PROVE TypeOK'
  <2>1. heads' \in [Device -> Frontier]
    BY <1>3 DEF Receive, TypeOK, Frontier
  <2>2. schedule' \in [Device -> Schedule]
    BY <1>3 DEF Receive, NoteOperation, TypeOK, Schedule
  <2> QED BY <1>3, <2>1, <2>2 DEF Receive, TypeOK, bounds
<1>4. ASSUME NEW d \in Device, RequestCheckpoint(d) \/ IntervalPasses(d) PROVE TypeOK'
  <2>1. schedule' \in [Device -> Schedule]
    <3>1. schedule[d] \in Schedule
      BY DEF TypeOK
    <3>2. /\ [schedule[d] EXCEPT !.requested = TRUE] \in Schedule
          /\ [schedule[d] EXCEPT !.aged = TRUE] \in Schedule
      BY <3>1 DEF Schedule
    <3> QED BY <1>4, <3>2 DEF RequestCheckpoint, IntervalPasses, TypeOK
  <2> QED BY <1>4, <2>1 DEF RequestCheckpoint, IntervalPasses, TypeOK
<1>5. ASSUME NEW c \in issued \union {<<>>}, Rewind(c) PROVE TypeOK'
  <2>1. c \in Checkpoint
    <3>1. <<>> \in Checkpoint
      BY DEF Checkpoint
    <3> QED BY <3>1 DEF TypeOK
  <2> QED BY <1>5, <2>1 DEF Rewind, TypeOK, vault
<1>6. ASSUME NEW d \in Device, NEW j \in Job, JobBecomes(d, j),
             UNCHANGED <<vault, chain, issued, wire, builds, bounds>>
      PROVE  TypeOK'
  BY <1>6 DEF TypeOK, vault, bounds
<1>7. ASSUME NEW d \in Device, BeginCheckpoint(d) PROVE TypeOK'
  <2>1. InPhase(Idle, "lookup") \in Job
    BY IdleType, InPhaseType DEF Phases
  <2> QED BY <1>6, <1>7, <2>1, IdleType, NextPageType DEF BeginCheckpoint
<1>8. ASSUME NEW d \in Device, ReadServed(d) PROVE TypeOK'
  <2>1. Answered[job[d].phase] \in Phases /\ chain \in Checkpoint
    BY <1>8 DEF ReadServed, Answered, Phases, TypeOK
  <2>2. [job[d] EXCEPT !.phase = Answered[job[d].phase], !.shown = chain] \in Job
    BY <1>1, <2>1 DEF Job
  <2> QED BY <1>6, <1>8, <2>2 DEF ReadServed
<1>9. ASSUME NEW d \in Device, FinishLookup(d) PROVE TypeOK'
  BY <1>1, <1>6, <1>9, IdleType, NextPageType DEF FinishLookup
<1>10. ASSUME NEW d \in Device, FinishPage(d) PROVE TypeOK'
  <2>1. InPhase(job[d], "rows") \in Job
    BY <1>1, InPhaseType DEF Phases
  <2> QED BY <1>6, <1>10, <2>1, IdleType DEF FinishPage
<1>11. ASSUME NEW d \in Device, ScanRow(d) PROVE TypeOK'
  <2>1. SubSeq(job[d].shown, 1, Len(ScanAt(d)) + 1) \in Checkpoint
    BY <1>11, RowType
  <2>2. PinSeen(d) \in BOOLEAN
    <3>1. CASE scan[d] = {}
      BY <3>1 DEF PinSeen
    <3>2. CASE scan[d] # {}
      <4>1. (CHOOSE x \in scan[d] : TRUE) \in Scan
        BY <3>2 DEF TypeOK
      <4> QED BY <3>2, <4>1 DEF PinSeen, Scan
    <3> QED BY <3>1, <3>2
  <2>3. scan' \in [Device -> SUBSET Scan]
    <3> DEFINE row == SubSeq(job[d].shown, 1, Len(ScanAt(d)) + 1)
               new == [at |-> row, base |-> pin[d], seen |-> PinSeen(d) \/ row = pin[d]]
    <3>1. new \in Scan
      BY <2>1, <2>2 DEF Scan, TypeOK
    <3>2. scan' = [scan EXCEPT ![d] = {new}]
      BY <1>11 DEF ScanRow
    <3> HIDE DEF new
    <3> QED BY <3>1, <3>2 DEF TypeOK
  <2>4. [job[d] EXCEPT !.limit = @ - 1, !.scanned = @ + 1] \in Job
    <3>1. job[d].limit - 1 \in Nat /\ job[d].scanned + 1 \in Nat
      BY <1>1, <1>11 DEF ScanRow, Job
    <3> QED BY <1>1, <3>1 DEF Job
  <2>5. job' \in [Device -> Job]
    BY <1>11, <2>4 DEF ScanRow, TypeOK
  <2> QED BY <1>11, <2>3, <2>5 DEF ScanRow, TypeOK, bounds
<1>12. ASSUME NEW d \in Device, PageSaved(d) PROVE TypeOK'
  BY <1>1, <1>6, <1>12, NextPageType DEF PageSaved
<1>13. ASSUME NEW d \in Device, PinMissing(d) \/ NothingDue(d) \/ RejectPublished(d) PROVE TypeOK'
  BY <1>6, <1>13, IdleType DEF PinMissing, NothingDue, RejectPublished
<1>14. ASSUME NEW d \in Device, AcceptEndpoint(d) PROVE TypeOK'
  BY <1>1, <1>14, IdleType, AcceptType DEF AcceptEndpoint, TypeOK, bounds
<1>15. ASSUME NEW d \in Device, BuildCheckpoint(d) PROVE TypeOK'
  <2> DEFINE l == [by |-> d, n |-> builds, front |-> heads[d]]
  <2>1. l \in Link
    BY DEF Link, TypeOK
  <2>2. Append(ScanAt(d), l) \in Checkpoint
    BY <1>1, <2>1, NewLink
  <2> HIDE DEF l
  <2>3. [Idle EXCEPT !.phase = "push", !.published = Append(ScanAt(d), l)] \in Job
    BY <2>2, IdleType DEF Job, Phases
  <2>4. job' \in [Device -> Job] /\ builds' \in Nat
    BY <1>15, <2>3 DEF BuildCheckpoint, TypeOK, l
  <2> QED BY <1>15, <2>4 DEF BuildCheckpoint, TypeOK, vault, bounds
<1>16. ASSUME NEW d \in Device, PushServed(d) PROVE TypeOK'
  <2>1. PICK ok \in BOOLEAN : /\ ProviderAppend(job[d].published, ok)
                             /\ JobBecomes(d, [job[d] EXCEPT !.phase = "pushed", !.ok = ok])
    BY <1>16 DEF PushServed
  <2>2. [job[d] EXCEPT !.phase = "pushed", !.ok = ok] \in Job
    BY <1>1 DEF Job, Phases
  <2>3. chain' \in Checkpoint /\ issued' \in SUBSET Checkpoint
    BY <1>1, <2>1, AppendType DEF Job
  <2> QED BY <1>16, <2>1, <2>2, <2>3 DEF PushServed, TypeOK, vault, bounds
<1>17. ASSUME NEW d \in Device, PushRetried(d) PROVE TypeOK'
  BY <1>1, <1>17 DEF PushRetried, TypeOK, vault, Job
<1>18. ASSUME NEW c \in wire, LateArrival(c) PROVE TypeOK'
  BY <1>18, AppendType DEF LateArrival, TypeOK, vault, bounds
<1>19. ASSUME NEW d \in Device, FinishPush(d) \/ FinishAppend(d) PROVE TypeOK'
  <2>1. Reading(job[d], "append") \in Job /\ Reading(job[d], "tail") \in Job
    BY <1>1, InPhaseType DEF Phases
  <2> QED BY <1>6, <1>19, <2>1, IdleType DEF FinishPush, FinishAppend
<1>20. ASSUME NEW d \in Device, AcceptPublished(d) PROVE TypeOK'
  <2>1. job[d].published \in Checkpoint
    BY <1>1 DEF Job
  <2> QED BY <1>20, <2>1, IdleType, AcceptType DEF AcceptPublished, TypeOK, bounds
<1>21. ASSUME NEW d \in Device, ExchangeLost(d) \/ Crash(d) PROVE TypeOK'
  <2>1. wire' \in SUBSET Checkpoint
    BY <1>1, <1>21 DEF ExchangeLost, Crash, UnderWay, TypeOK, Job
  <2> QED BY <1>21, <2>1, IdleType DEF ExchangeLost, Crash, TypeOK, vault
<1>22. CASE UNCHANGED vars
  BY <1>22 DEF vars, vault, bounds, TypeOK
<1> QED
  BY <1>2, <1>3, <1>4, <1>5, <1>7, <1>8, <1>9, <1>10, <1>11, <1>12, <1>13, <1>14, <1>15, <1>16,
     <1>17, <1>18, <1>19, <1>20, <1>21, <1>22
  DEF Next, JobStep

-----------------------------------------------------------------------------
(* Scans and pins. *)

(* A step that changes only the work of d keeps what is known of scans and *)
(* pins if the new work does.                                              *)
LEMMA WorkChanges ==
  ASSUME PinInv, NEW d \in Device, NEW j, JobBecomes(d, j), UNCHANGED <<pin, scan>>,
         j.phase = "rows" => OnChain(ScanAt(d), j.shown),
         j.phase \in Publishing => /\ OnChain(pin[d], j.published)
                                   /\ Len(pin[d]) < Len(j.published)
  PROVE  OneScan' /\ RowsFollowScan' /\ ScanFollowsPin' /\ PublishedFollowsPin'
<1>1. \A e \in Device : job'[e] = IF e = d THEN j ELSE job[e]
  BY DEF JobBecomes, PinInv, TypeOK
<1>2. \A e \in Device : ScanAt(e)' = ScanAt(e)
  BY DEF ScanAt
<1>3. OneScan' /\ ScanFollowsPin'
  BY DEF PinInv, OneScan, ScanFollowsPin
<1>4. RowsFollowScan'
  BY <1>1, <1>2 DEF PinInv, RowsFollowScan
<1>5. PublishedFollowsPin'
  BY <1>1 DEF PinInv, PublishedFollowsPin
<1> QED BY <1>3, <1>4, <1>5

LEMMA NothingChanges ==
  ASSUME PinInv, UNCHANGED <<pin, scan, job>>
  PROVE  OneScan' /\ RowsFollowScan' /\ ScanFollowsPin' /\ PublishedFollowsPin'
<1>1. \A e \in Device : ScanAt(e)' = ScanAt(e)
  BY DEF ScanAt
<1> QED BY <1>1 DEF PinInv, OneScan, RowsFollowScan, ScanFollowsPin, PublishedFollowsPin

(* Accepting a checkpoint: the scan that stays is at the new pin. *)
LEMMA AcceptKeeps ==
  ASSUME PinInv, NEW d \in Device, NEW c \in Checkpoint, Accept(d, c), JobBecomes(d, Idle)
  PROVE  OneScan' /\ RowsFollowScan' /\ ScanFollowsPin' /\ PublishedFollowsPin'
<1>1. /\ \A e \in Device : pin'[e] = IF e = d THEN c ELSE pin[e]
      /\ \A e \in Device : job'[e] = IF e = d THEN Idle ELSE job[e]
      /\ \A e \in Device \ {d} : scan'[e] = scan[e]
      /\ scan'[d] = {[x EXCEPT !.base = c, !.seen = TRUE] : x \in {y \in scan[d] : y.at = c}}
  BY DEF Accept, JobBecomes, PinInv, TypeOK
<1>2. \A x \in scan'[d] : x = [at |-> c, base |-> c, seen |-> TRUE]
  <2> TAKE x \in scan'[d]
  <2>1. PICK y \in scan[d] : y.at = c /\ x = [y EXCEPT !.base = c, !.seen = TRUE]
    BY <1>1
  <2>2. y \in Scan
    BY DEF PinInv, TypeOK
  <2> QED BY <2>1, <2>2 DEF Scan
<1>3. OneScan'
  BY <1>1, <1>2 DEF OneScan, PinInv
<1>4. ScanFollowsPin'
  <2> SUFFICES ASSUME NEW e \in Device, NEW x \in scan'[e]
               PROVE  x.base = pin'[e] /\ (x.seen <=> OnChain(pin'[e], x.at))
    BY DEF ScanFollowsPin, OnChain
  <2>1. CASE e = d
    BY <1>1, <1>2, <2>1, OnChainSelf
  <2>2. CASE e # d
    BY <1>1, <2>2 DEF ScanFollowsPin, PinInv
  <2> QED BY <2>1, <2>2
<1>5. Idle.phase = "idle"
  BY DEF Idle
<1>6. RowsFollowScan'
  <2>1. \A e \in Device \ {d} : ScanAt(e)' = ScanAt(e)
    BY <1>1, ScanAtIsPlace
  <2> QED BY <1>1, <1>5, <2>1 DEF RowsFollowScan, PinInv
<1>7. PublishedFollowsPin'
  BY <1>1, <1>5 DEF PublishedFollowsPin, PinInv, Publishing
<1> QED BY <1>3, <1>4, <1>6, <1>7

(* Saving a row: the scan goes one further and has passed the pin when it  *)
(* reaches it.                                                             *)
LEMMA RowKeeps ==
  ASSUME PinInv, NEW d \in Device, ScanRow(d)
  PROVE  OneScan' /\ RowsFollowScan' /\ ScanFollowsPin' /\ PublishedFollowsPin'
<1> DEFINE row == SubSeq(job[d].shown, 1, Len(ScanAt(d)) + 1)
           new == [at |-> row, base |-> pin[d], seen |-> PinSeen(d) \/ row = pin[d]]
<1>1. /\ row \in Checkpoint /\ Len(row) = Len(ScanAt(d)) + 1
      /\ OnChain(row, job[d].shown) /\ OnChain(ScanAt(d), row)
  BY RowType DEF PinInv
<1>2. /\ scan'[d] = {new}
      /\ \A e \in Device \ {d} : scan'[e] = scan[e]
      /\ UNCHANGED pin
      /\ job'[d] = [job[d] EXCEPT !.limit = @ - 1, !.scanned = @ + 1]
      /\ \A e \in Device \ {d} : job'[e] = job[e]
  BY DEF ScanRow, JobBecomes, PinInv, TypeOK
<1>3. job'[d].phase = "rows" /\ job'[d].shown = job[d].shown
  BY <1>2 DEF ScanRow, PinInv, TypeOK, Job
<1> HIDE DEF row
<1>4. OnChain(pin[d], row) <=> (PinSeen(d) \/ row = pin[d])
  <2>1. pin[d] \in Checkpoint /\ ScanAt(d) \in Checkpoint
    BY ScanAtType DEF PinInv, TypeOK
  <2> QED BY <1>1, <2>1, OnNextRow, PinSeenMeans DEF PinInv
<1>5. new.at = row /\ new.base = pin[d] /\ (new.seen <=> OnChain(pin[d], row))
  BY <1>4
<1> HIDE DEF new
<1>6. ScanAt(d)' = row /\ \A e \in Device \ {d} : ScanAt(e)' = ScanAt(e)
  BY <1>2, <1>5, ScanAtIsPlace, PlaceOfOne
<1>7. OneScan'
  BY <1>2 DEF OneScan, PinInv
<1>8. ScanFollowsPin'
  BY <1>2, <1>5 DEF ScanFollowsPin, PinInv
<1>9. RowsFollowScan'
  <2> SUFFICES ASSUME NEW e \in Device, job'[e].phase = "rows"
               PROVE  OnChain(ScanAt(e)', job'[e].shown)
    BY DEF RowsFollowScan, OnChain
  <2>1. CASE e = d
    BY <1>1, <1>3, <1>6, <2>1
  <2>2. CASE e # d
    BY <1>2, <1>6, <2>2 DEF RowsFollowScan, PinInv
  <2> QED BY <2>1, <2>2
<1>10. PublishedFollowsPin'
  BY <1>2, <1>3 DEF PublishedFollowsPin, PinInv, Publishing
<1> QED BY <1>7, <1>8, <1>9, <1>10

(* Every step keeps what is known of scans and pins. *)
LEMMA PinStep ==
  ASSUME PinInv, [Next]_vars
  PROVE  PinInv'
<1> USE DEF Publishing
<1> DEFINE Kept == OneScan' /\ RowsFollowScan' /\ ScanFollowsPin' /\ PublishedFollowsPin'
<1>1. TypeOK'
  BY TypeStep DEF PinInv
<1>2. ASSUME NEW d \in Device PROVE job[d] \in Job /\ ScanAt(d) \in Checkpoint
  BY ScanAtType DEF PinInv, TypeOK
<1>3. Idle.phase = "idle" /\ Idle.shown = <<>>
  BY DEF Idle
<1>4. ASSUME NEW d \in Device,
             \/ LocalWrite(d) \/ RequestCheckpoint(d) \/ IntervalPasses(d) \/ PushRetried(d)
             \/ \E e \in Device : Receive(d, e)
      PROVE  Kept
  BY <1>4, NothingChanges
  DEF LocalWrite, RequestCheckpoint, IntervalPasses, PushRetried, Receive, vault
<1>5. ASSUME NEW c, Rewind(c) \/ LateArrival(c) PROVE Kept
  BY <1>5, NothingChanges DEF Rewind, LateArrival, vault
<1>6. ASSUME NEW d \in Device, BeginCheckpoint(d) PROVE Kept
  <2>1. InPhase(Idle, "lookup").phase = "lookup"
    BY IdleType DEF InPhase, Job
  <2> QED BY <1>6, <2>1, IdleType, NextPageType, WorkChanges DEF BeginCheckpoint, vault
<1>7. ASSUME NEW d \in Device, ReadServed(d) PROVE Kept
  <2> DEFINE j == [job[d] EXCEPT !.phase = Answered[job[d].phase], !.shown = chain]
  <2>1. /\ j.published = job[d].published
        /\ j.phase \in {"looked", "page", "appended", "tailed"}
        /\ j.phase \in Publishing => job[d].phase \in Publishing
    BY <1>2, <1>7 DEF ReadServed, Answered, Job
  <2>2. JobBecomes(d, j) /\ UNCHANGED <<pin, scan>>
    BY <1>7 DEF ReadServed, vault
  <2> HIDE DEF j
  <2> QED BY <2>1, <2>2, WorkChanges DEF PinInv, PublishedFollowsPin
<1>8. ASSUME NEW d \in Device, FinishLookup(d) PROVE Kept
  BY <1>2, <1>3, <1>8, NextPageType, WorkChanges DEF FinishLookup, vault
<1>9. ASSUME NEW d \in Device, FinishPage(d) PROVE Kept
  <2>1. InPhase(job[d], "rows").phase = "rows" /\ InPhase(job[d], "rows").shown = job[d].shown
    BY <1>2 DEF InPhase, Job
  <2> QED BY <1>3, <1>9, <2>1, WorkChanges DEF FinishPage, vault
<1>10. ASSUME NEW d \in Device, ScanRow(d) PROVE Kept
  BY <1>10, RowKeeps
<1>11. ASSUME NEW d \in Device, PageSaved(d) PROVE Kept
  BY <1>2, <1>11, NextPageType, WorkChanges DEF PageSaved, vault
<1>12. ASSUME NEW d \in Device, PinMissing(d) \/ NothingDue(d) \/ RejectPublished(d) PROVE Kept
  BY <1>3, <1>12, WorkChanges DEF PinMissing, NothingDue, RejectPublished, vault
<1>13. ASSUME NEW d \in Device, AcceptEndpoint(d) PROVE Kept
  BY <1>2, <1>13, AcceptKeeps DEF AcceptEndpoint
<1>14. ASSUME NEW d \in Device, BuildCheckpoint(d) PROVE Kept
  <2> DEFINE l == [by |-> d, n |-> builds, front |-> heads[d]]
             c == Append(ScanAt(d), l)
  <2>1. c \in Checkpoint /\ Len(c) = Len(ScanAt(d)) + 1 /\ OnChain(ScanAt(d), c)
    <3>1. l \in Link
      BY DEF Link, PinInv, TypeOK
    <3> QED BY <1>2, <3>1, NewLink
  <2>2. pin[d] \in Checkpoint /\ OnChain(pin[d], ScanAt(d))
    BY <1>14, PinSeenMeans DEF BuildCheckpoint, PinInv, TypeOK
  <2> HIDE DEF l, c
  <2>3. OnChain(pin[d], c) /\ Len(pin[d]) < Len(c)
    <3>1. Len(pin[d]) \in Nat /\ Len(ScanAt(d)) \in Nat
      BY <1>2, <2>2 DEF Checkpoint
    <3> QED BY <1>2, <2>1, <2>2, <3>1, OnChainTransitive DEF OnChain
  <2> DEFINE j == [Idle EXCEPT !.phase = "push", !.published = c]
  <2>4. j.phase = "push" /\ j.published = c
    BY IdleType DEF Job
  <2>5. JobBecomes(d, j) /\ UNCHANGED <<pin, scan>>
    BY <1>14 DEF BuildCheckpoint, vault, l, c
  <2> HIDE DEF j
  <2> QED BY <2>3, <2>4, <2>5, WorkChanges
<1>15. ASSUME NEW d \in Device, PushServed(d) PROVE Kept
  <2>1. PICK ok \in BOOLEAN : JobBecomes(d, [job[d] EXCEPT !.phase = "pushed", !.ok = ok])
    BY <1>15 DEF PushServed
  <2> DEFINE j == [job[d] EXCEPT !.phase = "pushed", !.ok = ok]
  <2>2. j.phase = "pushed" /\ j.published = job[d].published
    BY <1>2 DEF Job
  <2>3. UNCHANGED <<pin, scan>> /\ job[d].phase \in Publishing
    BY <1>15 DEF PushServed, vault
  <2> HIDE DEF j
  <2> QED BY <2>1, <2>2, <2>3, WorkChanges DEF PinInv, PublishedFollowsPin, j
<1>16. ASSUME NEW d \in Device, FinishPush(d) \/ FinishAppend(d) PROVE Kept
  <2>1. \A phase : /\ Reading(job[d], phase).phase = phase
                   /\ Reading(job[d], phase).published = job[d].published
    BY IdleType DEF Reading, Job
  <2>2. UNCHANGED <<pin, scan>> /\ job[d].phase \in Publishing
    BY <1>16 DEF FinishPush, FinishAppend, vault
  <2> QED
    BY <1>3, <1>16, <2>1, <2>2, WorkChanges
    DEF FinishPush, FinishAppend, PinInv, PublishedFollowsPin
<1>17. ASSUME NEW d \in Device, AcceptPublished(d) PROVE Kept
  BY <1>2, <1>17, AcceptKeeps DEF AcceptPublished, Job
<1>18. ASSUME NEW d \in Device, ExchangeLost(d) \/ Crash(d) PROVE Kept
  BY <1>3, <1>18, WorkChanges DEF ExchangeLost, Crash, vault
<1>19. ASSUME UNCHANGED vars PROVE Kept
  BY <1>19, NothingChanges DEF vars, vault
<1>20. Kept
  BY <1>4, <1>5, <1>6, <1>7, <1>8, <1>9, <1>10, <1>11, <1>12, <1>13, <1>14, <1>15, <1>16,
     <1>17, <1>18, <1>19
  DEF Next, JobStep
<1> QED BY <1>1, <1>20 DEF PinInv

LEMMA PinInit == Init => PinInv
<1> SUFFICES ASSUME Init PROVE PinInv
  OBVIOUS
<1>1. <<>> \in Checkpoint
  BY DEF Checkpoint
<1>2. NewSchedule \in Schedule
  BY DEF NewSchedule, Schedule
<1>3. TypeOK
  <2>1. heads \in [Device -> Frontier] /\ builds \in Nat
    BY DEF Init, Frontier
  <2>2. pin \in [Device -> Checkpoint] /\ scan \in [Device -> SUBSET Scan]
    BY <1>1 DEF Init
  <2>3. schedule \in [Device -> Schedule] /\ job \in [Device -> Job]
    BY <1>2, IdleType DEF Init
  <2> QED BY <1>1, <2>1, <2>2, <2>3 DEF Init, TypeOK
<1>4. \A d \in Device : scan[d] = {} /\ job[d].phase = "idle"
  <2>1. Idle.phase = "idle"
    BY DEF Idle
  <2> QED BY <2>1 DEF Init
<1> QED BY <1>3, <1>4 DEF PinInv, OneScan, RowsFollowScan, ScanFollowsPin, PublishedFollowsPin, Publishing

(* The inductive invariant of scans and pins holds, whatever the provider  *)
(* shows (save_sync_checkpoint_scan, accept_sync_checkpoint_in_transaction).*)
THEOREM PinInvariant == Spec => []PinInv
<1>1. PinInv /\ [Next]_vars => PinInv'
  BY PinStep
<1> QED BY <1>1, PinInit, PTL DEF Spec

(* The variables of the checkpoint protocol keep their types.              *)
THEOREM CheckpointTypes == Spec => []TypeOK
<1>1. PinInv => TypeOK
  BY DEF PinInv
<1> QED BY <1>1, PinInvariant, PTL

(* A scan never outlives the pin it started from and says that it passed   *)
(* the pin exactly when it did, whatever the provider shows, forgets or    *)
(* forks (save_sync_checkpoint_scan, accept_sync_checkpoint_in_transaction).*)
THEOREM ScanFollowsPinAlways == Spec => []ScanFollowsPin
<1>1. PinInv => ScanFollowsPin
  BY DEF PinInv
<1> QED BY <1>1, PinInvariant, PTL

-----------------------------------------------------------------------------
(* How a pin moves. *)

LEMMA PinMoves ==
  ASSUME PinInv, [Next]_vars, NEW d \in Device, pin'[d] # pin[d]
  PROVE  /\ OnChain(pin[d], pin'[d]) /\ Len(pin[d]) < Len(pin'[d])
         /\ Tip(pin'[d]).front = heads'[d]
<1> DEFINE Moves == /\ OnChain(pin[d], pin'[d]) /\ Len(pin[d]) < Len(pin'[d])
                    /\ Tip(pin'[d]).front = heads'[d]
<1>1. ASSUME NEW e \in Device, AcceptEndpoint(e) PROVE Moves
  <2>1. e = d /\ pin'[d] = ScanAt(d) /\ heads' = heads
    BY <1>1 DEF AcceptEndpoint, Accept, PinInv, TypeOK
  <2>2. ScanAt(d) \in Checkpoint /\ pin[d] \in Checkpoint
    BY ScanAtType DEF PinInv, TypeOK
  <2>3. OnChain(pin[d], ScanAt(d)) /\ Tip(ScanAt(d)).front = heads[d]
    BY <1>1, <2>1, PinSeenMeans DEF AcceptEndpoint, MatchesState, PinInv
  <2>4. Len(pin[d]) \in Nat /\ Len(ScanAt(d)) \in Nat
    BY <2>2 DEF Checkpoint
  <2>5. Len(pin[d]) < Len(ScanAt(d))
    BY <2>1, <2>2, <2>3, <2>4, OnChainFull
  <2> QED BY <2>1, <2>3, <2>5
<1>2. ASSUME NEW e \in Device, AcceptPublished(e) PROVE Moves
  <2>1. e = d /\ pin'[d] = job[d].published /\ heads' = heads
    BY <1>2 DEF AcceptPublished, Accept, PinInv, TypeOK
  <2>2. Tip(job[d].published).front = heads[d]
    BY <1>2, <2>1 DEF AcceptPublished, MatchesState
  <2>3. OnChain(pin[d], job[d].published) /\ Len(pin[d]) < Len(job[d].published)
    BY <1>2, <2>1 DEF AcceptPublished, PinInv, PublishedFollowsPin, Publishing
  <2> QED BY <2>1, <2>2, <2>3
<1>3. ASSUME NEW e \in Device,
             \/ LocalWrite(e) \/ RequestCheckpoint(e) \/ IntervalPasses(e) \/ BeginCheckpoint(e)
             \/ ReadServed(e) \/ FinishLookup(e) \/ FinishPage(e) \/ ScanRow(e) \/ PageSaved(e)
             \/ PinMissing(e) \/ NothingDue(e) \/ BuildCheckpoint(e) \/ PushServed(e)
             \/ FinishPush(e) \/ FinishAppend(e) \/ RejectPublished(e) \/ PushRetried(e)
             \/ ExchangeLost(e) \/ Crash(e) \/ \E f \in Device : Receive(e, f)
      PROVE  UNCHANGED pin
  BY <1>3
  DEF LocalWrite, RequestCheckpoint, IntervalPasses, BeginCheckpoint, ReadServed, FinishLookup,
      FinishPage, ScanRow, PageSaved, PinMissing, NothingDue, BuildCheckpoint, PushServed,
      FinishPush, FinishAppend, RejectPublished, PushRetried, ExchangeLost, Crash, Receive, vault
<1>4. ASSUME NEW c, LateArrival(c) \/ Rewind(c) PROVE UNCHANGED pin
  BY <1>4 DEF LateArrival, Rewind, vault
<1>5. ASSUME UNCHANGED vars PROVE UNCHANGED pin
  BY <1>5 DEF vars, vault
<1> QED BY <1>1, <1>2, <1>3, <1>4, <1>5 DEF Next, JobStep

(* Whatever the provider shows, forgets or forks, a device never trusts a  *)
(* chain without its old pin, and it trusts only what certifies its state  *)
(* at that very moment (accept_sync_checkpoint_endpoint, finish_checkpoint).*)
THEOREM PinAdvancesAlways == Spec => PinAdvances
<1>1. PinInv /\ [Next]_vars =>
        [\A d \in Device : pin'[d] # pin[d] =>
           /\ OnChain(pin[d], pin'[d]) /\ Len(pin[d]) < Len(pin'[d])
           /\ Tip(pin'[d]).front = heads'[d]]_vars
  BY PinMoves
<1> QED BY <1>1, PinInvariant, PTL DEF Spec, PinAdvances

-----------------------------------------------------------------------------
(* One history. *)

(* A step after which the provider's chain is still on the new one, and    *)
(* that shows, scans and pins nothing but what was on it before or is now. *)
LEMMA HistoryGrows ==
  ASSUME PinInv, PinInv', ShownIsOnChain, OneHistory, rewinds' = rewinds,
         OnChain(chain, chain'),
         \A d \in Device : job'[d].shown \in {job[d].shown, chain, <<>>},
         \A d \in Device : pin'[d] \in {pin[d], ScanAt(d), job[d].shown},
         \A d \in Device : \A x \in scan'[d] :
            \/ OnChain(x.at, job[d].shown)
            \/ \E y \in scan[d] : y.at = x.at
  PROVE  ShownIsOnChain' /\ OneHistory'
<1> SUFFICES ASSUME rewinds = 0, NEW d \in Device
             PROVE  /\ OnChain(job'[d].shown, chain') /\ OnChain(pin'[d], chain')
                    /\ \A x \in scan'[d] : OnChain(x.at, chain')
  BY DEF ShownIsOnChain, OneHistory, OnChain
<1>1. /\ chain \in Checkpoint /\ chain' \in Checkpoint /\ <<>> \in Checkpoint
      /\ job[d].shown \in Checkpoint /\ pin[d] \in Checkpoint /\ ScanAt(d) \in Checkpoint
      /\ \A x \in scan[d] : x.at \in Checkpoint
      /\ \A x \in scan'[d] : x.at \in Checkpoint
  <2>1. <<>> \in Checkpoint
    BY DEF Checkpoint
  <2>2. job[d] \in Job /\ pin[d] \in Checkpoint /\ scan[d] \in SUBSET Scan
    BY DEF PinInv, TypeOK
  <2>3. scan'[d] \in SUBSET Scan /\ chain \in Checkpoint /\ chain' \in Checkpoint
    BY DEF PinInv, TypeOK
  <2> QED BY <2>1, <2>2, <2>3, ScanAtType DEF PinInv, Job, Scan
<1>2. \A c \in Checkpoint : OnChain(c, chain) => OnChain(c, chain')
  BY <1>1, OnChainTransitive
<1>3. OnChain(job[d].shown, chain) /\ OnChain(pin[d], chain)
  BY DEF ShownIsOnChain, OneHistory
<1>4. OnChain(ScanAt(d), chain)
  <2>1. CASE scan[d] = {}
    BY <1>1, <2>1, OnChainSelf DEF ScanAt
  <2>2. CASE scan[d] # {}
    <3>1. PICK x \in scan[d] : TRUE
      BY <2>2
    <3> QED BY <3>1, TheScan DEF PinInv, OneHistory
  <2> QED BY <2>1, <2>2
<1>5. OnChain(job'[d].shown, chain')
  BY <1>1, <1>2, <1>3, OnChainSelf
<1>6. OnChain(pin'[d], chain')
  BY <1>1, <1>2, <1>3, <1>4
<1>7. ASSUME NEW x \in scan'[d] PROVE OnChain(x.at, chain')
  <2>1. OnChain(x.at, chain)
    BY <1>1, <1>3, OnChainTransitive DEF OneHistory
  <2> QED BY <1>1, <1>2, <2>1
<1> QED BY <1>5, <1>6, <1>7

(* Every step keeps one history. *)
LEMMA HistoryStep ==
  ASSUME CheckpointInv, [Next]_vars
  PROVE  CheckpointInv'
<1> DEFINE Kept == ShownIsOnChain' /\ OneHistory'
<1>1. PinInv /\ PinInv' /\ ShownIsOnChain /\ OneHistory
  BY PinStep DEF CheckpointInv
<1>2. /\ chain \in Checkpoint /\ job \in [Device -> Job] /\ wire \in SUBSET Checkpoint
      /\ \A d \in Device : pin[d] \in Checkpoint /\ job[d] \in Job
      /\ pin \in [Device -> Checkpoint] /\ scan \in [Device -> SUBSET Scan]
      /\ rewinds \in Nat
  BY <1>1 DEF PinInv, TypeOK
<1>3. OnChain(chain, chain)
  BY <1>2, OnChainSelf
<1>4. ASSUME NEW d \in Device, NEW j, JobBecomes(d, j),
             j.shown \in {job[d].shown, chain, <<>>},
             UNCHANGED <<pin, scan, rewinds>>, OnChain(chain, chain')
      PROVE  Kept
  <2>1. \A e \in Device : job'[e] = IF e = d THEN j ELSE job[e]
    BY <1>2, <1>4 DEF JobBecomes
  <2> QED BY <1>1, <1>4, <2>1, HistoryGrows
<1>5. ASSUME UNCHANGED <<pin, scan, job, rewinds>>, OnChain(chain, chain') PROVE Kept
  BY <1>1, <1>5, HistoryGrows
<1>6. ASSUME NEW c \in Checkpoint, NEW ok, ProviderAppend(c, ok) PROVE OnChain(chain, chain')
  BY <1>2, <1>3, <1>6, ExtendsChain DEF ProviderAppend
<1>7. Idle.shown = <<>>
  BY DEF Idle
<1>8. ASSUME NEW d \in Device,
             \/ LocalWrite(d) \/ RequestCheckpoint(d) \/ IntervalPasses(d) \/ PushRetried(d)
             \/ \E e \in Device : Receive(d, e)
      PROVE  Kept
  BY <1>3, <1>5, <1>8
  DEF LocalWrite, RequestCheckpoint, IntervalPasses, PushRetried, Receive, vault, bounds
<1>9. ASSUME NEW c, Rewind(c) PROVE Kept
  <2>1. rewinds' # 0
    BY <1>2, <1>9 DEF Rewind
  <2> QED BY <2>1 DEF ShownIsOnChain, OneHistory
<1>10. ASSUME NEW c \in wire, LateArrival(c) PROVE Kept
  <2>1. OnChain(chain, chain')
    BY <1>2, <1>6, <1>10 DEF LateArrival
  <2> QED BY <1>5, <1>10, <2>1 DEF LateArrival, vault, bounds
<1>11. ASSUME NEW d \in Device, BeginCheckpoint(d) PROVE Kept
  <2>1. InPhase(Idle, "lookup").shown = <<>>
    BY IdleType DEF InPhase, Idle
  <2> QED BY <1>3, <1>4, <1>11, <2>1, IdleType, NextPageType DEF BeginCheckpoint, vault, bounds
<1>12. ASSUME NEW d \in Device, ReadServed(d) PROVE Kept
  <2> DEFINE j == [job[d] EXCEPT !.phase = Answered[job[d].phase], !.shown = chain]
  <2>1. j.shown = chain
    BY <1>2 DEF Job
  <2>2. JobBecomes(d, j)
    BY <1>12 DEF ReadServed
  <2> HIDE DEF j
  <2> QED BY <1>3, <1>4, <1>12, <2>1, <2>2 DEF ReadServed, vault, bounds
<1>13. ASSUME NEW d \in Device, FinishLookup(d) \/ PageSaved(d) PROVE Kept
  BY <1>2, <1>3, <1>4, <1>7, <1>13, NextPageType DEF FinishLookup, PageSaved, vault, bounds
<1>14. ASSUME NEW d \in Device, FinishPage(d) PROVE Kept
  <2>1. InPhase(job[d], "rows").shown = job[d].shown
    BY <1>2 DEF InPhase, Job
  <2> QED BY <1>3, <1>4, <1>7, <1>14, <2>1 DEF FinishPage, vault, bounds
<1>15. ASSUME NEW d \in Device, ScanRow(d) PROVE Kept
  <2> DEFINE row == SubSeq(job[d].shown, 1, Len(ScanAt(d)) + 1)
             new == [at |-> row, base |-> pin[d], seen |-> PinSeen(d) \/ row = pin[d]]
  <2>1. OnChain(row, job[d].shown)
    BY <1>1, <1>15, RowType DEF PinInv
  <2>2. new.at = row
    OBVIOUS
  <2>3. /\ scan'[d] = {new}
        /\ \A e \in Device \ {d} : scan'[e] = scan[e]
    BY <1>2, <1>15 DEF ScanRow
  <2>4. \A e \in Device : job'[e].shown = job[e].shown
    <3>1. job'[d] = [job[d] EXCEPT !.limit = @ - 1, !.scanned = @ + 1]
      BY <1>2, <1>15 DEF ScanRow, JobBecomes
    <3>2. \A e \in Device \ {d} : job'[e] = job[e]
      BY <1>2, <1>15 DEF ScanRow, JobBecomes
    <3> QED BY <1>2, <3>1, <3>2 DEF Job
  <2> HIDE DEF new, row
  <2>5. \A e \in Device : \A x \in scan'[e] :
           OnChain(x.at, job[e].shown) \/ \E y \in scan[e] : y.at = x.at
    BY <2>1, <2>2, <2>3
  <2>6. UNCHANGED <<pin, chain, rewinds>>
    BY <1>15 DEF ScanRow, bounds
  <2> QED BY <1>1, <1>3, <2>4, <2>5, <2>6, HistoryGrows
<1>16. ASSUME NEW d \in Device,
              PinMissing(d) \/ NothingDue(d) \/ RejectPublished(d) \/ ExchangeLost(d) \/ Crash(d)
       PROVE  Kept
  BY <1>3, <1>4, <1>7, <1>16
  DEF PinMissing, NothingDue, RejectPublished, ExchangeLost, Crash, vault, bounds
<1>17. ASSUME NEW d \in Device, NEW c, c \in {ScanAt(d), job[d].shown}, Accept(d, c),
              JobBecomes(d, Idle), UNCHANGED <<chain, rewinds>>
       PROVE  Kept
  <2>1. \A e \in Device : job'[e] = IF e = d THEN Idle ELSE job[e]
    BY <1>2, <1>17 DEF JobBecomes
  <2>2. /\ \A e \in Device : pin'[e] = IF e = d THEN c ELSE pin[e]
        /\ \A e \in Device \ {d} : scan'[e] = scan[e]
        /\ scan'[d] = {[x EXCEPT !.base = c, !.seen = TRUE] : x \in {y \in scan[d] : y.at = c}}
    BY <1>2, <1>17 DEF Accept
  <2>3. \A x \in scan'[d] : \E y \in scan[d] : y.at = x.at
    <3> TAKE x \in scan'[d]
    <3>1. PICK y \in scan[d] : y.at = c /\ x = [y EXCEPT !.base = c, !.seen = TRUE]
      BY <2>2
    <3>2. y \in Scan
      BY <1>2
    <3> QED BY <3>1, <3>2 DEF Scan
  <2> QED BY <1>1, <1>3, <1>7, <1>17, <2>1, <2>2, <2>3, HistoryGrows
<1>18. ASSUME NEW d \in Device, AcceptEndpoint(d) \/ AcceptPublished(d) PROVE Kept
  BY <1>17, <1>18 DEF AcceptEndpoint, AcceptPublished, bounds
<1>19. ASSUME NEW d \in Device, BuildCheckpoint(d) PROVE Kept
  <2> DEFINE c == Append(ScanAt(d), [by |-> d, n |-> builds, front |-> heads[d]])
             j == [Idle EXCEPT !.phase = "push", !.published = c]
  <2>1. j.shown = <<>>
    BY DEF Idle
  <2>2. JobBecomes(d, j)
    BY <1>19 DEF BuildCheckpoint
  <2> HIDE DEF j
  <2> QED BY <1>3, <1>4, <1>19, <2>1, <2>2 DEF BuildCheckpoint, vault, bounds
<1>20. ASSUME NEW d \in Device, PushServed(d) PROVE Kept
  <2>1. PICK ok \in BOOLEAN : /\ ProviderAppend(job[d].published, ok)
                             /\ JobBecomes(d, [job[d] EXCEPT !.phase = "pushed", !.ok = ok])
    BY <1>20 DEF PushServed
  <2>2. [job[d] EXCEPT !.phase = "pushed", !.ok = ok].shown = job[d].shown
    BY <1>2 DEF Job
  <2>3. OnChain(chain, chain')
    BY <1>2, <1>6, <2>1 DEF Job
  <2>4. UNCHANGED <<pin, scan, rewinds>>
    BY <1>20 DEF PushServed, vault, bounds
  <2> QED BY <1>4, <2>1, <2>2, <2>3, <2>4
<1>21. ASSUME NEW d \in Device, FinishPush(d) \/ FinishAppend(d) PROVE Kept
  <2>1. \A phase : Reading(job[d], phase).shown = <<>>
    BY DEF Reading, Idle
  <2> QED BY <1>3, <1>4, <1>7, <1>21, <2>1 DEF FinishPush, FinishAppend, vault, bounds
<1>22. ASSUME UNCHANGED vars PROVE Kept
  BY <1>3, <1>5, <1>22 DEF vars, vault, bounds
<1>23. Kept
  BY <1>8, <1>9, <1>10, <1>11, <1>12, <1>13, <1>14, <1>15, <1>16, <1>18, <1>19, <1>20, <1>21,
     <1>22
  DEF Next, JobStep
<1> QED BY <1>1, <1>23 DEF CheckpointInv

(* Unless the provider rewinds, every pin and every scan is on its one     *)
(* chain, however many devices publish while others are publishing         *)
(* (finish_checkpoint, append_checkpoint).                                 *)
THEOREM OneHistoryAlways == Spec => []OneHistory
<1>1. Init => CheckpointInv
  <2> SUFFICES ASSUME Init PROVE CheckpointInv
    OBVIOUS
  <2>1. PinInv /\ <<>> \in Checkpoint
    BY PinInit DEF Checkpoint
  <2>2. \A d \in Device : pin[d] = <<>> /\ scan[d] = {} /\ job[d].shown = <<>>
    <3>1. Idle.shown = <<>>
      BY DEF Idle
    <3> QED BY <3>1 DEF Init
  <2> QED BY <2>1, <2>2, OnChainSelf DEF Init, CheckpointInv, ShownIsOnChain, OneHistory
<1>2. CheckpointInv /\ [Next]_vars => CheckpointInv'
  BY HistoryStep
<1>3. CheckpointInv => OneHistory
  BY DEF CheckpointInv
<1> QED BY <1>1, <1>2, <1>3, PTL DEF Spec

=============================================================================
