---------------------------- MODULE SyncCheckpoint ----------------------------
(***************************************************************************)
(* Signed checkpoints: after a pull a device looks up the checkpoint it    *)
(* has pinned, scans the provider's chain of checkpoints behind it, pins   *)
(* the end of the chain when that certifies its own state, and otherwise,  *)
(* when one is due, publishes a checkpoint of its own and pins that        *)
(* (crates/core/src/sync/engine/checkpoints.rs).                           *)
(*                                                                         *)
(* A checkpoint signs the hash of the previous one, so its hash fixes the  *)
(* whole chain up to it.  Here a checkpoint IS that chain: a sequence of   *)
(* links, its own link last, and <<>> for the zero hash.  The rows of the  *)
(* provider's chain are its non-empty prefixes, and a cursor is the prefix *)
(* it points at.                                                           *)
(*                                                                         *)
(* What a device has stored is its frontier: by SyncReplication's          *)
(* Convergence the state hash is a function of it.                         *)
(***************************************************************************)
EXTENDS Naturals, Sequences

CONSTANTS
  Device,              \* the devices of one workspace
  OperationThreshold,  \* OPERATION_THRESHOLD, the operations that make a checkpoint due (1024)
  MaxBatch,            \* MAX_BATCH, the rows of one page (256)
  MaxOperations,       \* max_operations, the rows one cycle may scan (1024)
  MaxWrites,           \* bound: local writes of a device
  MaxBuilds,           \* bound: checkpoints that are built
  MaxTriggers,         \* bound: requests of a checkpoint and elapsed intervals
  MaxFaults            \* bound: failed exchanges, rewinds of the provider and deaths of a daemon

ASSUME CheckpointAssumption ==
  /\ OperationThreshold \in Nat \ {0}
  /\ MaxBatch \in Nat \ {0} /\ MaxOperations \in Nat \ {0}
  /\ MaxWrites \in Nat /\ MaxBuilds \in Nat /\ MaxTriggers \in Nat
  /\ MaxFaults \in Nat

VARIABLES
  heads,      \* sync_device_heads: heads[d][e]
  chain,      \* the provider's chain
  issued,     \* every checkpoint the provider ever took
  wire,       \* abandoned pushes that may still arrive
  pin,        \* sync_checkpoint_pins: pin[d], <<>> when there is none
  scan,       \* sync_checkpoint_scans: scan[d] is {} or one [at, base, seen]
  schedule,   \* sync_checkpoint_schedule
  builds,     \* how many checkpoints were built: the time of created_hlc
  job,        \* the volatile checkpoint work of each device
  triggers, faults, crashes, rewinds   \* how much of each bound is used up

vault == <<heads, pin, scan, schedule>>
bounds == <<triggers, faults, crashes, rewinds>>
vars == <<vault, chain, issued, wire, builds, job, bounds>>

-----------------------------------------------------------------------------
(* Data. *)

Frontier == [Device -> Nat]
Link == [by : Device, n : Nat, front : Frontier]
Checkpoint == Seq(Link)
Scan == [at : Checkpoint, base : Checkpoint, seen : BOOLEAN]
Schedule == [applied : Nat, aged : BOOLEAN, requested : BOOLEAN]

Phases == {"idle", "lookup", "looked", "scan", "page", "rows", "push", "pushed",
           "append", "appended", "tail", "tailed"}

(* PreparedCheckpoint and its response: shown is the provider's chain when *)
(* it answered, limit the rows of the page still to be saved, scanned the  *)
(* rows saved so far and published the checkpoint this cycle has built.    *)
Job == [phase : Phases, shown : Checkpoint, limit : Nat, scanned : Nat,
        published : Checkpoint, ok : BOOLEAN]

Idle == [phase |-> "idle", shown |-> <<>>, limit |-> 0, scanned |-> 0,
         published |-> <<>>, ok |-> FALSE]

NewSchedule == [applied |-> 0, aged |-> FALSE, requested |-> FALSE]

(* p is the chain of some row of c, or the zero hash. *)
OnChain(p, c) == Len(p) <= Len(c) /\ \A i \in 1 .. Len(p) : p[i] = c[i]

Tip(c) == c[Len(c)]

Smaller(a, b) == IF a < b THEN a ELSE b

TypeOK ==
  /\ heads \in [Device -> Frontier]
  /\ chain \in Checkpoint
  /\ issued \in SUBSET Checkpoint
  /\ wire \in SUBSET Checkpoint
  /\ pin \in [Device -> Checkpoint]
  /\ scan \in [Device -> SUBSET Scan]
  /\ schedule \in [Device -> Schedule]
  /\ builds \in Nat
  /\ job \in [Device -> Job]
  /\ triggers \in Nat /\ faults \in Nat /\ crashes \in Nat /\ rewinds \in Nat

Init ==
  /\ heads = [d \in Device |-> [e \in Device |-> 0]]
  /\ chain = <<>>
  /\ issued = {}
  /\ wire = {}
  /\ pin = [d \in Device |-> <<>>]
  /\ scan = [d \in Device |-> {}]
  /\ schedule = [d \in Device |-> NewSchedule]
  /\ builds = 0
  /\ job = [d \in Device |-> Idle]
  /\ triggers = 0 /\ faults = 0 /\ crashes = 0 /\ rewinds = 0

JobBecomes(d, j) == job' = [job EXCEPT ![d] = j]
InPhase(j, phase) == [j EXCEPT !.phase = phase]
Reading(j, phase) == [Idle EXCEPT !.phase = phase, !.published = j.published]

-----------------------------------------------------------------------------
(* What else happens in the vault.  The vault owner is busy while it saves *)
(* the rows of a page; otherwise other commands run between two steps.     *)

OwnerBusy(d) == job[d].phase = "rows"

(* note_checkpoint_operation, in the transaction that stores an operation. *)
NoteOperation(d) == schedule' = [schedule EXCEPT ![d].applied = @ + 1]

LocalWrite(d) ==
  /\ ~OwnerBusy(d)
  /\ heads[d][d] < MaxWrites
  /\ heads' = [heads EXCEPT ![d][d] = @ + 1]
  /\ NoteOperation(d)
  /\ UNCHANGED <<chain, issued, wire, pin, scan, builds, job, bounds>>

(* The pull of the same cycle, which has ended before the checkpoint work  *)
(* begins, applies the next operation of device e.                         *)
Receive(d, e) ==
  /\ job[d].phase = "idle"
  /\ e # d /\ heads[d][e] < heads[e][e]
  /\ heads' = [heads EXCEPT ![d][e] = @ + 1]
  /\ NoteOperation(d)
  /\ UNCHANGED <<chain, issued, wire, pin, scan, builds, job, bounds>>

(* request_sync_checkpoint. *)
RequestCheckpoint(d) ==
  /\ ~OwnerBusy(d)
  /\ triggers < MaxTriggers
  /\ triggers' = triggers + 1
  /\ schedule' = [schedule EXCEPT ![d].requested = TRUE]
  /\ UNCHANGED <<heads, chain, issued, wire, pin, scan, builds, job, faults, crashes, rewinds>>

(* INTERVAL_MS has passed since the first operation without a checkpoint. *)
IntervalPasses(d) ==
  /\ schedule[d].applied > 0 /\ ~schedule[d].aged
  /\ triggers < MaxTriggers
  /\ triggers' = triggers + 1
  /\ schedule' = [schedule EXCEPT ![d].aged = TRUE]
  /\ UNCHANGED <<heads, chain, issued, wire, pin, scan, builds, job, faults, crashes, rewinds>>

(* SyncCheckpointSchedule::is_due. *)
IsDue(s) == s.requested \/ s.applied >= OperationThreshold \/ (s.applied > 0 /\ s.aged)

-----------------------------------------------------------------------------
(* The provider. *)

(* Faulty variant: any earlier checkpoint may be extended. *)
Extends_AnyTip(c) == c # <<>> /\ ~OnChain(c, chain)

(* A checkpoint it holds is a duplicate; any other one must extend the end *)
(* of the chain.                                                           *)
Extends(c) == c # <<>> /\ SubSeq(c, 1, Len(c) - 1) = chain

ProviderAppend(c, ok) ==
  \/ ok /\ c # <<>> /\ OnChain(c, chain) /\ UNCHANGED <<chain, issued>>
  \/ ok /\ Extends(c) /\ chain' = c /\ issued' = issued \union {c}
  \/ ~ok /\ ~OnChain(c, chain) /\ ~Extends(c) /\ UNCHANGED <<chain, issued>>

(* Untrusted storage shows the chain of any checkpoint it ever took. *)
Rewind(c) ==
  /\ faults + rewinds + crashes < MaxFaults
  /\ c # chain
  /\ chain' = c
  /\ rewinds' = rewinds + 1
  /\ UNCHANGED <<vault, issued, wire, builds, job, triggers, faults, crashes>>

-----------------------------------------------------------------------------
(* Lookup and Scan. *)

(* next_checkpoint_page: a scan for another pin is an error, a used up     *)
(* budget ends the work.                                                   *)
NextPage(j, s, p) ==
  IF (\E x \in s : x.base # p) \/ j.scanned >= MaxOperations THEN Idle
  ELSE [Idle EXCEPT !.phase = "scan", !.scanned = j.scanned,
                    !.limit = Smaller(MaxOperations - j.scanned, MaxBatch)]

(* prepare_checkpoint. *)
BeginCheckpoint(d) ==
  /\ job[d].phase = "idle"
  /\ JobBecomes(d, IF pin[d] = <<>> THEN NextPage(Idle, scan[d], pin[d])
                   ELSE InPhase(Idle, "lookup"))
  /\ UNCHANGED <<vault, chain, issued, wire, builds, bounds>>

(* The provider answers a lookup or a page: what it shows is its chain at  *)
(* that moment.                                                            *)
Answered == [lookup |-> "looked", scan |-> "page", append |-> "appended", tail |-> "tailed"]

ReadServed(d) ==
  /\ job[d].phase \in {"lookup", "scan", "append", "tail"}
  /\ JobBecomes(d, [job[d] EXCEPT !.phase = Answered[job[d].phase], !.shown = chain])
  /\ UNCHANGED <<vault, chain, issued, wire, builds, bounds>>

(* The pinned checkpoint must still be there. *)
FinishLookup(d) ==
  /\ job[d].phase = "looked"
  /\ JobBecomes(d, IF OnChain(pin[d], job[d].shown) THEN NextPage(job[d], scan[d], pin[d])
                   ELSE Idle)
  /\ UNCHANGED <<vault, chain, issued, wire, builds, bounds>>

(* Faulty variant: the pin is taken to be on the chain. *)
PinSeen_Assumed(d) == TRUE

(* Where the scan stands, and whether it has passed the pin. *)
ScanAt(d) == IF scan[d] = {} THEN <<>> ELSE (CHOOSE x \in scan[d] : TRUE).at
PinSeen(d) == IF scan[d] = {} THEN pin[d] = <<>> ELSE (CHOOSE x \in scan[d] : TRUE).seen

(* A page has rows when the chain goes on behind the cursor. *)
FinishPage(d) ==
  /\ job[d].phase = "page"
  /\ ScanAt(d) # job[d].shown
  /\ JobBecomes(d, IF OnChain(ScanAt(d), job[d].shown) THEN InPhase(job[d], "rows") ELSE Idle)
  /\ UNCHANGED <<vault, chain, issued, wire, builds, bounds>>

(* Faulty variant: the rows behind the limit are saved as well. *)
ScanRow_IgnoresLimit(d) ==
  /\ job[d].phase = "rows"
  /\ ScanAt(d) # job[d].shown
  /\ LET row == SubSeq(job[d].shown, 1, Len(ScanAt(d)) + 1)
     IN  scan' = [scan EXCEPT ![d] = {[at |-> row, base |-> pin[d],
                                       seen |-> PinSeen(d) \/ row = pin[d]]}]
  /\ JobBecomes(d, [job[d] EXCEPT !.limit = @ - 1, !.scanned = @ + 1])
  /\ UNCHANGED <<heads, pin, schedule, chain, issued, wire, builds, bounds>>

(* save_sync_checkpoint_scan: the next row of the page, in a transaction   *)
(* of its own.                                                             *)
ScanRow(d) ==
  /\ job[d].phase = "rows"
  /\ job[d].limit > 0 /\ ScanAt(d) # job[d].shown
  /\ LET row == SubSeq(job[d].shown, 1, Len(ScanAt(d)) + 1)
     IN  scan' = [scan EXCEPT ![d] = {[at |-> row, base |-> pin[d],
                                       seen |-> PinSeen(d) \/ row = pin[d]]}]
  /\ JobBecomes(d, [job[d] EXCEPT !.limit = @ - 1, !.scanned = @ + 1])
  /\ UNCHANGED <<heads, pin, schedule, chain, issued, wire, builds, bounds>>

PageSaved(d) ==
  /\ job[d].phase = "rows"
  /\ job[d].limit = 0 \/ ScanAt(d) = job[d].shown
  /\ JobBecomes(d, NextPage(job[d], scan[d], pin[d]))
  /\ UNCHANGED <<vault, chain, issued, wire, builds, bounds>>

-----------------------------------------------------------------------------
(* The end of the chain. *)

EmptyPage(d) == job[d].phase = "page" /\ ScanAt(d) = job[d].shown

(* A checkpoint is due; at the bound nothing is. *)
MayBuild(d) == IsDue(schedule[d]) /\ builds < MaxBuilds

(* checkpoint_matches_local_state. *)
MatchesState(d, c) == c # <<>> /\ Tip(c).front = heads[d]

(* A chain without the pin is an error. *)
PinMissing(d) ==
  /\ EmptyPage(d) /\ ~PinSeen(d)
  /\ JobBecomes(d, Idle)
  /\ UNCHANGED <<vault, chain, issued, wire, builds, bounds>>

(* Faulty variants: the scans of the old pin are kept; a request outlives  *)
(* the checkpoint it asked for.                                            *)
Accept_KeepsScan(d, c) ==
  /\ pin' = [pin EXCEPT ![d] = c]
  /\ schedule' = [schedule EXCEPT ![d] = NewSchedule]
  /\ UNCHANGED scan

Accept_KeepsRequest(d, c) ==
  /\ pin' = [pin EXCEPT ![d] = c]
  /\ schedule' = [schedule EXCEPT ![d].applied = 0, ![d].aged = FALSE]
  /\ scan' = [scan EXCEPT ![d] = {[x EXCEPT !.base = c, !.seen = TRUE] :
                                      x \in {y \in @ : y.at = c}}]

(* accept_sync_checkpoint_in_transaction: pin, schedule, and the scans     *)
(* that are not at the new pin.                                            *)
Accept(d, c) ==
  /\ pin' = [pin EXCEPT ![d] = c]
  /\ schedule' = [schedule EXCEPT ![d] = NewSchedule]
  /\ scan' = [scan EXCEPT ![d] = {[x EXCEPT !.base = c, !.seen = TRUE] :
                                      x \in {y \in @ : y.at = c}}]

(* accept_sync_checkpoint_endpoint: the last checkpoint certifies this     *)
(* device's own state.  The schedule starts anew, so nothing is due.       *)
AcceptEndpoint(d) ==
  /\ EmptyPage(d) /\ PinSeen(d)
  /\ MatchesState(d, ScanAt(d))
  /\ Accept(d, ScanAt(d))
  /\ JobBecomes(d, Idle)
  /\ UNCHANGED <<heads, chain, issued, wire, builds, bounds>>

NothingDue(d) ==
  /\ EmptyPage(d) /\ PinSeen(d)
  /\ ~MatchesState(d, ScanAt(d))
  /\ ~MayBuild(d)
  /\ JobBecomes(d, Idle)
  /\ UNCHANGED <<vault, chain, issued, wire, builds, bounds>>

(* build_checkpoint, build_checkpoint_after_chain: the state as it is now, *)
(* linked to the end of the scanned chain, or to nothing when it is empty. *)
BuildCheckpoint(d) ==
  /\ EmptyPage(d) /\ PinSeen(d)
  /\ ~MatchesState(d, ScanAt(d))
  /\ MayBuild(d)
  /\ builds' = builds + 1
  /\ JobBecomes(d, [Idle EXCEPT !.phase = "push",
        !.published = Append(ScanAt(d), [by |-> d, n |-> builds, front |-> heads[d]])])
  /\ UNCHANGED <<vault, chain, issued, wire, bounds>>

-----------------------------------------------------------------------------
(* Push, Append and Tail. *)

PushServed(d) ==
  /\ job[d].phase = "push"
  /\ \E ok \in BOOLEAN :
       /\ ProviderAppend(job[d].published, ok)
       /\ JobBecomes(d, [job[d] EXCEPT !.phase = "pushed", !.ok = ok])
  /\ UNCHANGED <<vault, wire, builds, bounds>>

(* Without an answer the transport sends the request again; the first one  *)
(* may have arrived, or arrive later.                                      *)
PushRetried(d) ==
  /\ job[d].phase = "push"
  /\ faults + rewinds + crashes < MaxFaults
  /\ faults' = faults + 1
  /\ wire' = wire \union {job[d].published}
  /\ UNCHANGED <<vault, chain, issued, builds, job, triggers, crashes, rewinds>>

LateArrival(c) ==
  /\ \E ok \in BOOLEAN : ProviderAppend(c, ok)
  /\ wire' = wire \ {c}
  /\ UNCHANGED <<vault, builds, job, bounds>>

(* A refused push ends the work; an accepted one is read back. *)
FinishPush(d) ==
  /\ job[d].phase = "pushed"
  /\ JobBecomes(d, IF job[d].ok THEN Reading(job[d], "append") ELSE Idle)
  /\ UNCHANGED <<vault, chain, issued, wire, builds, bounds>>

(* The only row behind the end of the scan must be the published one. *)
FinishAppend(d) ==
  /\ job[d].phase = "appended"
  /\ JobBecomes(d, IF job[d].shown = job[d].published THEN Reading(job[d], "tail") ELSE Idle)
  /\ UNCHANGED <<vault, chain, issued, wire, builds, bounds>>

(* Nothing may follow it, and it must certify the state as it is now:      *)
(* local writes may have run during the exchanges.                         *)
AcceptPublished(d) ==
  /\ job[d].phase = "tailed"
  /\ job[d].shown = job[d].published
  /\ MatchesState(d, job[d].published)
  /\ Accept(d, job[d].published)
  /\ JobBecomes(d, Idle)
  /\ UNCHANGED <<heads, chain, issued, wire, builds, bounds>>

RejectPublished(d) ==
  /\ job[d].phase = "tailed"
  /\ job[d].shown # job[d].published \/ ~MatchesState(d, job[d].published)
  /\ JobBecomes(d, Idle)
  /\ UNCHANGED <<vault, chain, issued, wire, builds, bounds>>

-----------------------------------------------------------------------------
(* Failures. *)

(* A request under way when an exchange fails or the daemon dies may still *)
(* arrive.                                                                 *)
UnderWay(d) ==
  wire' \in {wire, wire \union (IF job[d].phase = "push" THEN {job[d].published} ELSE {})}

(* The exchange fails and the cycle ends. *)
ExchangeLost(d) ==
  /\ job[d].phase \in {"lookup", "scan", "push", "append", "tail"}
  /\ faults + rewinds + crashes < MaxFaults
  /\ faults' = faults + 1
  /\ UnderWay(d)
  /\ JobBecomes(d, Idle)
  /\ UNCHANGED <<vault, chain, issued, builds, triggers, crashes, rewinds>>

(* The vault is durable, the work is not. *)
Crash(d) ==
  /\ job[d].phase # "idle"
  /\ faults + rewinds + crashes < MaxFaults
  /\ crashes' = crashes + 1
  /\ UnderWay(d)
  /\ JobBecomes(d, Idle)
  /\ UNCHANGED <<vault, chain, issued, builds, triggers, faults, rewinds>>

(* What the work does by itself, without faults. *)
JobStep(d) ==
  \/ BeginCheckpoint(d) \/ ReadServed(d) \/ FinishLookup(d) \/ FinishPage(d)
  \/ ScanRow(d) \/ PageSaved(d) \/ PinMissing(d) \/ AcceptEndpoint(d)
  \/ NothingDue(d) \/ BuildCheckpoint(d) \/ PushServed(d) \/ FinishPush(d)
  \/ FinishAppend(d) \/ AcceptPublished(d) \/ RejectPublished(d)

Next ==
  \/ \E d \in Device :
       \/ LocalWrite(d) \/ RequestCheckpoint(d) \/ IntervalPasses(d) \/ JobStep(d)
       \/ PushRetried(d) \/ ExchangeLost(d) \/ Crash(d)
       \/ \E e \in Device : Receive(d, e)
  \/ \E c \in wire : LateArrival(c)
  \/ \E c \in issued \union {<<>>} : Rewind(c)

Spec == Init /\ [][Next]_vars

(* Every cycle of the supervisor runs the checkpoint work again. *)
FairSpec == Spec /\ \A d \in Device : WF_vars(JobStep(d))

-----------------------------------------------------------------------------
(* Safety. *)

(* A pin only moves forward on one history: whatever the provider shows,   *)
(* forgets or forks, a device never trusts a chain without its old pin.    *)
(* And it moves only to what certifies the device's state at that very     *)
(* moment, although that was published or scanned before writes that ran   *)
(* during the exchanges.                                                   *)
PinAdvances ==
  [][\A d \in Device : pin'[d] # pin[d] =>
       /\ OnChain(pin[d], pin'[d]) /\ Len(pin[d]) < Len(pin'[d])
       /\ Tip(pin'[d]).front = heads'[d]]_vars

(* A scan never outlives the pin it started from, and says that it passed  *)
(* the pin exactly when it did: otherwise every later cycle would fail.    *)
ScanFollowsPin ==
  \A d \in Device : \A x \in scan[d] :
    x.base = pin[d] /\ (x.seen <=> OnChain(pin[d], x.at))

(* Unless the provider rewinds, all pins and scans are on its one chain,   *)
(* whoever published while others were publishing.                         *)
OneHistory ==
  rewinds = 0 =>
    \A d \in Device :
      OnChain(pin[d], chain) /\ \A x \in scan[d] : OnChain(x.at, chain)

(* A checkpoint that is due is eventually accepted, as long as attempts    *)
(* remain.  An attempt can be spoiled by a failed exchange, a death, a     *)
(* write that runs during it or another publisher, and two due devices     *)
(* with different states can foil each other as often as they try; but     *)
(* none of these ends the trying.  So a device stays due for ever only     *)
(* after a rewind, or when every attempt the bound allows was made and the *)
(* last checkpoint of the chain, which any device may have published,      *)
(* certifies another state than its own.                                   *)
EventuallyCheckpointed ==
  <>[](\A d \in Device : IsDue(schedule[d]) =>
         rewinds > 0 \/ (builds = MaxBuilds /\ ~MatchesState(d, chain)))

=============================================================================
