# Verification of Context Relay

Context Relay is a shared, encrypted memory and task workspace for the coding
agents Claude Code, Codex, Hermes and OpenCode. A per-user daemon (`contextd`)
owns a SQLCipher vault. Agents reach it through an MCP bridge (`context-mcp`),
people through a desktop application, and the devices of one workspace
replicate their vaults through an untrusted hosted provider, with signed and
encrypted operations.

This directory holds TLA+ models of the parts of that system whose correctness
depends on order, concurrency and failure, the TLC configurations that check
them on small instances, and proofs, checked by TLAPS, of what holds on all
instances. `PROJECT.json` is the machine-readable index: which definition
models which lines, what each run checks, which mutant of the code each
property detects, the hazards, the findings and the theorems.

## 1. Inventory

### 1.1 Components

| component | state it keeps | operations | modelled in |
|---|---|---|---|
| sync operations, causal order, merge (`core/src/sync/{operation,causal,merge}.rs`) | none, pure | build, compare, decide_merge | `SyncOps` |
| sync engine (`sync/engine.rs`, `engine/pull.rs`, `admission.rs`, `backoff.rs`) | the prepared cycle, in memory | prepare/finish push, prepare/finish pull, repair, admit, quarantine, defer | `SyncReplication` |
| vault tables of sync (`vault/sync.rs`) | operations, heads of devices and records, conflicts, outbox, cursors, quarantine | one SQLite transaction per operation | `SyncReplication` |
| providers (`sync/memory.rs`, `sync/supabase.rs`, `supabase/migrations`) | rows in receive order | append, page, device range | `SyncReplication` |
| hosted supervisor (`contextd/src/hosted_sync.rs`) | session fingerprint, status | the cycle, polling | `SyncReplication` |
| checkpoints (`sync/checkpoint.rs`, `engine/checkpoints.rs`) | pin, scan, schedule; provider's chain | lookup, scan, publish, read back, accept | `SyncCheckpoint` |
| native transactions (`native_transaction/*`, `vault/native_transactions.rs`, `native-runner/src/native_fs`) | journal, write-ahead rows, before-images, files under three names | apply, commit, compensate, recover | `NativeTransaction` (replacements) |
| pairing (`devices/pairing*`, `vault/pairing_v2.rs`, `contextd/src/pairing.rs`, `supabase/functions/pairing`) | invitations, join rows, transcripts | invite, join, approve, withdraw, expire, confirm, resume | `Membership` (version 2) |
| membership and revocation (`vault/membership*`, `vault/revocation.rs`, `devices/membership_crypto.rs`) | signed history, keys of the epoch, intents, control rows; the service's head | extend, activate, revoke, cancel, reconcile, recover | `Membership` |
| recovery enrolment (`contextd/src/recovery_enrollment.rs`, `devices/recovery.rs`, `devices/supabase_enrollment.rs`, `vault/recovery.rs`, `supabase/functions/enrollment`) | the vault's intent and prepared record, the coordinator with its phrase; the service's reservation and commit | reserve, renew, begin, confirm, cancel, commit, reconcile | `Enrollment` |
| recovery restore (`devices/recovery_restore.rs`, `vault/recovery_{restore,v2}.rs`) | claims, envelope, historical keys | claim, publish, unlock | planned |
| account lifecycle | durable intent | request, confirm, complete | planned |
| hosted authentication (`core/src/auth*`, `contextd/src/hosted_{auth,login}.rs`) | status and job of the service, the owner's session and generation, the saved login | sign in, restore, renew, sign out, shut down | `HostedAuth` |
| local IPC (`crates/local-ipc`) | connections, shutdown latch | admit, hand-shake, drain | planned |
| native memory import (`native_memory/*`) | last-seen digests | debounce, reconcile | planned |
| core service, MCP bridge, desktop | - | validation, routing, rendering | a mutation is `LocalWrite`; the rest is routing |
| search, harness adapters, native runner, packages, codecs and crypto | - | numerics, text, platform I/O, primitives | not modelled |

### 1.2 How they interact

* One **vault-owner thread** per daemon executes every vault command. Writes
  of agents, the steps of a sync cycle and everything else are therefore
  serial on a device, but they interleave *between* the steps of a cycle: a
  network exchange never holds the owner.
* A **cycle** of the supervisor is `Begin -> Certificates -> push -> pull ->
  checkpoint`. Each arrow is an exchange with the provider whose answer is
  applied by a later vault command, when the state it was prepared from may
  have changed.
* Devices share nothing but the **provider**, which is not trusted: it may
  damage, withhold or rewind what it stores, but cannot forge signatures.
* The vault is durable and every command is one or more SQLite transactions;
  the cycle lives in memory. A crash therefore falls between two transactions
  and loses the cycle.

### 1.3 What is hard

* **Order.** Operations of several devices reach each replica in a different
  order, through pages, gap repair and replays. The merge is incremental: it
  sees one operation and the current heads, never the whole set.
* **Failure.** An answer may be lost after the provider has acted. Requests
  given up may arrive later. The daemon may die between any two transactions.
* **Staleness.** Cursors, heads and frontiers are read before an exchange and
  used after it.
* **Limits.** Pages of 256 rows and a budget of 1024 rows end a pull anywhere:
  in a page, in a repair, between a repair and the row it was for.
* **Two stores without a common transaction.** A native transaction changes
  files and the vault in turns, and other programs change the same files. The
  daemon may die between any two of these steps, in its recovery too.
* **Work that outlives its request.** A sign-out or a newer sign-in does not
  stop a network exchange of the login it replaces; a revocation that timed
  out may still be committed.
* **One reservation, several devices.** The devices of a user compete for one
  row at the service, which expires, is taken by another device and renewed,
  while records signed for it are prepared or on their way.
* **One head, many writers.** Approvals and revocations of several devices are
  signed against a head they have read and compete to extend it.
* **Untrusted storage.** A damaged row must block exactly what depends on it;
  a rewound chain of checkpoints must never be trusted again.

### 1.4 What makes each part correct

* *Merge*: heads, value and conflict of a record are a function of the set of
  stored operations (`ViewIsMerge`, `MergeIsCorrect`).
* *Replication*: replicas are causally closed, converge, and every step is one
  the abstract causal store allows (`CausallyClosed`, `Convergence`,
  `ImplementsCausalStore`).
* *Durability*: no write is lost, no cursor passes an unprocessed row, nothing
  durable moves back (`NothingLost`, `CursorPassesNothing`, `DurableProgress`).
* *Quarantine*: honest operations are quarantined only because of a damaged
  one in their past (`QuarantineHasCause`).
* *Progress*: after the last fault everything reaches everyone and the
  outboxes drain (`EventuallyReplicated`).
* *Checkpoints*: a pin moves forward on one history and certifies the state it
  is taken in (`PinAdvances`, `ScanFollowsPin`, `OneHistory`), and a device
  that is due does not stop trying before one is accepted
  (`EventuallyCheckpointed`).
* *Native transactions*: the log names every object of the daemon before it
  stands under a target name (`WriteAhead`), the recorded outcome is what the
  files are and no private name stays behind (`OutcomeMatchesFiles`,
  `CommitIsFinal`), conflicts are real (`ConflictOnlyIfTouched`, `KillRestores`),
  foreign files survive (`ForeignKept`, `NoForeignLoss`), and every transaction
  ends (`UntouchedCompletes`, `KillRestores`). The code breaks `KillRestores` and
  `NoForeignLoss`; the others say how far its promises reach.
* *Sign-in*: a session in use, or its successor, is saved (`SavedBeforePublished`) and can
  still be withdrawn (`LiveSessionIsRevocable`), a sign-out takes effect at once
  and for good (`SignedOutIsForgotten`), no status stays transient (`Settles`),
  and a refused renewal reaches the client (`RefusalIsReported`).
* *Membership*: what devices accepted is a beginning of one history
  (`HistoriesAgree`) whose every event was authorized when it was committed
  (`HistoryIsAuthorized`); a cutoff names exactly what the service holds
  (`CutoffIsFinal`); what approver, joiner and issuer recorded is so
  (`DecidedOnce`, `RevocationRecordIsTrue`); no submission stays pending
  (`SubmissionSettles`).
* *Enrolment*: what the service accepted is in the vault that made it and can
  still be asked for (`AcceptedIsKept`), a prepared record keeps its login,
  operation and scope (`NeverRetargeted`), and is settled as long as its login
  and its reservation last (`PreparedSettles`).

## 2. Modules

```
SyncOps
  |   \
  |    CausalStore
  |       : (refined)
SyncReplication -- SyncReplicationProofs -- SyncConvergenceProofs
  |                                      \- SyncDurabilityProofs
MCSyncReplication

SyncCheckpoint ------ SyncCheckpointProofs

NativeTransaction --- MCNativeTransaction
   \----------------- NativeTransactionProofs

HostedAuth ---------- HostedAuthProofs
Membership ---------- MembershipProofs
Enrollment ---------- EnrollmentProofs
```

### 2.1 SyncOps

Operators only. An operation keeps what the protocol decides on: its id (a
totally ordered unique value, chosen by the caller of the mutation), device,
sequence, record and causal frontier. `CompareOperations` is
`compare_operations`, `DecideMerge` is `decide_merge`, and `MergedHeads`,
`MergedLive`, `MergedConflict` are the three writes
`apply_verified_in_transaction` derives from it. The module ends with the
reference notions (`Past`, `Maximal`, `ValueOf`, `ConflictOf`) that say what
the incremental merge ought to compute.

### 2.2 SyncReplication

| variable | code |
|---|---|
| `stored`, `deviceHeads`, `recordHeads`, `live`, `conflicts` | tables `operations`, `sync_device_heads`, `sync_record_heads`, the record tables, `conflicts` |
| `outbox`, `cursor`, `quarantine` | tables `outbox`, `sync_cursors`, `sync_quarantine` |
| `cycle` | `PreparedPush`, `PreparedPull` and the answer that is being applied |
| `newSession` | `authentication_changed` of the next cycle |
| `server`, `clock` | the provider's rows and its latest `received_at` |
| `wire` | requests the device has given up and the provider may still handle |

Each action is one vault transaction of the owner thread, or one exchange.
`LocalWrite` is a mutation (`build_signed_mutation`,
`commit_outgoing_operation`). `BeginCycle`, `PushServed`, `PushLost`,
`PushRefused`, `LateArrival` and `FinishPush` are the push;
`PageServed`, `RangeServed`, `PullLost`, `FinishPage`, `FinishRange` the
exchanges of a pull; `RowSkip`, `RowReplay`, `RowApply`, `RowQuarantine`,
`RowGap`, `PageDone` the rows of a page; `RepairSkip`, `RepairReplay`,
`RepairApply`, `RepairQuarantine`, `QuarantineBlocker`, `RepairDone` those of a
repaired range. `Crash` loses the cycle at any point, `TamperRow` damages a
stored row. While the owner processes the rows of a page or a range
(`OwnerBusy`) no other command runs, as in the code; between exchanges it may.

The provider is the gap-tolerant one of `sync/memory.rs` or, with
`StrictSequence`, the hosted one, which takes the operations of a device only
in sequence and rolls back a whole batch otherwise.

`CausalStore` is what all this promises: a device learns one operation at a
time, only after everything it depends on, and shows at once the function
`View` of what it knows. There is no provider, page, cursor or retry in it.
`ImplementsCausalStore` is the refinement, with `known <- stored` and the three
views for `shown`.

### 2.3 SyncCheckpoint

A checkpoint signs the hash of the previous one, so its hash determines the
whole chain up to it; in the model a checkpoint *is* that chain, a sequence of
links. `pin`, `scan` and `schedule` are the three tables, `job` the prepared
work and its answer, `chain` what the provider shows, `issued` everything it
ever took (so that it can rewind to it), `wire` pushes it may still handle.
The actions follow `prepare_checkpoint` and `finish_checkpoint`: lookup of the
pin, the page-wise scan with one transaction per row, the decision at the end
of the chain (accept, build, nothing due, pin missing), the push, its
read-back (`append`) and the check that nothing follows (`tail`), and the
acceptance, which re-reads the local state. A device's state is abstracted to
its frontier; that equal frontiers mean equal states is `Convergence`, which is
proved for SyncReplication. `Receive` stands for the pull that ends before the
checkpoint work of a cycle begins.

### 2.4 NativeTransaction

One transaction that replaces `N` present files, each in a directory of its
own, from the moment its before-images are stored (step 4).

| variable | code |
|---|---|
| `fs[t]` | what stands under the target name, the private backup name and the private temporary name: an identity (`NativeObjectToken`) and a fingerprint |
| `row[t]` | the row of `native_mutation_wal`: state, applied token, restored token |
| `tx` | status, `current_step`, `entered_step` and cleanup state of `native_transactions` |
| `pc`, `mem` | the daemon's position and memory (observations, installed tokens, what a probe has seen); lost in a crash |
| `env` | ghost: what other programs and crashes have done |

An action is one call to the file system or one vault transaction, so a crash
or a foreign change may fall between any two. `Stage` to `FinalCheck` are
`replace_regular_file`, used by the apply, the compensation and the recovery
(`mem.mode`); `HoldCleanTemp` to `HoldCheckGiven` are
`recover_interrupted_replace_held`, called by a failed replacement, by the
compensation and by the probe of a recovery (`mem.caller`). `EnterCompensation`
to `FinishCompensated` are `compensate`, `restore_matching_applied_targets` and
`finish_compensated`; `Restart` to `CleanSandbox` are
`recover_native_transactions`. A recovery error leads to `refused`: the daemon
does not start, and `Restart` is the next attempt. `MayTransition`,
`MayRecordCandidate` and `MayRecordRestored` are the vault's own guards of the
rows, which decide between the outcomes of these steps.

`Crash` may come at any place and, up to its bound, any number of times, in a
recovery too. `env.cut` is the set of targets whose guarded replacement was
under way at a death, between the durable token and the validated object (`Cut`).

`ForeignChange` writes, replaces, creates or removes the file under a target
name at any moment, with a new identity (`Made[n]` for the `n`-th change) or the
old one. Other programs do not
touch the private names.

### 2.5 HostedAuth

| variable | code |
|---|---|
| `svc` | `hosted_auth.rs` `State`: generation, status, the cancellation of the current login, whether it is closed |
| `jobs` | the service's one asynchronous job, and aborted ones that have not reached an await |
| `calls` | blocking calls on other threads: restore, begin, wait, complete, refresh, sign-out, cancel, suspend |
| `owner` | `HostedSessionOwner` `State`: generation, initialized, busy, session |
| `canceled` | the raised flags of `LoginCancellation` |
| `store` | the saved login |

A login is identified by a flag. An action is one step between two locks or
awaits: `HandleStatus`, `HandleStart`, `HandleLogout` and `Shutdown` are the
requests; `RestoreJob`, `LoginJob`, `MaintainJob` and `LogoutJob` are what a job
does between two awaits; `Begin`, `RestoreLoad`, `CompleteCheck`,
`RefreshCheck`, `Exchange`, `Finish`, `FinishPublish`, `Logout`, `Suspend` are
the stretches of a call under the owner's lock, and the network exchange is
between them. An aborted job ends at its next await, and the call it made goes
on. `Finish` is the one place where what a call brings back is admitted.

### 2.6 Membership

| variable | code |
|---|---|
| `chain`, `invite`, `pushed` | `membership_heads` and `membership_events`, `pairing_invites` with `pairing_requests`, the newest sequence per device of `sync_operations` |
| `wire` | decisions and revocations that are on their way, or verified by the edge and not yet in their transaction |
| `hist`, `activated`, `control` | a vault's accepted history, the epoch of its activated keys, its revocation control rows |
| `approval`, `joining` | `pairing_v2_transcripts` of approver and joiner, with `pairing_joins` |
| `intent` | `device_revocation_intents` |
| `daemon`, `work` | whether a daemon runs, and the call it waits for |
| `sends`, `calls`, `crashes` | no code: the numbers of calls, and what the bounds count |

A state hash is the history it commits to, so comparing hashes is comparing
sequences of events. A daemon serves one request at a time. A call is `Send`,
two steps at the service (the edge's verification and the SQL transaction,
between which others commit), and an answer or a `Timeout`; the request may be
handled after the timeout. `Apply` is the four transactions of
`apply_revocation_receipt` and `ResumeJoin` the three of
`resume_confirmed_join`: a death may fall between any two. `Start` is the
startup, which settles interrupted submissions and applies accepted receipts
again. The service's transactions are atomic, as the row locks of the SQL make
them.

### 2.7 Enrollment

| variable | code |
|---|---|
| `alive` | the rows of `auth.sessions` |
| `slot`, `root` | the user's row of `enrollment_reservations` and of `enrollment_commits` |
| `session` | the daemon's login (`HostedAuth` models how it comes and goes) |
| `intent`, `row` | `hosted_enrollment_intent` and `recovery_enrollments` of a vault |
| `mem` | the coordinator: its login, its reservation and the pending phrase |
| `call`, `wire` | the exchange a daemon waits for; requests that have not reached their transaction |

`HandleReserve`, `HandleRenew`, `HandleStatus` and `HandleCommit` are the four
SQL functions; `VerifyCommit` is the edge function's look at the reservation
before the last one, between which others commit. `Begin`, `Overview` (also the
status of one enrolment), `Confirm` and `Cancel` run `execute` of the hosted
service up to its first network call; `ReserveAnswer`, `RenewAnswer`,
`StatusAnswer` and `CommitAnswer` go on from an answer to the next call or to
the end. A scope and a challenge are the number of the draw that made them, so
a later challenge is greater, as its expiry is later.

## 3. Runs

All runs finish within four minutes with two workers. `Device`
and `Record` are sets of model values; symmetry is used except under liveness
(no definition tells devices or records apart).

| run | instance | shows |
|---|---|---|
| `orders` | 3 devices, 2 writes, the strict provider, pages and repairs of one row, budget 2, one damaged row | types, `ViewIsMerge`, `CausallyClosed`, `Convergence`, `QuarantineHasCause`, `HostedNeverRepairs` |
| `faults` | 2 devices, the gap-tolerant provider, one lost or refused exchange or crash, fairness | `CursorPassesNothing`, `NothingLost`, `DurableProgress`, `EventuallyReplicated`, refinement of `CausalStore` |
| `outbox_order` | the strict provider | violates `NoHonestWriteParked`: see the finding |
| `checkpoints` | 2 publishers, one write each, one request or elapsed interval, 2 builds, one failed or repeated exchange, rewind or death, fairness | types, `OneHistory`, `ScanFollowsPin`, `PinAdvances`, `EventuallyCheckpointed` |
| `native_faults` | 3 targets, one already as intended, 2 foreign changes, 2 deaths anywhere, fairness | types, `ConflictOnlyIfTouched`, `WriteAhead`, `OutcomeMatchesFiles`, `ForeignKept`, `CommitIsFinal`, `UntouchedCompletes` |
| `native_restore_crash` | 2 targets, no foreign change, 2 deaths, fairness | violates `KillRestores`: see the findings |
| `native_foreign_loss` | one target, one foreign change, 2 deaths | violates `NoForeignLoss`: see the findings |
| `auth` | 2 requests, 3 grants, one restart or failure of the store, fairness | types, `LiveSessionIsRevocable`, `SignedOutIsForgotten`, `SavedBeforePublished`, `Settles`, `RefusalIsReported` |
| `auth_shutdown` | one shutdown during an exchange | violates `ShutdownKeepsLogin`: see the findings |
| `membership` | 2 members and a newcomer, one pairing, 2 revocations, 2 calls, one append per device, one death, fairness | types, `HistoriesAgree`, `HistoryIsAuthorized`, `CutoffIsFinal`, `DecidedOnce`, `RevocationRecordIsTrue`, `SubmissionSettles` |
| `membership_startup` | 2 members, one revocation, one death | violates `StartupCompletes`: see the findings |
| `enrollment` | 2 devices of one user, 2 operations, 3 phrases or expiries, one lost call, death or sign-out, fairness | types, `AcceptedIsKept`, `NeverRetargeted`, `PreparedSettles` |

**Bounds.** `MaxWrites`, `MaxFaults`, `MaxCrashes`, `MaxTampered`, `MaxBuilds`,
`MaxTriggers`, `MaxForeign`, `MaxRequests`, `MaxGrants`, `MaxFailures`,
`MaxCalls`, `MaxPushes`, `MaxLogins`, `MaxOps` and `MaxTurns` bound the events
of the environment; they appear in guards only. Failed exchanges, rewinds and
deaths of SyncCheckpoint share one bound. `MaxBatch` and `MaxOperations` are parameters
of the code (256 and 1024), scaled to 1..2 and 2..3 so that a page ends before
the chain does, a repair takes several requests and the budget runs out inside
a page and inside a repair. Three devices are the smallest number with which a
quarantine spreads through a device that has seen the damaged row's successor.
That a merge is right for a third write, which follows one of two concurrent
ones, is left to `MergeIsCorrect` and `ViewIsMergeAlways`, which are proved for
any number. One fault or crash reaches every single failure point, because it
may come between any two steps.

For sign-in, two requests are a sign-out or a newer sign-in against one that is
still at work; three grants are a restored, a renewed and a new login. For
membership, two calls are any two of an approval, two revocations and a repeated
call (`Spend`: what was begun and not sent counts, too): the smallest number for a race
of two events for the head, for a request that arrives late after its
repetition, and for a newcomer that revokes the device that admitted it.

For enrolment, two operations are two rivals, or one device that gave up and
began again. Phrases and expiries share `MaxTurns` = 3: two phrases and one
expiry let both devices prepare a record, one phrase and two expiries let a
reserve request that is late draw another scope for an operation whose record is
already prepared (the reservation expires, is taken, and expires again).

**Fairness.** `FairSpec` assumes weak fairness of a device's own cycle steps
and of the passing of a retry time. The supervisor's `run` loops for ever,
polling every 30 s (1 s while work is pending), and a jittered delay is finite.
Nothing is assumed of writes, new sessions, faults or crashes; writes and faults
are bounded, so a behaviour has a last one, and `EventuallyReplicated` excepts a
device that waits for a session for ever.

`FairSpec` of HostedAuth assumes that jobs and blocking threads are scheduled:
every exchange has a timeout and the callback a deadline. Requests, expiry and
restarts may never come. `FairSpec` of Membership assumes that a call ends
within its timeout of fifteen seconds and that a daemon that died is started
again, and nothing of the network or of what users ask for: the desktop stops
asking when a status request fails. In both, and in the violation run of
Membership, deadlock is not checked: when nobody asks for anything more, the
system rests.

`FairSpec` of Enrollment assumes that an exchange that is not lost ends, and that
a status request is served again and again between the others (strong fairness
of `Overview`): the daemon serves its queue in order, the desktop polls every
second while an enrolment is submitting, and asks the user to retry after an
error (`devices.tsx:1019-1038`). A user who never retries is therefore left out.
Begin, confirm, cancel, logins, expiries and late requests may never come.

For native transactions, two targets that are written are the smallest number
for which one is done and the other is not, two foreign changes reach a change
of a change, and two deaths a recovery that is interrupted; both deaths may fall
on any step, also on the five points at which a token is durable and its object
not yet installed and validated. `ConflictOnlyIfTouched` excepts a target whose
own replacement a death cut, `UntouchedCompletes` the behaviours with such a
death or with a foreign change, and `ForeignKept` the cleanup of the temporary
name once more faults have happened than `FewFaults` allows. Section 3.1 says
what the code does in each of these cases, and the two violation runs show it.
`FairSpec` of the module assumes weak fairness of the daemon, which includes that
a stopped daemon is started again, and strong fairness of a successful cleanup of
the sandbox, which may fail now and then but not for ever.

In the checkpoint run both devices become due: each by the other's operation
and its own (`OperationThreshold` = 2), and one possibly before that, by the
request. An attempt to publish is spoiled by a failed exchange, a death, a write
that runs during it or the other publisher. Two devices that are both due and
whose states differ can foil each other's read-back as often as they try: each
publishes, finds the other's row behind its own, and starts again. In the code
replication makes their states equal sooner or later and one then accepts the
other's checkpoint; the module leaves replication to `Receive`, on which no
fairness is assumed. So `EventuallyCheckpointed` does not promise that the two
attempts of this run suffice. It says that a device stays due for ever only after
a rewind (`PinMissing` is the code's answer to that), or when all attempts were made
and the chain ends with a checkpoint of another state; a device never stops with
attempts left, and never overlooks a checkpoint of its own state, whoever
published it.

### 3.1 Findings

*The outbox is not pushed in sequence order* (`outbox_order`). `due_outbox`
orders by `next_attempt_ms, queued_at, operation_id`
(`vault/sync.rs:1378`). `queued_at` is in whole seconds and the id is chosen by
the caller, so of two writes in one second the later may come first; and a
fresh row always overtakes an earlier one that was deferred. The hosted
provider then answers `device_sequence_gap`, which the adapter maps to
`integrity_quarantined`, and `finish_push` parks honest rows at
`PERMANENT_RETRY_MS`; nothing lifts that code. The design document says that
the oldest due batch is pushed first and reserves quarantine for operations
that are malformed or cryptographically invalid.

Three findings concern the recovery of native transactions, measured against
`docs/superpowers/specs/2026-07-20-isolated-native-runner-design.md`. The fault
hooks of `recovery.rs`, on which the crash tests rest, have no point inside a
guarded replacement whose candidate is durable.

* *A restore that dies after its token is stored can never be repeated*
  (`native_restore_crash`). The stored token is immutable
  (`vault/native_transactions.rs:2063`), a staged file is always a new object,
  so each later recovery is refused and the daemon does not start. The document
  calls the journal "sufficient for restart recovery" (line 115) and says that
  startup completes it (line 117).
* *An untouched target becomes a conflict* (`native_restore_crash`, too). The
  daemon dies after `record_native_wal_candidate` and before the installation. The
  first startup finds the original file, moves the row from `Prepared` to
  `RestorePrepared` (`recovery.rs:1594`), asks for `Restored` and is refused, since
  this path never stores a restored token. The next one probes a `RestorePrepared`
  row without provenance, gets `Abandoned` and records a conflict, although nobody
  has changed anything. The document: "a kill before step 19's commit restores"
  (line 290). `KillRestores` is the disjunction of the two promises, and the run's
  one behaviour breaks both: first a conflict for the second target, then a startup
  that is refused for ever over the first.
* *A foreign file is unlinked after a death inside a recovery*
  (`native_foreign_loss`). The daemon dies after it installed a file. The recovery
  is about to take that file back when another program writes the target; it moves
  the foreign file to the temporary name and dies again before it has looked at
  what it moved. The next recovery begins with `cleanup_recovery_temp`
  (`macos.rs:1350-1391`), which unlinks any regular file of that name. The document
  says that an unexpected occupant is put back or preserved as a conflict
  (line 222); the race of the final `unlinkat`, which it concedes at line 224, is
  another one. The same happens without a second death, when the recovery runs in
  the process that replaces the file, after three foreign changes of one target.
  `ForeignKept` says that these are the only ways, and section 4 proves it.

One more limit of the code is visible with other constants, and no run is about
it. *An edit of a restored target blocks every startup*: there is no transition
from `Restored` to `Conflict`, so `<>(tx.current = 20)` fails under `FairSpec` with
one foreign change and one death. The document has "every other state as a
concurrent-change conflict" (line 263).

*A shutdown may delete the saved login* (`auth_shutdown`). Shutdown raises the
cancellation of the current login and replaces the generation only afterwards,
on another thread (`hosted_auth.rs:505-527`). A restore or renewal whose
exchange ends in between still finds its own generation in `finish`
(`owner.rs:226`), sees the raised flag, takes it for a sign-out and clears the
store. The comment on `suspend` says that restart credentials are not deleted.

*A device that revoked another one does not start again*
(`membership_startup`). `stage_current_membership_material` has no caller
outside tests, so after the receipt, the control row and the extended history
are durable, the activation of the new epoch's keys fails; every later startup
applies the receipt again (`contextd/src/pairing.rs:405`), fails the same way,
and that is fatal (`contextd/src/lib.rs:1721-1724`). The restart test of the
repository revokes the device itself, the one case without keys. Even with
staged keys, `authority` (`pairing.rs:123-155`) would demand a certificate of
the current epoch, while the last migration declares "signed issuance epochs
are immutable; current membership and the current account/head epochs decide
authority after rotation"
(`20260920195022_membership_authority_release_cutover.sql:1-2`).

The model of membership shows four more behaviours, and no run is about them. The
plan of revocation says of the first that "Exact retries reuse the stored
transition" (`docs/superpowers/plans/2026-09-09-device-revocation.md:30-31`); no
document decides the others.

* A revocation that was committed and whose answer was lost is answered with an
  error when it is sent again: `service_publish_revocation` would return the stored
  receipt, but the edge has compared the object with the current head before, which
  is the one it has itself produced (`revocation.mjs:53-55`). The issuer records a
  conflict for good, although the target is revoked. The invariant
  `\A r \in Revocation : intent[r].state = "conflict" => ~Has(chain, r)` fails with
  one revocation and two calls, without a death.
* A joiner whose first code expired or was rejected, and who joins with another
  one, is admitted by the service and can never complete: join rows are never
  deleted, and `require_pristine_join` (`pairing_v2.rs:61`) demands exactly one.
* A joiner that dies between admission and activation gets an error from
  `authority` for ever, and `resume_confirmed_join` is behind that call.
* Rejecting a request in a vault with a membership history closes it at the
  service and then fails in `finish_pairing_decision` (`devices.rs:1235`).

The model of enrolment shows three behaviours that no document decides and no run
is about:

* A device that prepared a record and lost its reservation to a rival is refused
  with `enrollment_reservation_denied`, a 403 that the client reads as
  `Unauthorized`: its row stays `prepared` for ever, and `cancel` refuses prepared
  rows. `PreparedSettles` therefore excepts devices that no longer hold the
  reservation.
* A phrase confirmed after the login changed is prepared for an intent of the
  former login; no later request is sent for it.
* A challenge that expires and is renewed by a late request between the status
  and the commit of a retry makes the edge answer `invalid_request`, which marks
  the record as a conflict although nobody else has enrolled.

## 4. Proofs

Eight modules hold theorems, for arbitrary sets of devices, records, pairings and
revocations and arbitrary bounds. The assumptions are those of the modules they
extend:

* `ConstantsAssumption` (SyncReplication) and `CheckpointAssumption`: sizes are
  naturals, batches, budgets and thresholds positive, the refusals among the
  error codes. `BoundsAssumption` (HostedAuth): the bounds are naturals.
* `EnrollmentAssumption`: `None` is no device and no row, record or message.
* `MembershipAssumption`: identifiers of pairings, revocations and devices are
  different (they are random, and in different columns), and the devices admitted
  before the model starts are finitely many.

* `PlanAssumption`, `BoundAssumption` and `MadeAssumption` (NativeTransaction): a
  plan has at least one target and its targets are in the order of their steps, the
  bounds are naturals, and a file another program makes is no object of the daemon.

Every bound of a model (writes, crashes, calls, faults, foreign changes) is a
constant of its specification, so a theorem covers all values of it.

* **SyncReplicationProofs.** `MergeIsCorrect`: if a set of operations contains
  the past of `o`, and its heads, value and conflict are the reference ones, then
  after one merge of `o` they are the reference ones of the larger set. This is
  the heart of convergence; it needs that frontiers are transitively closed within
  the set and that ids are unique. `TypeCorrect`: `Spec => []TypeOK`, one step per
  action.
* **SyncConvergenceProofs.** `ReplicaInvariant` is the inductive invariant:
  operation ids and (device, sequence) pairs are unique over all devices, a
  head counts exactly the stored operations of a device, frontiers are below
  the heads and closed, everything at the provider or in a request is an
  operation some device has stored, and the view is the merge. From it follow
  `CausallyClosedAlways`, `ViewIsMergeAlways`, `ConvergenceAlways` and
  `Refinement` (`Spec => ImplementsCausalStore`): initial states map to initial
  states, `LocalWrite` to `Write`, `RowApply` and `RepairApply` to `Receive`,
  everything else stutters. The strengthening is needed because
  `CausallyClosed` says nothing of rows that are still in flight, and
  `ViewIsMerge` alone does not say that an incoming operation is not already
  superseded in a way the heads cannot show.
* **SyncDurabilityProofs.** `DurableInvariant`: what a request or an answer of
  the provider claims is true of the provider. It gives `NothingLostAlways` and
  `DurableProgressAlways`. `DeliveryInvariant` is about pulls. The provider dates
  what it takes after everything it has handed out (`Dated`), so a new row lies
  beyond every cursor and every page, and the rows that precede the first pending
  row of a pull are stored or put aside for good (`Passed`, `PageFollows`,
  `RowsFollow`). What an operation depends on of other devices reached the provider
  at an earlier time (`PastEarlier`, from `FrontsClosed` and `ForeignServed`), hence
  before it in every pull: a refused row has a damaged one in its past, and a row
  without its predecessor is one the provider took out of sequence, which the
  hosted provider does not do (`InOrder`). `RepairOf` says that a repair is about
  the first pending row and fetches only what precedes it. From it follow
  `CursorPassesNothingEver`, `QuarantineAlwaysHasCause` and
  `HostedNeverRepairsEver`. None of the three is inductive: each speaks of cursors
  and quarantines only, while the step that could break it applies a page read
  before other devices, or an operator of the provider, changed what is there.
* **SyncCheckpointProofs.** `PinInvariant` holds whatever the provider does: a
  device keeps one scan, the rows being saved continue it, the scan continues the
  pin, and a checkpoint being published was linked behind the pin. With it come
  `CheckpointTypes`, `ScanFollowsPinAlways` and the action property
  `PinAdvancesAlways`. `ScanFollowsPin` alone is not inductive: a row of a page
  that was requested earlier is saved against a scan that must still be the one
  it was requested for (`RowsFollowScan`), and a pin that moves by the device's
  own publication must carry the scan along (`PublishedFollowsPin`).
  `OneHistoryAlways` adds that what was shown stays on the chain as long as the
  provider has not rewound (`ShownIsOnChain`).
* **EnrollmentProofs.** `EnrollInvariant`: what intent, row, coordinator and
  exchange of one device say agrees (`EachFollows`); challenges are numbered as
  they are drawn (`DrawnInOrder`); a daemon waits for one answer and one message
  is on its way for it (`OneExchange`); a commit on its way is for the record in
  its device's row and intent (`CommitsAreKept`); answers are true
  (`AnswersAreTrue`); a conflict is recorded only for a record that can no longer
  be accepted (`ConflictIsRefuted`); and the accepted record was committed with
  the last challenge (`AcceptedIsLast`). The strengthening carries the vault's
  promise through the time in which the record is only on the wire: without
  `CommitsAreKept` a late commit could accept a record nobody has.
  `AcceptedIsAlwaysKept`, `NeverRetargetedAlways` (an action property) and
  `EnrollmentTypes` follow.
* **HostedAuthProofs.** `AuthInvariant` follows a cancellation flag. `Order`: a
  job has its own generation and at most one call it waits for, a sign-in its own
  flag. `Flags`: whoever may still act for a login holds a flag that was raised
  or is the service's own (`Held`), the owner works for one call at a time
  (`OneWorker`), what a renewal has read is the owner's flag or a raised one
  (`ReadFlags`), the saved login is not older than the published one
  (`Publication`). It gives `LiveSessionIsAlwaysRevocable`,
  `SignedOutIsAlwaysForgotten`, `AlwaysSavedBeforePublished` and `AuthTypes`. The
  three properties speak of the published session and the store; the steps that
  could break them are those of calls that were started for a former login, so
  the invariant has to say of every job and call, at every point of its code, what
  its flag can be.
* **MembershipProofs.** `MemberInvariant`. The properties say that the vaults'
  histories are beginnings of the service's; they are not inductive, since a vault
  takes its next history from what it once signed and a receipt. So the invariant
  says what a commit means: the admission of an approved pairing, and a published
  revocation, stand right behind the parent that was signed (`Committed`,
  `Published`); requests are about stored objects (`RequestsAreStored`); a
  receipt is about an event in the history (`ReceiptsAreTrue`). Then a receipt
  determines a beginning of the history, and of two beginnings one continues the
  other (`BeginningsAgree`, `HasMore`). `HistoriesAlwaysAgree`,
  `HistoryIsAlwaysAuthorized`, `CutoffIsAlwaysFinal`, `AlwaysDecidedOnce` are parts
  of it. `RevocationRecordIsAlwaysTrue` has an argument of its own for "at most one
  per issuer": an intent is signed in the epoch of its issuer's certificate, that
  certificate is never reissued (`CertificateStays`, from `AdmittedOnce`), and the
  first revocation ends that epoch for good (`EpochOn`). `MembershipTypes` needs a
  second invariant beside it (`CallInv`): a pairing and an intent have a call set
  aside for the first thing sent for them (`SetAside`), the number of a call on the
  wire was given out by its sender (`Numbered`), and a daemon that runs waits for
  the revocation its vault says it is submitting (`Awaited`), which the timeout,
  the answer, the death and the startup could each leave behind.

* **NativeTransactionProofs.** For any number of targets and any order of faults.
  `TypeInv` adds to the types where the daemon can be in which mode (`Places`) and
  that a committed transaction has only its cleanup ahead (`CommittedRests`);
  `NativeTypes` and `CommitAlwaysFinal` follow. `WriteAheadInvariant` carries
  `AlwaysWriteAhead`. `WriteAhead` speaks of the target name, but a file comes there
  by a rename from the temporary or the backup name, so the invariant says it of the
  backup name as well (`FilesNamed`), and of the temporary name exactly at the places
  from which it may still be renamed (`TempMoves`, `TempNamed`): before
  `persist_candidate` returns, the staged file is rightly unnamed. The step has two
  halves: a token comes under a name only from another name of the same target
  (`FilesAlwaysCome`), and no row forgets a token while the transaction is open
  (`RowsAlwaysGrow`).

  `ConflictNeverInvented` and `OutcomeAlwaysMatchesFiles` are about the targets no
  other program changed, and rest on `UntouchedInvariant`. The outcome is computed
  from the rows alone (`RecoveryFinished`), so the invariant has to say, for each
  place of the code, which file goes with which row (`Sound`). Where the daemon is
  not at the target there are four cases (`Quiet`): row and file agree (`AtRest`), a
  death left a staged file nothing refers to (`Leftover`), a death interrupted the
  replacement (`Interrupted`), or a startup took the file back and its row cannot
  say so (`TakenBack`). The second and the third occur only for targets the recovery
  has still to come to (`Ahead`), the third and the fourth only after a death inside
  a replacement (`env.cut`). Where it is at the target, `Busy` follows the eight
  places of a replacement, `Recovering` those of its recovery with what each caller
  asks for (`Asked`) and is told (`Disposed`), and `Marking` the row updates. A
  compensation trusts what the applying process remembers of its installations, so
  `InstalledIsTrue` says that this memory is right as long as the process lives. Most
  steps concern one target (`OneTarget`); `Elsewhere` shows once that all others
  are left as they were. When the transaction is closed the invariant is only what
  the outcome says (`Left`), which no later step can change (`ClosedStep`).
  `OutcomeAlwaysMatchesFiles` needs no exception for deaths inside a replacement:
  after such a death the outcome may report an untouched file as a conflict, or may
  never be written (section 3.1), but once written the file is back in its former
  state.

  `ForeignAlwaysKept` is the action property `ForeignKept`: a foreign object that
  leaves a name appears under another one in the same step, except in
  `cleanup_recovery_temp` after more faults than `FewFaults` allows. It holds for any
  number of targets, deaths and foreign changes, and has two halves. Every other step
  keeps foreign objects whatever happened before: it renames without replacing, or it
  unlinks a name right after it has found an object of the daemon there
  (`Harmless`, which needs only that rows, memory and the arguments of a recovery name
  objects of the daemon, `ControlInv`). The cleanup of the temporary name
  compares nothing, so the second half is an invariant under a condition,
  `FewFaults => ForeignInv`, that says what can stand under that name and under
  the backup name; `CutCounted` relates the cut targets to the number of deaths, so
  that the condition, once false, stays false.
  A foreign object is under the temporary name only after a death inside a replacement,
  and then the row of its target is a conflict, or is being made one, so that no later
  recovery comes to it (`Aside`, `AfterCut`). A backup outlives its replacement only
  after a foreign change, and stands next to an object of the daemon only after two
  (`Leavings`, `Loose`): this is what makes `recover_interrupted_replace_held` take
  an installed object back, so the object it takes cannot be exchanged any more
  (`GivingBack`), and the backup name is free when it moves a wrong object there.
  `Exchange` says, for each place inside a replacement, how many changes account for
  a name that does not hold what it should. Each step of a replacement
  and of its recovery has its lemma, which shows the invariant for the target at hand
  and that the step loses nothing (`Lossless`). Both conditions of `FewFaults` are
  needed: section 3.1 has a behaviour for each.

The inductive invariants that are not themselves the property of a run were
model-checked with the bounds of the corresponding runs before they were proved.

**Only model-checked**:

* liveness and everything else that needs fairness (the prover has no rules for
  it here).

## 5. Abstractions

* Ciphertext, signatures and hashes: one flag of a received row. A damaged row
  is one that fails verification; forging one is out of the model.
* The byte budget of a pull and the row budget are one row budget. A receipt
  that is too large is handled like a damaged one.
* In replication, membership, key epochs and certificates are left out: all
  devices are members for the whole behaviour (`Membership` models who is). The
  previous-hash check is implied by the uniqueness of (device, sequence).
* Tombstones are mutations. A candidate review and a backfill are several
  `LocalWrite`s in a row.
* Time is the order in which deferred rows become due. Equal seconds are
  modelled, since the outbox order depends on them.
* A large hosted push is several requests; what a lost exchange has delivered
  is a prefix of the batch. A refusal of a later chunk after an accepted one is
  not distinguished from a refusal of the batch.
* `configuration_error` and corrupted local outbox rows end the cycle in the
  code with an error and are not modelled.
* Checkpoints: the creator and epoch checks are left out; `created_hlc` is a
  counter; that pin and scan are unchanged when a transaction re-reads them
  holds because one job per device is their only writer.
* Native transactions: only present-to-present replacements. Creations and
  deletions, with their absence tokens and the rebinding of a shared
  directory's generation, and CLI mutations are left out, and targets share no
  directory. A crash is a death of the process, not a loss of power: renames
  are durable when they return. The steps before 14 that work in the sandbox
  are one action that may fail. An unlink happens at once with the validation
  before it (the document names the remaining race at line 224 and accepts it).
  A plain I/O error of a call is modelled where the code treats it like a
  concurrent change, not where it ends a recovery. For replacements the cleanup
  of a committed transaction has nothing to remove.

* Sign-in: PKCE, token formats and the browser are left out; a token stands for
  the access and refresh tokens of one grant, and the answers that end a login
  are one answer. The credential store fails or works; it is not damaged.
* Membership: only version 2 pairing, in vaults with a membership history. Login
  sessions, codes, rate limits and quotas are left out; a refusal stands for
  every denial. The transfer of historical keys and the reconstruction of old
  epochs are left out. Cancel, reject and expiry all close an invitation. The
  operations of a target are synced when it is revoked (otherwise the request
  ends with an error and no change).

* Enrolment: account and workspace are one scope. Records and proofs are
  identities; the rate limit (six reservations an hour) is answered like a lost
  call and not told apart from one, and a new challenge that the daemon's own clock
  takes for expired leaves what a lost answer leaves, so `Lose` stands for both. Vault transactions do not fail. Late
  requests for the status, which change nothing, are left out, and two late
  requests with the same content are one.

### 5.1 Not modelled

* Recovery restore, account lifecycle, local IPC, native memory
  import and the setup plan's life cycle have protocols of their own and are
  next in the plan.
* Version 1 pairing is what vaults without a membership history use, and the
  service's version 2 functions replace it.
* Search ranking is numerical; harness adapters, packages and the MCP bridge
  parse, render and route; codecs and cryptographic primitives are abstracted to
  equality of bytes; the native runner's launcher and the Windows file system are
  platform I/O. They make up most of the repository's lines and have little
  state whose order matters.

## 6. Plan

1. *(done)* operations, replication, their abstract specification and proofs;
   checkpoints, hosted authentication, pairing and membership, enrolment, and
   native transactions for replacements, model-checked and with the proofs of
   section 4.
2. Recovery restore, account lifecycle: durable intents around a remote call
   that may have happened, composed with the startup of `Membership`.
3. Native transactions, the rest: creations and deletions with absence tokens
   and their rebinding, CLI mutations, the setup plan's own life cycle (claim,
   finish, rollback). Abstract specification: all or nothing up to conflicts.
4. Local IPC (shutdown latch), native memory reconciliation.
