--------------------------- MODULE NativeTransaction ---------------------------
(***************************************************************************)
(* One native transaction: the journalled replacement of harness           *)
(* configuration files by contextd (native_transaction/engine.rs,          *)
(* filesystem.rs, journal.rs), the rows of its write-ahead log in the vault*)
(* (vault/native_transactions.rs), the guarded replacement of one file     *)
(* (native-runner/src/native_fs/macos.rs), the compensation of a failed    *)
(* apply and the recovery a restarted daemon runs before it serves         *)
(* (recovery.rs).                                                          *)
(*                                                                         *)
(* A file has three names in its directory: the target, the private backup *)
(* and the private temporary name.  An object under a name has an identity *)
(* (NativeObjectToken) and a complete-state fingerprint.  Other programs   *)
(* change the target name at any moment and the daemon may die between any *)
(* two calls to the file system or the vault.                              *)
(***************************************************************************)
EXTENDS Integers, FiniteSets, FiniteSetsExt

CONSTANTS
    N,            \* approved mutations; target t is mutation number t - 1
    Unchanged,    \* the targets whose intended state is their expected state
    Role,         \* the step that writes a target: its MutationKind
    MaxForeign,   \* bound: changes made by other programs
    MaxCrashes,   \* bound: deaths of the daemon
    Made          \* Made[n]: the identity of a file the n-th of these changes makes

Targets == 1..N

ASSUME PlanAssumption ==
    /\ N \in Nat \ {0}
    /\ Unchanged \subseteq Targets
    /\ Role \in [Targets -> 15..17]
    \* prepare_native_wal takes the rows in the order of the plan only
    /\ \A t, u \in Targets : t < u => Role[t] <= Role[u]

ASSUME BoundAssumption == MaxForeign \in Nat /\ MaxCrashes \in Nat

VARIABLES
    fs,    \* fs[t]: the objects under the three names of target t
    row,   \* row[t]: the write-ahead row of target t
    tx,    \* the transaction row
    pc,    \* where the daemon is
    mem,   \* what the daemon holds in memory
    env    \* ghost: what other programs and crashes did

vars == <<fs, row, tx, pc, mem, env>>

--------------------------------------------------------------------------------
(* Objects, rows and memory.                                               *)

\* "orig" was there when the before-images were made, "cand" is staged by the
\* apply, "rest" and "rest2" are staged by restores.
OwnTokens == {"orig", "cand", "rest", "rest2"}

AlienTokens == { Made[n] : n \in 1..MaxForeign }

\* A file that another program makes is a new object.
ASSUME MadeAssumption == AlienTokens \intersect (OwnTokens \union {"none"}) = {}

Tokens == {"none"} \union OwnTokens \union AlienTokens

Fingerprints == {"absent", "before", "applied", "foreign"}

Object == [tok : Tokens, fp : Fingerprints]

NoObject == [tok |-> "none", fp |-> "absent"]

Original == [tok |-> "orig", fp |-> "before"]

AppliedFp(t) == IF t \in Unchanged THEN "before" ELSE "applied"

WalStates == {"prepared", "applied", "restore_prepared", "restored", "conflict"}

\* "none" is a row that is not there.
Row == [state : WalStates \union {"none"}, applied : Tokens, restored : Tokens]

NoRow == [state |-> "none", applied |-> "none", restored |-> "none"]

Statuses == {"pending", "restoring", "committed", "restored", "conflict"}

\* The arguments of recover_interrupted_replace_held and what it has seen.
NoProbe == [before |-> "absent", applied |-> "absent", backup |-> "none",
            provenance |-> "none", seen |-> "none", held |-> "none",
            extra |-> FALSE]

Fresh == [mode |-> "apply", at |-> 0, staged |-> "none",
          inst |-> [t \in Targets |-> "none"], conflicts |-> {},
          failed |-> FALSE, probe |-> NoProbe, caller |-> "none",
          phase |-> "none"]

\* The before-images have just been captured and stored (step 4).
Init ==
    /\ fs = [t \in Targets |->
                [target |-> Original, backup |-> NoObject, temp |-> NoObject]]
    /\ row = [t \in Targets |-> NoRow]
    /\ tx = [status |-> "pending", current |-> 4, entered |-> 4,
             cleanup |-> "pending"]
    /\ pc = "idle"
    /\ mem = Fresh
    /\ env = [touched |-> {}, foreigns |-> 0, crashes |-> 0, cut |-> {}]

--------------------------------------------------------------------------------
(* The write-ahead rows (vault/native_transactions.rs).                    *)

Advance == { <<"prepared", "applied">>, <<"prepared", "restore_prepared">>,
             <<"prepared", "restored">>, <<"prepared", "conflict">>,
             <<"applied", "restore_prepared">>, <<"applied", "conflict">>,
             <<"restore_prepared", "restored">>,
             <<"restore_prepared", "conflict">> }

\* Mutant: a transition to the state the row has is an error.
MayTransition_NotIdempotent(t, next) == <<row[t].state, next>> \in Advance

\* What transition_native_wal accepts for the row of t.
MayTransition(t, next) ==
    \/ row[t].state = next
    \/ /\ <<row[t].state, next>> \in Advance
       /\ (row[t].state = "prepared" /\ next = "applied") =>
             t \in Unchanged \/ row[t].applied # "none"
       /\ (row[t].state = "prepared" /\ next = "restore_prepared") =>
             row[t].applied # "none"
       /\ (row[t].state = "restore_prepared" /\ next = "restored") =>
             t \in Unchanged \/ row[t].restored # "none"

Transition(t, next) == row' = [row EXCEPT ![t].state = next]

\* record_native_wal_candidate
MayRecordCandidate(t, token) ==
    /\ row[t].state = "prepared"
    /\ t \notin Unchanged
    /\ row[t].applied \in {"none", token}

\* record_native_wal_restored_candidate
MayRecordRestored(t, token) ==
    /\ row[t].state = "restore_prepared"
    /\ t \notin Unchanged
    /\ row[t].restored \in {"none", token}

--------------------------------------------------------------------------------
(* The forward steps (engine.rs, apply).                                   *)

Goto(label) == pc' = label

StepsOfTargets == 15..17

\* journal.enter_step for a forward step.
EnterStep ==
    /\ pc = "idle"
    /\ tx.status = "pending" /\ tx.entered = tx.current /\ tx.current < 19
    /\ tx' = [tx EXCEPT !.entered = tx.current + 1]
    /\ Goto("step")
    /\ UNCHANGED <<fs, row, mem, env>>

CompleteStep ==
    /\ tx' = [tx EXCEPT !.current = tx.entered]
    /\ Goto("idle")

\* A step that works in the sandbox, or validates, and changes no target.
SandboxStep ==
    /\ pc = "step"
    /\ tx.entered \notin StepsOfTargets \union {14, 19}
    /\ CompleteStep
    /\ UNCHANGED <<fs, row, mem, env>>

\* compare_and_swap_targets: every target is the object of its before-image.
Preflight ==
    /\ pc = "step" /\ tx.entered = 14
    /\ \/ /\ \A t \in Targets : fs[t].target = Original
          /\ CompleteStep
       \/ /\ \E t \in Targets : fs[t].target # Original
          /\ Goto("compensate") /\ UNCHANGED tx
    /\ UNCHANGED <<fs, row, mem, env>>

Unwritten == { t \in Targets : Role[t] = tx.entered /\ row[t].state = "none" }

\* journal.prepare_mutation for the next target of the step.
PrepareMutation ==
    /\ pc = "step" /\ tx.entered \in StepsOfTargets /\ Unwritten # {}
    /\ LET t == Min(Unwritten) IN
       /\ row' = [row EXCEPT ![t].state = "prepared"]
       /\ mem' = [mem EXCEPT !.at = t]
    /\ Goto("stage")
    /\ UNCHANGED <<fs, tx, env>>

TargetsWritten ==
    /\ pc = "step" /\ tx.entered \in StepsOfTargets /\ Unwritten = {}
    /\ CompleteStep
    /\ UNCHANGED <<fs, row, mem, env>>

\* A boundary fails: the sandbox, the adapter, the reservation, the approval.
StepFails ==
    /\ \/ pc = "step"
       \/ pc = "stage" /\ mem.mode = "apply"
    /\ Goto("compensate")
    /\ UNCHANGED <<fs, row, tx, mem, env>>

\* journal.mark_mutation_applied
MarkApplied ==
    /\ pc = "mark"
    /\ MayTransition(mem.at, "applied")
    /\ row' = [row EXCEPT ![mem.at].state = "applied",
                          ![mem.at].applied = mem.inst[mem.at]]
    /\ mem' = [mem EXCEPT !.staged = "none"]
    /\ Goto("step")
    /\ UNCHANGED <<fs, tx, env>>

\* commit_native_success: receipt, ownership and status in one transaction.
Commit ==
    /\ pc = "step" /\ tx.entered = 19
    /\ tx.status = "pending" /\ tx.current = 18
    /\ \A t \in Targets : row[t].state = "applied"
    /\ tx' = [tx EXCEPT !.status = "committed", !.current = 19]
    /\ Goto("committed")
    /\ UNCHANGED <<fs, row, mem, env>>

\* Step 20 of a committed transaction; no replacement leaves anything to remove.
EnterCommittedCleanup ==
    /\ pc = "committed"
    /\ tx' = [tx EXCEPT !.entered = 20]
    /\ Goto("cleanup")
    /\ UNCHANGED <<fs, row, mem, env>>

\* finish_native_cleanup
FinishCleanup ==
    /\ pc = "cleanup"
    /\ tx.current = 19 /\ tx.status \in {"committed", "restored", "conflict"}
    /\ tx' = [tx EXCEPT !.current = 20, !.entered = 20,
                        !.cleanup = IF @ = "pending" THEN "cleaned" ELSE @]
    /\ row' = IF tx.status = "conflict" THEN row ELSE [t \in Targets |-> NoRow]
    /\ Goto("done")
    /\ UNCHANGED <<fs, mem, env>>

--------------------------------------------------------------------------------
(* The guarded replacement of one file (macos.rs, replace_regular_file).   *)

\* The object the replacement may move away.
Expected(t) ==
    CASE mem.mode = "apply" -> Original
      [] mem.mode = "undo" -> [tok |-> mem.inst[t], fp |-> AppliedFp(t)]
      [] mem.mode = "recover" -> [tok |-> row[t].applied, fp |-> AppliedFp(t)]

DesiredFp(t) == IF mem.mode = "apply" THEN AppliedFp(t) ELSE "before"

\* A new file is a new object, whatever was staged before it.
NewToken(t) ==
    CASE mem.mode = "apply" -> "cand"
      [] mem.mode # "apply" /\ row[t].restored = "rest" -> "rest2"
      [] mem.mode # "apply" /\ row[t].restored # "rest" -> "rest"

Staged(t) == [tok |-> mem.staged, fp |-> DesiredFp(t)]

\* The caller of a replacement that ended with an error: the candidate is what
\* mutation_provenance reports once it is durable.
SwapFailed(t, installed) ==
    CASE mem.mode = "apply" ->
           /\ mem' = [mem EXCEPT !.inst[t] = installed, !.staged = "none",
                                 !.probe = NoProbe, !.caller = "none",
                                 !.phase = "none"]
           /\ Goto("compensate")
           /\ UNCHANGED row
      [] mem.mode = "undo" ->
           /\ mem' = [mem EXCEPT !.failed = TRUE, !.at = t - 1,
                                 !.staged = "none", !.probe = NoProbe,
                                 !.caller = "none", !.phase = "none"]
           /\ Goto("undo")
           /\ UNCHANGED row
      [] mem.mode = "recover" ->
           /\ mem' = [mem EXCEPT !.at = t - 1, !.staged = "none",
                                 !.probe = NoProbe, !.caller = "none",
                                 !.phase = "none"]
           /\ Transition(t, "conflict")
           /\ Goto("recover")

SwapDone(t) ==
    /\ mem' = CASE mem.mode = "apply" -> [mem EXCEPT !.inst[t] = mem.staged]
                [] mem.mode = "undo" -> [mem EXCEPT !.inst[t] = "none",
                                                    !.at = t - 1,
                                                    !.staged = "none"]
                [] mem.mode = "recover" -> [mem EXCEPT !.staged = "none"]
    /\ Goto(CASE mem.mode = "apply" -> "mark"
              [] mem.mode = "undo" -> "undo"
              [] mem.mode = "recover" -> "mark_restored")

\* The snapshot check, the early return of an unchanged target and the creation
\* of the staged file under the temporary name, which must be free.
Stage ==
    LET t == mem.at IN
    /\ pc = "stage"
    /\ UNCHANGED <<tx, env>>
    /\ \/ /\ \/ fs[t].target # Expected(t)
             \/ fs[t].target.fp # DesiredFp(t) /\ fs[t].temp # NoObject
          /\ SwapFailed(t, "none") /\ UNCHANGED fs
       \/ /\ fs[t].target = Expected(t) /\ fs[t].target.fp = DesiredFp(t)
          /\ SwapDone(t) /\ UNCHANGED <<fs, row>>
       \/ /\ fs[t].target = Expected(t) /\ fs[t].target.fp # DesiredFp(t)
          /\ fs[t].temp = NoObject
          /\ fs' = [fs EXCEPT ![t].temp = [tok |-> NewToken(t),
                                           fp |-> DesiredFp(t)]]
          /\ mem' = [mem EXCEPT !.staged = NewToken(t)]
          /\ Goto("persist") /\ UNCHANGED row

\* PendingTemp is dropped: the staged file goes away.
DropTemp(t) == fs' = [fs EXCEPT ![t].temp = NoObject]

MayPersist(t) ==
    IF mem.mode = "apply" THEN MayRecordCandidate(t, mem.staged)
                          ELSE MayRecordRestored(t, mem.staged)

\* Mutant: the candidate is handed over but not stored.
PersistCandidate_Forgotten ==
    /\ pc = "persist"
    /\ fs[mem.at].target.tok = Expected(mem.at).tok
    /\ Goto("move")
    /\ UNCHANGED <<fs, row, tx, mem, env>>

\* verify_expected, then the identity of the staged object becomes durable.
PersistCandidate ==
    LET t == mem.at IN
    /\ pc = "persist"
    /\ UNCHANGED <<tx, env>>
    /\ \/ /\ fs[t].target.tok # Expected(t).tok
          /\ DropTemp(t) /\ SwapFailed(t, "none")
       \/ /\ fs[t].target.tok = Expected(t).tok /\ MayPersist(t)
          /\ row' = IF mem.mode = "apply"
                    THEN [row EXCEPT ![t].applied = mem.staged]
                    ELSE [row EXCEPT ![t].restored = mem.staged]
          /\ Goto("move")
          /\ UNCHANGED <<fs, mem>>

\* The vault refuses the candidate: a compensation remembers the error, a
\* recovery ends with it.
CandidateRefused ==
    LET t == mem.at IN
    /\ pc = "persist"
    /\ fs[t].target.tok = Expected(t).tok /\ ~MayPersist(t)
    /\ DropTemp(t)
    /\ IF mem.mode = "recover"
       THEN Goto("refused") /\ mem' = Fresh /\ UNCHANGED row
       ELSE SwapFailed(t, "none")
    /\ UNCHANGED <<tx, env>>

\* rename_exclusive(target, backup)
MoveAside ==
    LET t == mem.at IN
    /\ pc = "move"
    /\ UNCHANGED <<tx, env>>
    /\ \/ /\ fs[t].target # NoObject /\ fs[t].backup = NoObject
          /\ fs' = [fs EXCEPT ![t].target = NoObject,
                              ![t].backup = fs[t].target]
          /\ Goto("moved")
          /\ UNCHANGED <<row, mem>>
       \/ /\ fs[t].target = NoObject \/ fs[t].backup # NoObject
          /\ DropTemp(t) /\ SwapFailed(t, mem.staged)

\* The moved object must be the expected one; another one is put back.
CheckBackup ==
    LET t == mem.at
        free == fs[t].target = NoObject
    IN
    /\ pc = "moved"
    /\ UNCHANGED <<tx, env>>
    /\ \/ /\ fs[t].backup = Expected(t)
          /\ Goto("install")
          /\ UNCHANGED <<fs, row, mem>>
       \/ /\ fs[t].backup # Expected(t)
          /\ fs' = [fs EXCEPT ![t] =
                [target |-> IF free THEN fs[t].backup ELSE fs[t].target,
                 backup |-> IF free THEN NoObject ELSE fs[t].backup,
                 temp |-> NoObject]]
          /\ SwapFailed(t, mem.staged)

\* recover_interrupted_replace_held is called; its result is awaited by caller.
CallRecover(before, applied, backup, provenance, caller) ==
    /\ mem' = [mem EXCEPT !.probe = [NoProbe EXCEPT !.before = before,
                                                    !.applied = applied,
                                                    !.backup = backup,
                                                    !.provenance = provenance],
                          !.caller = caller, !.phase = "none"]
    /\ Goto("hold")

\* Mutant: a plain rename, which replaces what has taken the name.
Install_Replaces ==
    /\ pc = "install"
    /\ fs' = [fs EXCEPT ![mem.at].target = fs[mem.at].temp,
                        ![mem.at].temp = NoObject]
    /\ Goto("check")
    /\ UNCHANGED <<row, tx, mem, env>>

\* rename_exclusive(temp, target); a taken name ends in recover_replace_error.
Install ==
    LET t == mem.at IN
    /\ pc = "install"
    /\ UNCHANGED <<row, tx, env>>
    /\ \/ /\ fs[t].target = NoObject
          /\ fs' = [fs EXCEPT ![t].target = fs[t].temp, ![t].temp = NoObject]
          /\ Goto("check")
          /\ UNCHANGED mem
       \/ /\ fs[t].target # NoObject
          /\ CallRecover(Expected(t).fp, DesiredFp(t), "none", "none", "swap")
          /\ UNCHANGED fs

CheckInstalled ==
    LET t == mem.at IN
    /\ pc = "check"
    /\ UNCHANGED <<fs, row, tx, env>>
    /\ \/ fs[t].target = Staged(t) /\ Goto("drop") /\ UNCHANGED mem
       \/ /\ fs[t].target # Staged(t)
          /\ CallRecover(Expected(t).fp, DesiredFp(t), "none", mem.staged, "swap")

\* remove_exact_named: both names are validated, then the backup is unlinked.
DropBackup ==
    LET t == mem.at IN
    /\ pc = "drop"
    /\ UNCHANGED <<tx, env>>
    /\ \/ /\ fs[t].target = Staged(t) /\ fs[t].backup = Expected(t)
          /\ fs' = [fs EXCEPT ![t].backup = NoObject]
          /\ Goto("final")
          /\ UNCHANGED <<row, mem>>
       \/ /\ ~(fs[t].target = Staged(t) /\ fs[t].backup = Expected(t))
          /\ SwapFailed(t, mem.staged) /\ UNCHANGED fs

FinalCheck ==
    LET t == mem.at IN
    /\ pc = "final"
    /\ UNCHANGED <<fs, tx, env>>
    /\ \/ fs[t].target = Staged(t) /\ SwapDone(t) /\ UNCHANGED row
       \/ fs[t].target # Staged(t) /\ SwapFailed(t, mem.staged)

--------------------------------------------------------------------------------
(* The recovery of an interrupted replacement (macos.rs,                   *)
(* recover_interrupted_replace_held).                                      *)

\* The disposition goes to the caller.
Held(phase) ==
    /\ mem' = [mem EXCEPT !.phase = phase, !.probe = NoProbe]
    /\ Goto("held")

\* cleanup_recovery_temp removes whatever single-link file has the name.
HoldCleanTemp ==
    /\ pc = "hold"
    /\ DropTemp(mem.at)
    /\ Goto("look")
    /\ UNCHANGED <<row, tx, mem, env>>

AcceptsApplied(token) ==
    mem.probe.provenance # "none" /\ token = mem.probe.provenance

HoldLook ==
    LET t == mem.at
        p == mem.probe
        target == fs[t].target
        backup == fs[t].backup
        Seen(label) ==
            /\ mem' = [mem EXCEPT !.probe.seen = target.tok,
                                  !.probe.held = backup.tok]
            /\ Goto(label)
        NoBackup ==
            CASE target.fp = p.before -> Held("restored")
              [] target.fp # p.before /\ target.fp = p.applied ->
                   Held(IF AcceptsApplied(target.tok)
                        THEN "restored" ELSE "abandoned")
              [] target.fp \notin {p.before, p.applied} -> Held("error")
        MissingTarget ==
            IF p.backup = "none" /\ p.provenance # "none"
            THEN Held("abandoned") ELSE Seen("give_back")
        BothThere ==
            CASE target.fp = p.before -> Seen("drop_held")
              [] target.fp # p.before /\ target.fp = p.applied ->
                   IF AcceptsApplied(target.tok)
                   THEN Seen("take_back") ELSE Held("abandoned")
              [] target.fp \notin {p.before, p.applied} -> Held("error")
    IN
    /\ pc = "look"
    /\ UNCHANGED <<fs, row, tx, env>>
    /\ \/ backup = NoObject /\ NoBackup
       \/ /\ backup # NoObject
          /\ (p.backup # "none" /\ backup.tok # p.backup) \/ backup.fp # p.before
          /\ Held("error")
       \/ /\ backup # NoObject /\ backup.fp = p.before
          /\ p.backup \in {"none", backup.tok}
          /\ IF target = NoObject THEN MissingTarget ELSE BothThere

\* The target is what it was before: the backup is a leftover.
HoldDropBackup ==
    LET t == mem.at
        p == mem.probe
        exact == /\ fs[t].target = [tok |-> p.seen, fp |-> p.before]
                 /\ fs[t].backup = [tok |-> p.held, fp |-> p.before]
    IN
    /\ pc = "drop_held"
    /\ fs' = IF exact THEN [fs EXCEPT ![t].backup = NoObject] ELSE fs
    /\ Held(IF exact THEN "restored" ELSE "error")
    /\ UNCHANGED <<row, tx, env>>

\* rename_exclusive(target, temp): the installed object leaves the name.
HoldTakeBack ==
    LET t == mem.at IN
    /\ pc = "take_back"
    /\ UNCHANGED <<row, tx, env>>
    /\ \/ /\ fs[t].target # NoObject /\ fs[t].temp = NoObject
          /\ fs' = [fs EXCEPT ![t].target = NoObject, ![t].temp = fs[t].target]
          /\ Goto("taken")
          /\ UNCHANGED mem
       \/ /\ fs[t].target = NoObject \/ fs[t].temp # NoObject
          /\ Held("error") /\ UNCHANGED fs

\* restore_moved_name_to(temp, target)
PutBackTemp(t, f) ==
    IF f.target = NoObject
    THEN [f EXCEPT !.target = f.temp, !.temp = NoObject] ELSE f

HoldCheckTaken ==
    LET t == mem.at
        p == mem.probe
    IN
    /\ pc = "taken"
    /\ UNCHANGED <<row, tx, env>>
    /\ \/ /\ fs[t].temp = [tok |-> p.seen, fp |-> p.applied]
          /\ mem' = [mem EXCEPT !.probe.extra = TRUE]
          /\ Goto("give_back")
          /\ UNCHANGED fs
       \/ /\ fs[t].temp # [tok |-> p.seen, fp |-> p.applied]
          /\ fs' = [fs EXCEPT ![t] = PutBackTemp(t, @)]
          /\ Held("error")

\* The error path of restore_backup, with the object taken before put back.
GiveBackFailed(t, f) ==
    /\ fs' = [fs EXCEPT ![t] = IF mem.probe.extra THEN PutBackTemp(t, f) ELSE f]
    /\ Held("error")

\* restore_backup: rename_exclusive(backup, target).
HoldGiveBack ==
    LET t == mem.at
        free == /\ fs[t].target = NoObject
                /\ fs[t].backup = [tok |-> mem.probe.held,
                                   fp |-> mem.probe.before]
    IN
    /\ pc = "give_back"
    /\ UNCHANGED <<row, tx, env>>
    /\ \/ /\ free
          /\ fs' = [fs EXCEPT ![t].target = fs[t].backup,
                              ![t].backup = NoObject]
          /\ Goto("given")
          /\ UNCHANGED mem
       \/ ~free /\ GiveBackFailed(t, fs[t])

HoldCheckGiven ==
    LET t == mem.at
        f == fs[t]
        moved == IF f.target # NoObject
                 THEN [f EXCEPT !.backup = f.target, !.target = NoObject] ELSE f
        exact == f.target = [tok |-> mem.probe.held, fp |-> mem.probe.before]
    IN
    /\ pc = "given"
    /\ UNCHANGED <<row, tx, env>>
    /\ \/ /\ exact
          /\ IF mem.probe.extra THEN DropTemp(t) ELSE UNCHANGED fs
          /\ Held("restored")
       \/ ~exact /\ GiveBackFailed(t, moved)

\* recover_replace_error: the replacement fails whatever the disposition; the
\* installed identity is the candidate, which is durable by now.
SwapRecovered ==
    /\ pc = "held" /\ mem.caller = "swap"
    /\ SwapFailed(mem.at, mem.staged)
    /\ UNCHANGED <<fs, tx, env>>

--------------------------------------------------------------------------------
(* Compensation in the process that failed (engine.rs, compensate).        *)

EnterCompensation ==
    /\ pc = "compensate"
    /\ tx' = [tx EXCEPT !.entered = 20]
    /\ Goto("begin_undo")
    /\ UNCHANGED <<fs, row, mem, env>>

\* prepare_compensation: the status, then the rows in order.
BeginUndo ==
    /\ pc = "begin_undo"
    /\ tx' = [tx EXCEPT !.status = "restoring"]
    /\ Goto("prepare_undo")
    /\ UNCHANGED <<fs, row, mem, env>>

ToPrepare == { t \in Targets :
                 \/ row[t].state = "applied"
                 \/ row[t].state = "prepared" /\ row[t].applied # "none" }

PrepareUndo ==
    /\ pc = "prepare_undo" /\ ToPrepare # {}
    /\ MayTransition(Min(ToPrepare), "restore_prepared")
    /\ Transition(Min(ToPrepare), "restore_prepared")
    /\ UNCHANGED <<fs, tx, pc, mem, env>>

UndoPrepared ==
    /\ pc = "prepare_undo" /\ ToPrepare = {}
    /\ mem' = [mem EXCEPT !.mode = "undo", !.at = N]
    /\ Goto("undo")
    /\ UNCHANGED <<fs, row, tx, env>>

\* restore_matching_applied_targets, one observation at a time, in reverse.
UndoTarget ==
    /\ pc = "undo" /\ mem.at > 0
    /\ CallRecover("before", AppliedFp(mem.at), "none", mem.inst[mem.at], "undo")
    /\ UNCHANGED <<fs, row, tx, env>>

\* The daemon goes on; the transaction stays in the status restoring.
StopUndo ==
    /\ Goto("stopped")
    /\ mem' = Fresh

\* classify_compensation_snapshot and what follows from it.
UndoClassify ==
    LET t == mem.at
        target == fs[t].target
        token == mem.inst[t]
        Earlier(m) == /\ mem' = [m EXCEPT !.at = t - 1, !.caller = "none",
                                          !.phase = "none"]
                      /\ Goto("undo")
        Settled == [mem EXCEPT !.inst[t] = "none"]
        AlreadyRestored ==
            \/ token = "none" /\ Earlier(Settled) /\ UNCHANGED row
            \/ /\ token # "none"
               /\ IF MayRecordRestored(t, "orig")
                  THEN /\ row' = [row EXCEPT ![t].restored = "orig"]
                       /\ Earlier(Settled)
                  ELSE StopUndo /\ UNCHANGED row
        Unattributed ==
            Earlier([Settled EXCEPT !.conflicts = @ \union {t}]) /\ UNCHANGED row
        Attributed ==
            /\ mem' = [mem EXCEPT !.caller = "none", !.phase = "none"]
            /\ Goto("stage") /\ UNCHANGED row
        Error == Earlier([mem EXCEPT !.failed = TRUE]) /\ UNCHANGED row
    IN
    /\ pc = "held" /\ mem.caller = "undo"
    /\ UNCHANGED <<fs, tx, env>>
    /\ \/ mem.phase = "error" /\ Error
       \/ /\ mem.phase # "error"
          /\ \/ target.fp = "before" /\ AlreadyRestored
             \/ /\ target.fp # "before"
                /\ mem.phase = "abandoned" \/ token = "none"
                /\ Unattributed
             \/ /\ target.fp # "before"
                /\ mem.phase = "restored" /\ token # "none"
                /\ IF target = [tok |-> token, fp |-> AppliedFp(t)]
                   THEN Attributed ELSE Error

UndoFinished ==
    /\ pc = "undo" /\ mem.at = 0
    /\ IF mem.failed THEN StopUndo ELSE Goto("finish_rows") /\ UNCHANGED mem
    /\ UNCHANGED <<fs, row, tx, env>>

Unfinished == { t \in Targets :
                  row[t].state \notin {"none", "restored", "conflict"} }

\* finish_compensated: rows in order, conflicts first.
FinishRow ==
    LET t == Min(Unfinished)
        next == IF t \in mem.conflicts THEN "conflict" ELSE "restored"
    IN
    /\ pc = "finish_rows" /\ Unfinished # {}
    /\ IF MayTransition(t, next)
       THEN Transition(t, next) /\ UNCHANGED <<pc, mem>>
       ELSE StopUndo /\ UNCHANGED row
    /\ UNCHANGED <<fs, tx, env>>

\* finish_native_recovery: the outcome is what the rows say.
RecoveryFinished ==
    tx' = [tx EXCEPT !.current = 19, !.entered = 19,
                     !.status = IF \E t \in Targets : row[t].state = "conflict"
                                THEN "conflict" ELSE "restored"]

FinishCompensated ==
    /\ pc = "finish_rows" /\ Unfinished = {}
    /\ RecoveryFinished
    /\ Goto("cleanup")
    /\ UNCHANGED <<fs, row, mem, env>>

--------------------------------------------------------------------------------
(* Recovery at startup (recovery.rs, recover_native_transactions).         *)

\* Mutant: every unfinished transaction is rolled back.
Restart_RollsBack ==
    /\ pc \in {"down", "refused", "stopped"}
    /\ tx.current < 20
    /\ mem' = [Fresh EXCEPT !.mode = "recover", !.at = N]
    /\ tx' = [tx EXCEPT !.status = "restoring"]
    /\ Goto("recover")
    /\ UNCHANGED <<fs, row, env>>

\* The transaction is recoverable and the daemon is not up.
Restart ==
    /\ pc \in {"down", "refused", "stopped"}
    /\ tx.current < 20
    /\ mem' = [Fresh EXCEPT !.mode = "recover", !.at = N]
    /\ IF tx.status \in {"pending", "restoring"}
       THEN /\ tx' = [tx EXCEPT !.status = "restoring"]
            /\ Goto("recover")
       ELSE /\ Goto(IF tx.cleanup = "conflict" THEN "cleanup" ELSE "sandbox")
            /\ UNCHANGED tx
    /\ UNCHANGED <<fs, row, env>>

\* The recovery fails: the daemon does not start (DaemonError::Startup).
Refuse ==
    /\ Goto("refused")
    /\ mem' = Fresh

\* The phase a probe runs for the row of t.
ProbeRow ==
    LET t == mem.at
        r == row[t]
    IN
    /\ pc = "recover" /\ t > 0
    /\ UNCHANGED <<fs, row, tx, env>>
    /\ \/ /\ r.state \in {"none", "conflict"}
          /\ mem' = [mem EXCEPT !.at = t - 1]
          /\ UNCHANGED pc
       \/ /\ \/ r.state = "restored"
             \/ r.state = "restore_prepared" /\ t \in Unchanged
          /\ mem' = [mem EXCEPT !.phase = "restored", !.caller = "probe"]
          /\ Goto("held")
       \/ /\ r.state = "restore_prepared" /\ t \notin Unchanged
          /\ CallRecover(AppliedFp(t), "before", r.applied, r.restored, "probe")
       \/ /\ r.state \in {"prepared", "applied"}
          /\ CallRecover("before", AppliedFp(t), "orig",
                         IF r.state = "applied" /\ t \in Unchanged
                         THEN "orig" ELSE r.applied, "probe")

\* Mutant: the restored object is looked for under the original identity only.
ProbeMatches_OriginalOnly(t) ==
    \/ fs[t].target = Original
    \/ fs[t].target = [tok |-> row[t].applied, fp |-> "applied"]

\* The identity the probe asks of the object under the target name.
ProbeMatches(t) ==
    LET r == row[t]
        o == fs[t].target
    IN
    \/ /\ r.state \in {"restore_prepared", "restored"} /\ o.fp = "before"
       /\ o.tok = IF r.restored = "none" THEN "orig" ELSE r.restored
    \/ /\ r.state \notin {"restore_prepared", "restored"} /\ o.fp = "before"
       /\ o.tok = "orig"
    \/ /\ o.fp = "applied" /\ t \notin Unchanged
       /\ o.tok = r.applied /\ r.applied # "none"

\* A row that was not written, or whose candidate never became durable.
Uninstalled(t) == row[t].state = "prepared" /\ row[t].applied = "none"

\* classify_recovery and the transitions that follow from it.
ProbeClassify ==
    LET t == mem.at
        Skip == /\ mem' = [mem EXCEPT !.at = t - 1, !.caller = "none",
                                      !.phase = "none"]
                /\ Goto("recover")
        Continue(label) == /\ mem' = [mem EXCEPT !.caller = "none",
                                                 !.phase = "none"]
                           /\ Goto(label)
        Mark(next, Then) ==
            IF MayTransition(t, next) THEN Transition(t, next) /\ Then
                                      ELSE Refuse /\ UNCHANGED row
        matches == mem.phase = "restored" /\ ProbeMatches(t)
    IN
    /\ pc = "held" /\ mem.caller = "probe"
    /\ UNCHANGED <<fs, tx, env>>
    /\ \/ ~matches /\ Mark("conflict", Skip)
       \/ /\ matches /\ fs[t].target.fp = "before"
          /\ \/ row[t].state = "restored" /\ Skip /\ UNCHANGED row
             \/ /\ row[t].state # "restored"
                /\ row[t].state = "restore_prepared" \/ Uninstalled(t)
                /\ Continue("mark_restored") /\ UNCHANGED row
             \/ /\ row[t].state \in {"prepared", "applied"} /\ ~Uninstalled(t)
                /\ Mark("restore_prepared", Continue("mark_restored"))
       \/ /\ matches /\ fs[t].target.fp # "before"
          /\ IF Uninstalled(t) THEN Mark("conflict", Skip)
             ELSE Mark("restore_prepared", Continue("stage"))

\* Mutant: the loop steps over a row.
MarkRestored_SkipsRow ==
    /\ pc = "mark_restored" /\ MayTransition(mem.at, "restored")
    /\ Transition(mem.at, "restored")
    /\ mem' = [mem EXCEPT !.at = @ - 2]
    /\ Goto("recover")
    /\ UNCHANGED <<fs, tx, env>>

\* transition_native_wal(Restored), which may be refused.
MarkRestored ==
    LET t == mem.at IN
    /\ pc = "mark_restored"
    /\ IF MayTransition(t, "restored")
       THEN /\ Transition(t, "restored")
            /\ mem' = [mem EXCEPT !.at = t - 1]
            /\ Goto("recover")
       ELSE Refuse /\ UNCHANGED row
    /\ UNCHANGED <<fs, tx, env>>

\* Mutant: the outcome is written without a look at the unfinished rows.
FinishRecovery_Unchecked ==
    /\ pc = "recover"
    /\ RecoveryFinished
    /\ Goto("sandbox")
    /\ UNCHANGED <<fs, row, mem, env>>

\* finish_native_recovery after the last row, which must all be settled.
FinishRecovery ==
    /\ pc = "recover" /\ mem.at = 0 /\ Unfinished = {}
    /\ RecoveryFinished
    /\ Goto("sandbox")
    /\ UNCHANGED <<fs, row, mem, env>>

\* cleanup_sandbox: cleaned, left as a conflict, or an error.
CleanSandbox ==
    /\ pc = "sandbox"
    /\ \/ Goto("cleanup") /\ UNCHANGED <<tx, mem>>
       \/ /\ tx' = [tx EXCEPT !.cleanup = "conflict"]
          /\ Goto("cleanup") /\ UNCHANGED mem
       \/ Refuse /\ UNCHANGED tx
    /\ UNCHANGED <<fs, row, env>>

--------------------------------------------------------------------------------
(* The environment.                                                        *)

Alien == Made[env.foreigns + 1]

\* What another program may leave under the name of t.
Written(t) ==
    { [tok |-> k, fp |-> f] : k \in {Alien} \union ({fs[t].target.tok} \ {"none"}),
                              f \in {"before", "foreign"} \union {AppliedFp(t)} }

\* Another program writes, replaces, creates or removes the file of t.
ForeignChange(t) ==
    /\ env.foreigns < MaxForeign
    /\ \E new \in (Written(t) \union {NoObject}) \ {fs[t].target} :
          fs' = [fs EXCEPT ![t].target = new]
    /\ env' = [env EXCEPT !.foreigns = @ + 1, !.touched = @ \union {t}]
    /\ UNCHANGED <<row, tx, pc, mem>>

\* A candidate is durable and the replacement it belongs to has not ended
\* (replace_regular_file, from the first rename to the unlinking of the backup).
InSwap == {"move", "moved", "install", "check", "drop"}

\* The targets whose replacement a death of the daemon at this moment cuts.
Cut == IF pc \in InSwap THEN {mem.at} ELSE {}

\* The daemon dies: its memory is gone, files and vault stay as they are.
Crash ==
    /\ pc \notin {"down", "refused", "done"}
    /\ env.crashes < MaxCrashes
    /\ env' = [env EXCEPT !.crashes = @ + 1, !.cut = @ \union Cut]
    /\ mem' = Fresh
    /\ Goto("down")
    /\ UNCHANGED <<fs, row, tx>>

Done == pc = "done" /\ UNCHANGED vars

--------------------------------------------------------------------------------

Forward ==
    \/ EnterStep \/ SandboxStep \/ Preflight \/ PrepareMutation \/ TargetsWritten
    \/ StepFails \/ MarkApplied \/ Commit \/ EnterCommittedCleanup
    \/ FinishCleanup

Swap ==
    \/ Stage \/ PersistCandidate \/ CandidateRefused \/ MoveAside \/ CheckBackup
    \/ Install \/ CheckInstalled \/ DropBackup \/ FinalCheck

Hold ==
    \/ HoldCleanTemp \/ HoldLook \/ HoldDropBackup \/ HoldTakeBack
    \/ HoldCheckTaken \/ HoldGiveBack \/ HoldCheckGiven \/ SwapRecovered

Compensate ==
    \/ EnterCompensation \/ BeginUndo \/ PrepareUndo \/ UndoPrepared \/ UndoTarget
    \/ UndoClassify \/ UndoFinished \/ FinishRow \/ FinishCompensated

Recover ==
    \/ Restart \/ ProbeRow \/ ProbeClassify \/ MarkRestored \/ FinishRecovery
    \/ CleanSandbox

Daemon == Forward \/ Swap \/ Hold \/ Compensate \/ Recover

Foreign == \E t \in Targets : ForeignChange(t)

Next == Daemon \/ Foreign \/ Crash \/ Done

Spec == Init /\ [][Next]_vars

\* The daemon's own steps go on, a dead or stopped daemon is started again, and
\* the sandbox cannot fail to be cleaned for ever.
FairSpec ==
    /\ Spec
    /\ WF_vars(Daemon)
    /\ SF_vars(CleanSandbox /\ pc' = "cleanup")
--------------------------------------------------------------------------------
(* Properties.                                                             *)

Labels == {"idle", "step", "stage", "persist", "move", "moved", "install",
           "check", "drop", "final", "mark", "committed", "cleanup", "done",
           "hold", "look", "drop_held", "take_back", "taken", "give_back",
           "given", "held", "compensate", "begin_undo", "prepare_undo", "undo",
           "finish_rows", "stopped", "down", "refused", "recover",
           "mark_restored", "sandbox"}

\* Type invariant: files, rows, the transaction row and the daemon's memory.
TypeOK ==
    /\ fs \in [Targets -> [target : Object, backup : Object, temp : Object]]
    /\ row \in [Targets -> Row]
    /\ tx \in [status : Statuses, current : 4..20, entered : 4..20,
               cleanup : {"pending", "cleaned", "conflict"}]
    /\ pc \in Labels
    /\ mem.mode \in {"apply", "undo", "recover"} /\ mem.at \in 0..N
    /\ mem.inst \in [Targets -> Tokens] /\ mem.conflicts \subseteq Targets
    /\ env.touched \subseteq Targets

\* Write-ahead: an object the daemon staged stands under a target name only when
\* the row of the target names it, as the applied or as the restored object
\* (replace_regular_file persists the candidate before the first rename).
WriteAhead ==
    \A t \in Targets : tx.current < 20 =>
        /\ fs[t].target.tok = "cand" => row[t].applied = "cand"
        /\ fs[t].target.tok \in {"rest", "rest2"} =>
              row[t].restored = fs[t].target.tok

\* A terminal status tells the truth about the files: after a commit every target
\* has its intended state and after a restore its former one, except where
\* another program changed the target (commit_native_success,
\* finish_native_recovery); and nothing stays under the private names of such a
\* target once it is finished (remove_exact_named, cleanup_recovery_temp).
OutcomeMatchesFiles ==
    \A t \in Targets \ env.touched :
        /\ tx.status = "committed" => fs[t].target.fp = AppliedFp(t)
        /\ tx.status = "restored" => fs[t].target.fp = "before"
        /\ tx.current = 20 => fs[t].backup = NoObject /\ fs[t].temp = NoObject

\* Conflicts are not invented: a row is marked as a conflict only for a target
\* that another program changed, or whose own replacement a death of the daemon
\* cut (classify_recovery, classify_compensation_snapshot).  The second exception is
\* a flaw of the code, not part of its promise: see KillRestores.
ConflictOnlyIfTouched ==
    \A t \in Targets : row[t].state = "conflict" => t \in env.touched \union env.cut

Names == {"target", "backup", "temp"}

ForeignObjects(f) == { f[n].tok : n \in { m \in Names : f[m].fp = "foreign" } }

\* What another program wrote is never destroyed: it stays under one of the three
\* names through every step of the daemon ("If a phase moves an unexpected
\* occupant, post-move validation attempts a no-replace restoration and otherwise
\* preserves the ambiguity as a conflict", design document, line 222).  The code
\* breaks this: cleanup_recovery_temp unlinks whatever file has the temporary name.
NoForeignLoss ==
    [][env'.foreigns = env.foreigns =>
          \A t \in Targets : ForeignObjects(fs[t]) \subseteq ForeignObjects(fs'[t])]_vars

\* Other programs made two changes at most, and a death that cut a replacement was
\* the only death.
FewFaults == env.foreigns <= 2 /\ (env.cut # {} => env.crashes <= 1)

\* No step but cleanup_recovery_temp, whatever changes and deaths came before it,
\* destroys what another program wrote: it stays under one of the three names (the
\* post-move validations of replace_regular_file and
\* recover_interrupted_replace_held).  That step does so only after three foreign
\* changes, or after two deaths of which one cut a replacement.
ForeignKept ==
    [][env'.foreigns = env.foreigns /\ (pc = "hold" => FewFaults) =>
          \A t \in Targets : ForeignObjects(fs[t]) \subseteq ForeignObjects(fs'[t])]_vars

\* A commit is final: no later failure, crash or restart takes a committed
\* transaction back or touches its files (recover_native_transactions).
CommitIsFinal ==
    [][tx.status = "committed" =>
          /\ tx'.status = "committed"
          /\ fs' = fs \/ env'.foreigns > env.foreigns]_vars

\* A death before the commit is put right: the startups after it complete the
\* recovery (design document, lines 115 and 117), or at least no file that no other
\* program changed becomes a conflict ("a kill before step 19's commit restores",
\* line 290).  Each half is a promise of its own, and one behaviour of the code
\* breaks both: a row has no way to say that a cut replacement was taken back, and
\* the token of a cut restore can never be stored again.
KillRestores ==
    \/ <>(tx.current = 20)
    \/ [](\A t \in Targets : row[t].state = "conflict" => t \in env.touched)

\* Every transaction ends in which no other program changes a target and no death
\* cuts a replacement: interrupted and repeated recoveries complete, wherever else
\* the daemon dies (transition_native_wal is idempotent).  After a cut replacement
\* startup may be refused for ever: see KillRestores.
UntouchedCompletes == <>(tx.current = 20 \/ env.touched # {} \/ env.cut # {})
================================================================================
