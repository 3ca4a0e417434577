----------------------- MODULE NativeTransactionProofs -----------------------
(***************************************************************************)
(* Proofs about one native transaction, for any number of targets, any     *)
(* order of their steps, any number of changes by other programs and any   *)
(* number of deaths of the daemon, inside a replacement too.               *)
(***************************************************************************)
EXTENDS NativeTransaction, WellFoundedInduction, TLAPS

(* The daemon's memory: what it observed, installed and is about to do.    *)
ProbeType ==
  [before : Fingerprints, applied : Fingerprints, backup : Tokens,
   provenance : Tokens, seen : Tokens, held : Tokens, extra : BOOLEAN]

MemType ==
  [mode : {"apply", "undo", "recover"}, at : 0 .. N, staged : Tokens,
   inst : [Targets -> Tokens], conflicts : SUBSET Targets, failed : BOOLEAN,
   probe : ProbeType, caller : {"none", "swap", "undo", "probe"},
   phase : {"none", "restored", "abandoned", "error"}]

FileType == [target : Object, backup : Object, temp : Object]

TxType ==
  [status : Statuses, current : 4 .. 20, entered : 4 .. 20,
   cleanup : {"pending", "cleaned", "conflict"}]

EnvType == [touched : SUBSET Targets, foreigns : Nat, crashes : Nat, cut : SUBSET Targets]

(* Where the daemon works on one target: replaces its file, recovers an    *)
(* interrupted replacement, or writes its row.                             *)
Replacing == {"stage", "persist", "move", "moved", "install", "check", "drop", "final"}
Holding == {"hold", "look", "drop_held", "take_back", "taken", "give_back", "given", "held"}
AtTarget == Replacing \union Holding \union {"mark", "mark_restored"}

(* The mode and the caller follow from the place.                          *)
Places ==
  /\ pc \in AtTarget => mem.at \in Targets
  /\ pc \in {"idle", "step", "mark"} => mem.mode = "apply"
  /\ pc \in {"recover", "mark_restored"} => mem.mode = "recover"
  /\ pc = "undo" => mem.mode = "undo"
  /\ pc \in Holding => mem.caller \in {"swap", "undo", "probe"}
  /\ pc \in Holding /\ mem.caller = "undo" => mem.mode = "undo"
  /\ pc \in Holding /\ mem.caller = "probe" => mem.mode = "recover"
  /\ pc \in Replacing \union {"step", "mark"} /\ mem.mode = "apply" => tx.entered <= 19
  /\ tx.current = 20 => pc = "done"

(* A committed transaction has only its cleanup ahead.                     *)
CommittedPlaces == {"committed", "cleanup", "sandbox", "done", "down", "refused"}

CommittedRests == tx.status = "committed" => pc \in CommittedPlaces

(* The types of the variables.                                            *)
Shapes ==
  /\ fs \in [Targets -> FileType] /\ row \in [Targets -> Row]
  /\ tx \in TxType /\ mem \in MemType /\ env \in EnvType /\ pc \in Labels

(* The inductive invariant behind the types and the finality of a commit.  *)
TypeInv == Shapes /\ Places /\ CommittedRests

(* The row of t names a token the daemon staged. *)
Named(t, token) ==
  /\ token = "cand" => row[t].applied = "cand"
  /\ token \in {"rest", "rest2"} => row[t].restored = token

(* What the temporary name holds may still go to the target name.          *)
TempMoves ==
  \/ pc \in {"move", "moved", "install", "taken"}
  \/ pc \in {"give_back", "given"} /\ mem.probe.extra

(* What stands under the target and the backup name is named by the row.   *)
FilesNamed ==
  \A t \in Targets : Named(t, fs[t].target.tok) /\ Named(t, fs[t].backup.tok)

(* So is what the temporary name holds, from the moment it may move.       *)
TempNamed == TempMoves => Named(mem.at, fs[mem.at].temp.tok)

(* A row in no state is an empty row.                                      *)
RowsNamed == \A t \in Targets : row[t].state = "none" => row[t] = NoRow

(* The staged object, and what the row says of it.                         *)
StagedNamed ==
  /\ pc \in {"hold", "look"} => ~mem.probe.extra
  /\ pc \in {"idle", "step"} => mem.staged = "none"
  /\ pc = "stage" /\ mem.mode = "apply" =>
       mem.staged = "none" /\ row[mem.at].applied = "none"
  /\ pc = "persist" =>
       /\ fs[mem.at].temp.tok = mem.staged
       /\ mem.mode = "apply" <=> mem.staged = "cand"
       /\ mem.mode # "apply" => mem.staged \in {"rest", "rest2"}
  /\ pc \in {"move", "moved", "install", "check", "drop", "final"} /\ mem.mode = "apply" =>
       row[mem.at].applied = mem.staged
  /\ pc = "mark" => mem.inst[mem.at] = row[mem.at].applied

(* The inductive invariant behind WriteAhead, while a target may change.   *)
WriteAheadInv ==
  TypeInv /\ (tx.current < 20 => FilesNamed /\ TempNamed /\ RowsNamed /\ StagedNamed)

(* What stands under the three names of a target.                          *)
Files(target, backup, temp) == [target |-> target, backup |-> backup, temp |-> temp]

-----------------------------------------------------------------------------
(* Types. *)

(* A set of targets with anything in it has a first one. *)
LEMMA FirstTarget ==
  ASSUME NEW S \in SUBSET Targets, S # {}
  PROVE  Min(S) \in S /\ \A u \in S : Min(S) <= u
<1>1. S \subseteq Nat
  BY PlanAssumption DEF Targets
<1>2. PICK i \in S : \A j \in S : ~ (<<j, i>> \in OpToRel(<, Nat))
  BY <1>1, NatLessThanWellFounded, WFMin
<1>3. \A j \in S : i \in Nat /\ j \in Nat /\ ~(j < i)
  BY <1>1, <1>2 DEF OpToRel
<1>4. \E x \in S : \A y \in S : x <= y
  BY <1>3
<1> QED BY <1>4 DEF Min

(* A fresh memory is one. *)
LEMMA FreshTypes == Fresh \in MemType /\ Fresh.mode = "apply"
<1>1. [t \in Targets |-> "none"] \in [Targets -> Tokens]
  BY DEF Tokens
<1> QED BY <1>1, PlanAssumption DEF Fresh, MemType, ProbeType, NoProbe, Tokens, Fingerprints

(* A failed replacement leaves the memory and the rows well formed, and    *)
(* sends the daemon to where its caller goes on.                           *)
LEMMA SwapFailedTypes ==
  ASSUME TypeInv, NEW t \in Targets, NEW installed \in Tokens, SwapFailed(t, installed)
  PROVE  /\ mem' \in MemType /\ row' \in [Targets -> Row]
         /\ pc' \in {"compensate", "undo", "recover"}
         /\ mem'.mode = mem.mode
         /\ pc' = "undo" => mem.mode = "undo"
         /\ pc' = "recover" => mem.mode = "recover"
<1> USE DEF TypeInv, Shapes
<1>0. NoProbe \in ProbeType
  BY DEF NoProbe, ProbeType, Tokens, Fingerprints
<1>1. t - 1 \in 0 .. N /\ "none" \in Tokens
  BY PlanAssumption DEF Targets, Tokens
<1>2. CASE mem.mode = "apply"
  <2>1. /\ mem' = [mem EXCEPT !.inst[t] = installed, !.staged = "none", !.probe = NoProbe,
                             !.caller = "none", !.phase = "none"]
        /\ Goto("compensate") /\ UNCHANGED row
    BY <1>2 DEF SwapFailed
  <2> QED BY <1>0, <1>1, <1>2, <2>1 DEF Goto, MemType
<1>3. CASE mem.mode = "undo"
  <2>1. /\ mem' = [mem EXCEPT !.failed = TRUE, !.at = t - 1, !.staged = "none",
                             !.probe = NoProbe, !.caller = "none", !.phase = "none"]
        /\ Goto("undo") /\ UNCHANGED row
    BY <1>3 DEF SwapFailed
  <2> QED BY <1>0, <1>1, <1>3, <2>1 DEF Goto, MemType
<1>4. CASE mem.mode = "recover"
  <2>1. /\ mem' = [mem EXCEPT !.at = t - 1, !.staged = "none", !.probe = NoProbe,
                             !.caller = "none", !.phase = "none"]
        /\ Transition(t, "conflict") /\ Goto("recover")
    BY <1>4 DEF SwapFailed
  <2> QED BY <1>0, <1>1, <1>4, <2>1 DEF Goto, MemType, Transition, Row, WalStates
<1> QED BY <1>2, <1>3, <1>4 DEF MemType

(* A replacement that is done. *)
LEMMA SwapDoneTypes ==
  ASSUME TypeInv, NEW t \in Targets, SwapDone(t)
  PROVE  /\ mem' \in MemType
         /\ mem'.mode = mem.mode
         /\ pc' \in {"mark", "undo", "mark_restored"}
         /\ pc' = "mark" => mem.mode = "apply" /\ mem'.at = mem.at
         /\ pc' = "undo" => mem.mode = "undo"
         /\ pc' = "mark_restored" => mem.mode = "recover" /\ mem'.at = mem.at
<1> USE DEF TypeInv, Shapes
<1>1. t - 1 \in 0 .. N /\ "none" \in Tokens
  BY PlanAssumption DEF Targets, Tokens
<1>2. CASE mem.mode = "apply"
  BY <1>1, <1>2 DEF SwapDone, Goto, MemType
<1>3. CASE mem.mode = "undo"
  BY <1>1, <1>3 DEF SwapDone, Goto, MemType
<1>4. CASE mem.mode = "recover"
  BY <1>1, <1>4 DEF SwapDone, Goto, MemType
<1> QED BY <1>2, <1>3, <1>4 DEF MemType

(* A call of the recovery of a replacement. *)
LEMMA CallRecoverTypes ==
  ASSUME TypeInv, NEW b \in Fingerprints, NEW a \in Fingerprints, NEW k \in Tokens,
         NEW v \in Tokens, NEW c \in {"swap", "undo", "probe"}, CallRecover(b, a, k, v, c)
  PROVE  /\ mem' \in MemType /\ pc' = "hold"
         /\ mem'.mode = mem.mode /\ mem'.at = mem.at /\ mem'.caller = c
<1> USE DEF TypeInv, Shapes
<1>1. NoProbe \in ProbeType
  BY DEF NoProbe, ProbeType, Tokens, Fingerprints
<1>2. [NoProbe EXCEPT !.before = b, !.applied = a, !.backup = k, !.provenance = v] \in ProbeType
  BY <1>1 DEF ProbeType
<1> QED BY <1>2 DEF CallRecover, Goto, MemType

(* The answer of that recovery. *)
LEMMA HeldTypes ==
  ASSUME TypeInv, NEW p \in {"restored", "abandoned", "error"}, Held(p)
  PROVE  /\ mem' \in MemType /\ pc' = "held"
         /\ mem'.mode = mem.mode /\ mem'.at = mem.at /\ mem'.caller = mem.caller
         /\ mem'.phase = p
<1> USE DEF TypeInv, Shapes
<1>1. NoProbe \in ProbeType
  BY DEF NoProbe, ProbeType, Tokens, Fingerprints
<1> QED BY <1>1 DEF Held, Goto, MemType

(* The steps of an apply keep the types. *)
LEMMA ForwardTypes ==
  ASSUME TypeInv, Forward
  PROVE  TypeInv'
<1> USE DEF TypeInv, Shapes, Goto
<1>1. CASE EnterStep
  <2>1. Shapes'
    BY <1>1 DEF EnterStep, Labels, TxType
  <2>2. Places'
    BY <1>1 DEF EnterStep, Places, AtTarget, Replacing, Holding, TxType
  <2>3. CommittedRests'
    BY <1>1 DEF EnterStep, CommittedRests, CommittedPlaces, TxType
  <2> QED BY <2>1, <2>2, <2>3
<1>2. CASE SandboxStep \/ TargetsWritten
  <2>0. /\ pc = "step" /\ pc' = "idle" /\ tx.status # "committed"
        /\ tx' = [tx EXCEPT !.current = tx.entered] /\ UNCHANGED <<fs, row, mem, env>>
    BY <1>2 DEF SandboxStep, TargetsWritten, CompleteStep, CommittedRests, CommittedPlaces
  <2>1. Shapes'
    BY <2>0 DEF Labels, TxType
  <2>2. Places'
    BY <2>0 DEF Places, AtTarget, Replacing, Holding, TxType
  <2>3. CommittedRests'
    BY <2>0 DEF CommittedRests, TxType
  <2> QED BY <2>1, <2>2, <2>3
<1>3. CASE Preflight
  <2>0. /\ pc = "step" /\ tx.status # "committed" /\ UNCHANGED <<fs, row, mem, env>>
        /\ \/ pc' = "idle" /\ tx' = [tx EXCEPT !.current = tx.entered]
           \/ pc' = "compensate" /\ tx' = tx
    BY <1>3 DEF Preflight, CompleteStep, CommittedRests, CommittedPlaces
  <2>1. Shapes'
    BY <2>0 DEF Labels, TxType
  <2>2. Places'
    BY <2>0 DEF Places, AtTarget, Replacing, Holding, TxType
  <2>3. CommittedRests'
    BY <2>0 DEF CommittedRests, TxType
  <2> QED BY <2>1, <2>2, <2>3
<1>4. CASE PrepareMutation
  <2> DEFINE t == Min(Unwritten)
  <2>0. t \in Targets
    BY <1>4, FirstTarget DEF PrepareMutation, Unwritten
  <2>a. /\ pc = "step" /\ pc' = "stage" /\ UNCHANGED <<fs, tx, env>>
        /\ row' = [row EXCEPT ![t].state = "prepared"]
        /\ mem' = [mem EXCEPT !.at = t]
    BY <1>4 DEF PrepareMutation
  <2> HIDE DEF t
  <2>1. row' \in [Targets -> Row]
    BY <2>0, <2>a DEF Row, WalStates
  <2>b. t \in 0 .. N
    BY <2>0, PlanAssumption DEF Targets
  <2>2. mem' \in MemType /\ mem'.at = t /\ mem'.mode = mem.mode
    BY <2>b, <2>a DEF MemType
  <2>3. Shapes'
    BY <2>1, <2>2, <2>a DEF Labels
  <2>4. Places'
    BY <2>0, <2>2, <2>a DEF Places, AtTarget, Replacing, Holding
  <2>5. CommittedRests'
    BY <2>a DEF CommittedRests, CommittedPlaces
  <2> QED BY <2>3, <2>4, <2>5
<1>5. CASE StepFails
  <2>1. Shapes'
    BY <1>5 DEF StepFails, Labels
  <2>2. Places'
    BY <1>5 DEF StepFails, Places, AtTarget, Replacing, Holding
  <2>3. CommittedRests'
    BY <1>5 DEF StepFails, CommittedRests, CommittedPlaces
  <2> QED BY <2>1, <2>2, <2>3
<1>6. CASE MarkApplied
  <2>0. mem.at \in Targets /\ mem.inst[mem.at] \in Tokens /\ mem.mode = "apply"
    BY <1>6 DEF MarkApplied, Places, AtTarget, MemType
  <2>1. row' \in [Targets -> Row]
    BY <1>6, <2>0 DEF MarkApplied, Row, WalStates
  <2>2. mem' \in MemType /\ mem'.mode = "apply" /\ mem'.at = mem.at
    BY <1>6, <2>0 DEF MarkApplied, MemType, Tokens
  <2>3. Shapes'
    BY <1>6, <2>1, <2>2 DEF MarkApplied, Labels
  <2>4. Places'
    <3>1. pc = "mark" /\ pc' = "step" /\ tx' = tx /\ tx.entered <= 19
      BY <1>6 DEF MarkApplied, Places
    <3> QED BY <2>0, <2>2, <3>1 DEF Places, AtTarget, Replacing, Holding
  <2>5. CommittedRests'
    BY <1>6 DEF MarkApplied, CommittedRests, CommittedPlaces
  <2> QED BY <2>3, <2>4, <2>5
<1>7. CASE Commit
  <2>1. Shapes'
    BY <1>7 DEF Commit, Labels, TxType, Statuses
  <2>2. Places'
    BY <1>7 DEF Commit, Places, AtTarget, Replacing, Holding, TxType
  <2>3. CommittedRests'
    BY <1>7 DEF Commit, CommittedRests, CommittedPlaces
  <2> QED BY <2>1, <2>2, <2>3
<1>8. CASE EnterCommittedCleanup
  <2>1. Shapes'
    BY <1>8 DEF EnterCommittedCleanup, Labels, TxType
  <2>2. Places'
    BY <1>8 DEF EnterCommittedCleanup, Places, AtTarget, Replacing, Holding, TxType
  <2>3. CommittedRests'
    BY <1>8 DEF EnterCommittedCleanup, CommittedRests, CommittedPlaces, TxType
  <2> QED BY <2>1, <2>2, <2>3
<1>9. CASE FinishCleanup
  <2>1. row' \in [Targets -> Row]
    BY <1>9 DEF FinishCleanup, Row, NoRow, Tokens
  <2>2. tx' \in TxType
    <3>1. PICK c \in {"pending", "cleaned", "conflict"} :
             tx' = [tx EXCEPT !.current = 20, !.entered = 20, !.cleanup = c]
      BY <1>9 DEF FinishCleanup, TxType
    <3>2. 20 \in 4 .. 20
      OBVIOUS
    <3> QED BY <3>1, <3>2 DEF TxType
  <2>3. Shapes'
    BY <1>9, <2>1, <2>2 DEF FinishCleanup, Labels
  <2>4. Places'
    BY <1>9 DEF FinishCleanup, Places, AtTarget, Replacing, Holding
  <2>5. CommittedRests'
    BY <1>9 DEF FinishCleanup, CommittedRests, CommittedPlaces
  <2> QED BY <2>3, <2>4, <2>5
<1> QED BY <1>1, <1>2, <1>3, <1>4, <1>5, <1>6, <1>7, <1>8, <1>9 DEF Forward

(* The ends of a replacement keep the types. *)
LEMMA EndTypes ==
  ASSUME TypeInv, pc \in AtTarget, fs' \in [Targets -> FileType], UNCHANGED <<tx, env>>,
         \/ \E installed \in Tokens : SwapFailed(mem.at, installed)
         \/ SwapDone(mem.at) /\ UNCHANGED row /\ pc \in Replacing
         \/ /\ UNCHANGED row
            /\ \E b, a \in Fingerprints : \E k, v \in Tokens : CallRecover(b, a, k, v, "swap")
         \/ /\ UNCHANGED row /\ pc \in Holding
            /\ \E p \in {"restored", "abandoned", "error"} : Held(p)
  PROVE  TypeInv'
<1> USE DEF TypeInv
<1>1. mem.at \in Targets /\ tx.status # "committed" /\ tx.current # 20
  BY DEF Places, AtTarget, Replacing, Holding, CommittedRests, CommittedPlaces
<1>2. /\ mem' \in MemType /\ row' \in [Targets -> Row]
      /\ pc' \in {"compensate", "undo", "recover", "mark", "mark_restored", "hold", "held"}
      /\ mem'.mode = mem.mode
      /\ pc' = "undo" => mem.mode = "undo"
      /\ pc' = "recover" => mem.mode = "recover"
      /\ pc' = "mark" => mem.mode = "apply" /\ mem'.at = mem.at /\ pc \in Replacing
      /\ pc' = "mark_restored" => mem.mode = "recover" /\ mem'.at = mem.at
      /\ pc' = "hold" => mem'.at = mem.at /\ mem'.caller = "swap"
      /\ pc' = "held" => mem'.at = mem.at /\ mem'.caller = mem.caller /\ pc \in Holding
  <2>0. row \in [Targets -> Row]
    BY DEF Shapes
  <2>1. CASE \E installed \in Tokens : SwapFailed(mem.at, installed)
    BY <1>1, <2>1, SwapFailedTypes
  <2>2. CASE SwapDone(mem.at) /\ UNCHANGED row /\ pc \in Replacing
    BY <1>1, <2>0, <2>2, SwapDoneTypes
  <2>3. CASE /\ UNCHANGED row
             /\ \E b, a \in Fingerprints : \E k, v \in Tokens : CallRecover(b, a, k, v, "swap")
    BY <2>0, <2>3, CallRecoverTypes
  <2>4. CASE /\ UNCHANGED row /\ pc \in Holding
             /\ \E p \in {"restored", "abandoned", "error"} : Held(p)
    BY <2>0, <2>4, HeldTypes
  <2> QED BY <2>1, <2>2, <2>3, <2>4
<1>3. Shapes'
  BY <1>2 DEF Shapes, Labels
<1>4. Places'
  BY <1>1, <1>2 DEF Places, AtTarget, Replacing, Holding
<1>5. CommittedRests'
  BY <1>1 DEF CommittedRests
<1> QED BY <1>3, <1>4, <1>5

(* So does going on with the target at hand. *)
LEMMA WithinTypes ==
  ASSUME TypeInv, fs' \in [Targets -> FileType], row' \in [Targets -> Row],
         mem' \in MemType, mem'.mode = mem.mode, mem'.at = mem.at, mem'.caller = mem.caller,
         UNCHANGED <<tx, env>>,
         \/ pc \in Replacing /\ pc' \in Replacing
         \/ pc \in Holding /\ pc' \in Holding
  PROVE  TypeInv'
<1> USE DEF TypeInv
<1>1. mem.at \in Targets /\ tx.status # "committed" /\ tx.current # 20
  BY DEF Places, AtTarget, Replacing, Holding, CommittedRests, CommittedPlaces
<1>2. Shapes'
  BY <1>1 DEF Shapes, Labels, Replacing, Holding
<1>3. Places'
  BY <1>1 DEF Places, AtTarget, Replacing, Holding
<1>4. CommittedRests'
  BY <1>1 DEF CommittedRests
<1> QED BY <1>2, <1>3, <1>4

(* What the daemon expects, desires and stages is well formed. *)
LEMMA SwapValues ==
  ASSUME TypeInv, NEW t \in Targets
  PROVE  /\ Original \in Object /\ NoObject \in Object
         /\ DesiredFp(t) \in {"before", "applied"} /\ DesiredFp(t) \in Fingerprints
         /\ AppliedFp(t) \in Fingerprints
         /\ NewToken(t) \in {"cand", "rest", "rest2"}
         /\ Expected(t) \in Object
         /\ fs[t] \in FileType /\ fs[t].target \in Object
         /\ fs[t].backup \in Object /\ fs[t].temp \in Object
         /\ mem.staged \in Tokens /\ mem.inst[t] \in Tokens
         /\ row[t].applied \in Tokens /\ row[t].restored \in Tokens
<1> USE DEF TypeInv, Shapes
<1>1. mem.mode \in {"apply", "undo", "recover"} /\ mem.inst[t] \in Tokens /\ mem.staged \in Tokens
  BY DEF MemType
<1>2. row[t] \in Row /\ row[t].applied \in Tokens /\ row[t].restored \in Tokens
  BY DEF Row
<1>3. AppliedFp(t) \in {"before", "applied"} /\ DesiredFp(t) \in {"before", "applied"}
  BY DEF AppliedFp, DesiredFp
<1>4. Original \in Object /\ NoObject \in Object
  BY DEF Original, NoObject, Object, Tokens, OwnTokens, Fingerprints
<1>5. Expected(t) \in Object
  BY <1>1, <1>2, <1>3, <1>4 DEF Expected, Object, Fingerprints
<1>6. NewToken(t) \in {"cand", "rest", "rest2"}
  BY <1>1, <1>2 DEF NewToken
<1>7. fs[t] \in FileType /\ fs[t].target \in Object /\ fs[t].backup \in Object /\ fs[t].temp \in Object
  BY DEF FileType
<1> QED BY <1>1, <1>2, <1>3, <1>4, <1>5, <1>6, <1>7 DEF Fingerprints

(* A change of one file is well formed. *)
LEMMA OneFile ==
  ASSUME TypeInv, NEW t \in Targets, NEW f \in FileType, fs' = [fs EXCEPT ![t] = f]
  PROVE  fs' \in [Targets -> FileType] /\ fs'[t] = f /\ \A u \in Targets \ {t} : fs'[u] = fs[u]
  BY DEF TypeInv, Shapes

(* The steps of a guarded replacement keep the types. *)
LEMMA SwapTypes ==
  ASSUME TypeInv, Swap
  PROVE  TypeInv'
<1> DEFINE t == mem.at
<1> USE DEF TypeInv, Goto
<1>0. t \in Targets /\ pc \in AtTarget /\ pc \in Replacing
  BY DEF Swap, Stage, PersistCandidate, CandidateRefused, MoveAside, CheckBackup, Install,
         CheckInstalled, DropBackup, FinalCheck, Places, AtTarget, Replacing
<1>1. /\ fs \in [Targets -> FileType] /\ row \in [Targets -> Row] /\ mem \in MemType
      /\ "none" \in Tokens
  BY DEF Shapes, Tokens
<1>2. \A x, b, a \in Object : Files(x, b, a) \in FileType
  BY DEF FileType, Files
<1> HIDE DEF t
<1>a. t = mem.at
  BY DEF t
<1> USE <1>0, <1>1, SwapValues
<1>b. fs[t] = Files(fs[t].target, fs[t].backup, fs[t].temp)
  BY DEF FileType, Files
<1>3. CASE Stage
  <2>1. CASE SwapFailed(t, "none") /\ UNCHANGED <<fs, tx, env>>
    BY <1>a, <2>1, EndTypes
  <2>2. CASE SwapDone(t) /\ UNCHANGED <<fs, row, tx, env>>
    BY <1>a, <2>2, EndTypes
  <2>3. CASE /\ fs' = [fs EXCEPT ![t].temp = [tok |-> NewToken(t), fp |-> DesiredFp(t)]]
             /\ mem' = [mem EXCEPT !.staged = NewToken(t)]
             /\ pc' = "persist" /\ UNCHANGED <<row, tx, env>>
    <3>1. [tok |-> NewToken(t), fp |-> DesiredFp(t)] \in Object /\ NewToken(t) \in Tokens
      BY DEF Object, Tokens, OwnTokens
    <3>2. fs' \in [Targets -> FileType]
      BY <2>3, <3>1 DEF FileType
    <3>3. mem' \in MemType /\ mem'.mode = mem.mode /\ mem'.at = mem.at /\ mem'.caller = mem.caller
      BY <2>3, <3>1 DEF MemType
    <3> QED BY <2>3, <3>2, <3>3, WithinTypes DEF Replacing
  <2> QED BY <1>3, <1>a, <2>1, <2>2, <2>3 DEF Stage
<1>c. ASSUME DropTemp(t) PROVE fs' \in [Targets -> FileType]
  BY <1>c DEF DropTemp, FileType
<1>4. CASE PersistCandidate
  <2>1. CASE DropTemp(t) /\ SwapFailed(t, "none") /\ UNCHANGED <<tx, env>>
    BY <1>a, <1>c, <2>1, EndTypes
  <2>2. CASE /\ row' = IF mem.mode = "apply" THEN [row EXCEPT ![t].applied = mem.staged]
                                            ELSE [row EXCEPT ![t].restored = mem.staged]
             /\ pc' = "move" /\ UNCHANGED <<fs, mem, tx, env>>
    <3>1. row' \in [Targets -> Row]
      BY <2>2 DEF Row
    <3> QED BY <2>2, <3>1, WithinTypes DEF Replacing
  <2> QED BY <1>4, <1>a, <2>1, <2>2 DEF PersistCandidate
<1>5. CASE CandidateRefused
  <2>1. CASE SwapFailed(t, "none")
    BY <1>5, <1>a, <1>c, <2>1, EndTypes DEF CandidateRefused
  <2>2. CASE mem.mode = "recover"
    <3>1. /\ pc = "persist" /\ pc' = "refused" /\ mem' = Fresh /\ UNCHANGED <<row, tx, env>>
          /\ fs' \in [Targets -> FileType]
      BY <1>5, <1>a, <1>c, <2>2 DEF CandidateRefused
    <3>2. Shapes'
      BY <3>1, FreshTypes DEF Shapes, Labels
    <3>3. Places' /\ CommittedRests'
      BY <3>1, FreshTypes DEF Places, AtTarget, Replacing, Holding, CommittedRests, CommittedPlaces
    <3> QED BY <3>2, <3>3
  <2> QED BY <1>5, <1>a, <2>1, <2>2 DEF CandidateRefused
<1>6. CASE MoveAside
  <2>1. CASE DropTemp(t) /\ SwapFailed(t, mem.staged) /\ UNCHANGED <<tx, env>>
    BY <1>a, <1>c, <2>1, EndTypes
  <2>2. CASE /\ fs' = [fs EXCEPT ![t].target = NoObject, ![t].backup = fs[t].target]
             /\ pc' = "moved" /\ UNCHANGED <<row, mem, tx, env>>
    <3>1. fs' \in [Targets -> FileType]
      BY <2>2 DEF FileType
    <3> QED BY <2>2, <3>1, WithinTypes DEF Replacing
  <2> QED BY <1>6, <1>a, <2>1, <2>2 DEF MoveAside
<1>7. CASE CheckBackup
  <2>1. CASE pc' = "install" /\ UNCHANGED <<fs, row, mem, tx, env>>
    BY <2>1, WithinTypes DEF Replacing
  <2>2. CASE fs[t].backup # Expected(t)
    <3> DEFINE free == fs[t].target = NoObject
               f == Files(IF free THEN fs[t].backup ELSE fs[t].target,
                          IF free THEN NoObject ELSE fs[t].backup, NoObject)
    <3>1. f \in FileType
      BY <1>2
    <3>2. fs' = [fs EXCEPT ![t] = f] /\ SwapFailed(t, mem.staged) /\ UNCHANGED <<tx, env>>
      BY <1>7, <1>a, <2>2 DEF CheckBackup, Files
    <3> HIDE DEF f
    <3>3. fs' \in [Targets -> FileType]
      BY <3>1, <3>2, OneFile
    <3> QED BY <1>a, <3>2, <3>3, EndTypes
  <2> QED BY <1>7, <1>a, <2>1, <2>2 DEF CheckBackup
<1>8. CASE Install
  <2>1. CASE /\ fs' = [fs EXCEPT ![t].target = fs[t].temp, ![t].temp = NoObject]
             /\ pc' = "check" /\ UNCHANGED <<row, mem, tx, env>>
    <3>1. fs' \in [Targets -> FileType]
      BY <2>1 DEF FileType
    <3> QED BY <2>1, <3>1, WithinTypes DEF Replacing
  <2>2. CASE CallRecover(Expected(t).fp, DesiredFp(t), "none", "none", "swap") /\ UNCHANGED <<fs, row, tx, env>>
    <3>1. Expected(t).fp \in Fingerprints
      BY DEF Object
    <3> QED BY <2>2, <3>1, EndTypes
  <2> QED BY <1>8, <1>a, <2>1, <2>2 DEF Install
<1>9. CASE CheckInstalled
  <2>1. CASE pc' = "drop" /\ UNCHANGED <<fs, row, mem, tx, env>>
    BY <2>1, WithinTypes DEF Replacing
  <2>2. CASE CallRecover(Expected(t).fp, DesiredFp(t), "none", mem.staged, "swap") /\ UNCHANGED <<fs, row, tx, env>>
    <3>1. Expected(t).fp \in Fingerprints
      BY DEF Object
    <3> QED BY <2>2, <3>1, EndTypes
  <2> QED BY <1>9, <1>a, <2>1, <2>2 DEF CheckInstalled
<1>10. CASE DropBackup
  <2>1. CASE fs' = [fs EXCEPT ![t].backup = NoObject] /\ pc' = "final" /\ UNCHANGED <<row, mem, tx, env>>
    <3>1. fs' \in [Targets -> FileType]
      BY <2>1 DEF FileType
    <3> QED BY <2>1, <3>1, WithinTypes DEF Replacing
  <2>2. CASE SwapFailed(t, mem.staged) /\ UNCHANGED <<fs, tx, env>>
    BY <1>a, <2>2, EndTypes
  <2> QED BY <1>10, <1>a, <2>1, <2>2 DEF DropBackup
<1>11. CASE FinalCheck
  <2>1. CASE SwapDone(t) /\ UNCHANGED <<fs, row, tx, env>>
    BY <1>a, <2>1, EndTypes
  <2>2. CASE SwapFailed(t, mem.staged) /\ UNCHANGED <<fs, tx, env>>
    BY <1>a, <2>2, EndTypes
  <2> QED BY <1>11, <1>a, <2>1, <2>2 DEF FinalCheck
<1> QED BY <1>3, <1>4, <1>5, <1>6, <1>7, <1>8, <1>9, <1>10, <1>11 DEF Swap

(* A look at the names ends the recovery or is remembered. *)
LEMMA LookEnds ==
  ASSUME HoldLook
  PROVE  \/ \E p \in {"restored", "abandoned", "error"} : Held(p)
         \/ /\ mem' = [mem EXCEPT !.probe.seen = fs[mem.at].target.tok,
                                  !.probe.held = fs[mem.at].backup.tok]
            /\ pc' \in {"give_back", "drop_held", "take_back"}
<1> DEFINE p == mem.probe
           target == fs[mem.at].target
           backup == fs[mem.at].backup
           Goal == \/ \E q \in {"restored", "abandoned", "error"} : Held(q)
                   \/ /\ mem' = [mem EXCEPT !.probe.seen = target.tok, !.probe.held = backup.tok]
                      /\ pc' \in {"give_back", "drop_held", "take_back"}
<1> SUFFICES Goal
  OBVIOUS
<1>1. CASE backup = NoObject
  <2>1. CASE target.fp = p.before
    BY <1>1, <2>1 DEF HoldLook
  <2>2. CASE target.fp # p.before /\ target.fp = p.applied
    BY <1>1, <2>2 DEF HoldLook
  <2>3. CASE target.fp \notin {p.before, p.applied}
    BY <1>1, <2>3 DEF HoldLook
  <2> QED BY <2>1, <2>2, <2>3
<1>2. CASE backup # NoObject /\ ((p.backup # "none" /\ backup.tok # p.backup) \/ backup.fp # p.before)
  BY <1>2 DEF HoldLook
<1>3. CASE backup # NoObject /\ backup.fp = p.before /\ p.backup \in {"none", backup.tok}
  <2>0. CASE target = NoObject
    BY <1>3, <2>0 DEF HoldLook, Goto
  <2>1. CASE target # NoObject /\ target.fp = p.before
    BY <1>3, <2>1 DEF HoldLook, Goto
  <2>2. CASE target # NoObject /\ target.fp # p.before /\ target.fp = p.applied
    BY <1>3, <2>2 DEF HoldLook, Goto
  <2>3. CASE target # NoObject /\ target.fp \notin {p.before, p.applied}
    BY <1>3, <2>3 DEF HoldLook, Goto
  <2> QED BY <2>0, <2>1, <2>2, <2>3
<1> QED BY <1>1, <1>2, <1>3

(* The steps of the recovery of a replacement keep the types. *)
LEMMA HoldTypes ==
  ASSUME TypeInv, Hold
  PROVE  TypeInv'
<1> DEFINE t == mem.at
<1> USE DEF TypeInv, Goto
<1>0. t \in Targets /\ pc \in AtTarget /\ pc \in Holding
  BY DEF Hold, HoldCleanTemp, HoldLook, HoldDropBackup, HoldTakeBack, HoldCheckTaken, HoldGiveBack,
         HoldCheckGiven, SwapRecovered, Places, AtTarget, Holding
<1>1. /\ fs \in [Targets -> FileType] /\ row \in [Targets -> Row] /\ mem \in MemType
      /\ mem.probe \in ProbeType
  BY DEF Shapes, MemType
<1> HIDE DEF t
<1>a. t = mem.at
  BY DEF t
<1> USE <1>0, <1>1, SwapValues
<1>b. ASSUME NEW f \in FileType PROVE PutBackTemp(t, f) \in FileType
  BY DEF PutBackTemp, FileType
<1>2. CASE HoldCleanTemp
  <2>1. fs' \in [Targets -> FileType]
    BY <1>2, <1>a DEF HoldCleanTemp, DropTemp, FileType
  <2> QED BY <1>2, <2>1, WithinTypes DEF HoldCleanTemp, Holding
<1>3. CASE HoldLook
  <2>1. UNCHANGED <<fs, row, tx, env>>
    BY <1>3 DEF HoldLook
  <2>2. CASE \E p \in {"restored", "abandoned", "error"} : Held(p)
    BY <2>1, <2>2, EndTypes
  <2>3. CASE /\ mem' = [mem EXCEPT !.probe.seen = fs[mem.at].target.tok,
                                   !.probe.held = fs[mem.at].backup.tok]
             /\ pc' \in {"give_back", "drop_held", "take_back"}
    <3>1. fs[mem.at].target.tok \in Tokens /\ fs[mem.at].backup.tok \in Tokens
      BY <1>a DEF Object
    <3>2. mem' \in MemType /\ mem'.mode = mem.mode /\ mem'.at = mem.at /\ mem'.caller = mem.caller
      BY <2>3, <3>1 DEF MemType, ProbeType
    <3> QED BY <2>1, <2>3, <3>2, WithinTypes DEF Holding
  <2> QED BY <1>3, <2>2, <2>3, LookEnds
<1>4. CASE HoldDropBackup
  <2>1. fs' \in [Targets -> FileType] /\ UNCHANGED <<row, tx, env>>
    BY <1>4, <1>a DEF HoldDropBackup, FileType
  <2>2. \E p \in {"restored", "abandoned", "error"} : Held(p)
    BY <1>4 DEF HoldDropBackup
  <2> QED BY <2>1, <2>2, EndTypes
<1>5. CASE HoldTakeBack
  <2>1. CASE /\ fs' = [fs EXCEPT ![t].target = NoObject, ![t].temp = fs[t].target]
             /\ pc' = "taken" /\ UNCHANGED <<mem, row, tx, env>>
    <3>1. fs' \in [Targets -> FileType]
      BY <2>1 DEF FileType
    <3> QED BY <2>1, <3>1, WithinTypes DEF Holding
  <2>2. CASE Held("error") /\ UNCHANGED <<fs, row, tx, env>>
    BY <2>2, EndTypes
  <2> QED BY <1>5, <1>a, <2>1, <2>2 DEF HoldTakeBack
<1>6. CASE HoldCheckTaken
  <2>1. CASE mem' = [mem EXCEPT !.probe.extra = TRUE] /\ pc' = "give_back" /\ UNCHANGED <<fs, row, tx, env>>
    <3>1. mem' \in MemType /\ mem'.mode = mem.mode /\ mem'.at = mem.at /\ mem'.caller = mem.caller
      BY <2>1 DEF MemType, ProbeType
    <3> QED BY <2>1, <3>1, WithinTypes DEF Holding
  <2>2. CASE fs' = [fs EXCEPT ![t] = PutBackTemp(t, @)] /\ Held("error") /\ UNCHANGED <<row, tx, env>>
    <3>1. fs' \in [Targets -> FileType]
      BY <1>b, <2>2, OneFile
    <3> QED BY <2>2, <3>1, EndTypes
  <2> QED BY <1>6, <1>a, <2>1, <2>2 DEF HoldCheckTaken
<1>c. ASSUME NEW f \in FileType, GiveBackFailed(t, f), UNCHANGED <<row, tx, env>>
      PROVE  TypeInv'
  <2>1. (IF mem.probe.extra THEN PutBackTemp(t, f) ELSE f) \in FileType
    BY <1>b
  <2>2. fs' \in [Targets -> FileType] /\ Held("error")
    BY <1>c, <2>1, OneFile DEF GiveBackFailed
  <2> QED BY <1>c, <2>2, EndTypes
<1>7. CASE HoldGiveBack
  <2>1. CASE /\ fs' = [fs EXCEPT ![t].target = fs[t].backup, ![t].backup = NoObject]
             /\ pc' = "given" /\ UNCHANGED <<mem, row, tx, env>>
    <3>1. fs' \in [Targets -> FileType]
      BY <2>1 DEF FileType
    <3> QED BY <2>1, <3>1, WithinTypes DEF Holding
  <2>2. CASE GiveBackFailed(t, fs[t]) /\ UNCHANGED <<row, tx, env>>
    BY <1>c, <2>2
  <2> QED BY <1>7, <1>a, <2>1, <2>2 DEF HoldGiveBack
<1>8. CASE HoldCheckGiven
  <2> DEFINE moved == IF fs[t].target # NoObject
                      THEN [fs[t] EXCEPT !.backup = fs[t].target, !.target = NoObject] ELSE fs[t]
  <2>1. CASE Held("restored") /\ (DropTemp(t) \/ UNCHANGED fs) /\ UNCHANGED <<row, tx, env>>
    <3>1. fs' \in [Targets -> FileType]
      BY <2>1 DEF DropTemp, FileType
    <3> QED BY <2>1, <3>1, EndTypes
  <2>2. CASE GiveBackFailed(t, moved) /\ UNCHANGED <<row, tx, env>>
    <3>1. moved \in FileType
      BY DEF FileType
    <3> QED BY <1>c, <2>2, <3>1
  <2> QED BY <1>8, <1>a, <2>1, <2>2 DEF HoldCheckGiven
<1>9. CASE SwapRecovered
  BY <1>9, <1>a, EndTypes DEF SwapRecovered
<1> QED BY <1>2, <1>3, <1>4, <1>5, <1>6, <1>7, <1>8, <1>9 DEF Hold

(* A row that changes its state is a row. *)
LEMMA TransitionTypes ==
  ASSUME TypeInv, NEW t \in Targets, NEW s \in WalStates, Transition(t, s)
  PROVE  /\ row' \in [Targets -> Row]
         /\ row'[t] = [row[t] EXCEPT !.state = s]
         /\ \A u \in Targets \ {t} : row'[u] = row[u]
  BY DEF TypeInv, Shapes, Transition, Row

(* Leaving the compensation or the recovery, and moving on to another row, *)
(* keep the types.                                                         *)
LEMMA MoveTypes ==
  ASSUME TypeInv, tx.current # 20, tx.status # "committed", row' \in [Targets -> Row],
         mem' \in MemType, UNCHANGED <<fs, tx, env>>,
         \/ pc' \in {"stopped", "refused", "finish_rows"}
         \/ pc' = "undo" /\ mem'.mode = "undo"
         \/ pc' = "recover" /\ mem'.mode = "recover"
         \/ pc' = "mark_restored" /\ mem'.mode = "recover" /\ mem'.at \in Targets
         \/ pc' = "stage" /\ mem'.mode # "apply" /\ mem'.at \in Targets
         \/ pc' \in {"hold", "held"} /\ mem'.at \in Targets /\ mem'.caller = "undo" /\ mem'.mode = "undo"
         \/ pc' \in {"hold", "held"} /\ mem'.at \in Targets /\ mem'.caller = "probe" /\ mem'.mode = "recover"
  PROVE  TypeInv'
<1> USE DEF TypeInv
<1>1. Shapes'
  BY DEF Shapes, Labels
<1>2. Places'
  BY DEF Places, AtTarget, Replacing, Holding
<1>3. CommittedRests'
  BY DEF CommittedRests
<1> QED BY <1>1, <1>2, <1>3

(* The outcomes of the examination of one target by a compensation. *)
LEMMA UndoClassifyEnds ==
  ASSUME TypeInv, UndoClassify
  PROVE  \E m \in MemType :
           LET t == mem.at IN
           /\ m.mode = "undo" /\ m.at = mem.at /\ m.staged = mem.staged
           /\ \A u \in Targets \ {t} : m.inst[u] = mem.inst[u]
           /\ \/ /\ mem' = [m EXCEPT !.at = t - 1, !.caller = "none", !.phase = "none"] /\ pc' = "undo"
                 /\ \/ /\ mem.phase = "error" /\ UNCHANGED row
                       /\ m = [mem EXCEPT !.failed = TRUE]
                    \/ /\ mem.phase # "error" /\ fs[t].target.fp = "before"
                       /\ mem.inst[t] = "none" /\ UNCHANGED row
                       /\ m = [mem EXCEPT !.inst[t] = "none"]
                    \/ /\ mem.phase # "error" /\ fs[t].target.fp = "before"
                       /\ mem.inst[t] # "none" /\ MayRecordRestored(t, "orig")
                       /\ row' = [row EXCEPT ![t].restored = "orig"]
                       /\ m = [mem EXCEPT !.inst[t] = "none"]
                    \/ /\ mem.phase # "error" /\ fs[t].target.fp # "before"
                       /\ mem.phase = "abandoned" \/ mem.inst[t] = "none"
                       /\ UNCHANGED row
                       /\ m.inst[t] = "none" /\ m.conflicts = mem.conflicts \union {t}
                       /\ m.failed = mem.failed
                    \/ /\ mem.phase = "restored" /\ fs[t].target.fp # "before" /\ mem.inst[t] # "none"
                       /\ fs[t].target # [tok |-> mem.inst[t], fp |-> AppliedFp(t)]
                       /\ UNCHANGED row
                       /\ m = [mem EXCEPT !.failed = TRUE]
              \/ /\ mem' = [m EXCEPT !.caller = "none", !.phase = "none"] /\ pc' = "stage"
                 /\ mem.phase = "restored" /\ m = mem /\ UNCHANGED row
                 /\ mem.inst[t] # "none" /\ fs[t].target = [tok |-> mem.inst[t], fp |-> AppliedFp(t)]
              \/ /\ mem' = Fresh /\ pc' = "stopped" /\ m = mem /\ UNCHANGED row
                 /\ mem.inst[t] # "none" /\ ~MayRecordRestored(t, "orig")
<1> DEFINE t == mem.at
<1> USE DEF TypeInv, Goto, StopUndo
<1>0. t \in Targets /\ mem \in MemType /\ mem.mode = "undo" /\ "none" \in Tokens
  BY DEF UndoClassify, Places, AtTarget, Holding, Shapes, Tokens
<1>1. CASE mem.phase = "error"
  <2> DEFINE m == [mem EXCEPT !.failed = TRUE]
  <2>1. /\ m \in MemType /\ m.mode = "undo" /\ m.at = t /\ m.staged = mem.staged
        /\ m.inst = mem.inst
    BY <1>0 DEF MemType
  <2>2. mem' = [m EXCEPT !.at = t - 1, !.caller = "none", !.phase = "none"] /\ pc' = "undo" /\ UNCHANGED row
    BY <1>1 DEF UndoClassify
  <2> QED BY <1>1, <2>1, <2>2
<1>2. CASE mem.phase # "error" /\ fs[t].target.fp = "before" /\ (mem.inst[t] = "none" \/ MayRecordRestored(t, "orig"))
  <2> DEFINE m == [mem EXCEPT !.inst[t] = "none"]
  <2>1. /\ m \in MemType /\ m.mode = "undo" /\ m.at = t /\ m.staged = mem.staged
        /\ \A u \in Targets \ {t} : m.inst[u] = mem.inst[u]
    BY <1>0 DEF MemType
  <2>2. mem' = [m EXCEPT !.at = t - 1, !.caller = "none", !.phase = "none"] /\ pc' = "undo"
        /\ \/ mem.inst[t] = "none" /\ UNCHANGED row
           \/ mem.inst[t] # "none" /\ MayRecordRestored(t, "orig") /\ row' = [row EXCEPT ![t].restored = "orig"]
    BY <1>2 DEF UndoClassify
  <2> QED BY <1>2, <2>1, <2>2
<1>3. CASE mem.phase # "error" /\ fs[t].target.fp = "before" /\ mem.inst[t] # "none" /\ ~MayRecordRestored(t, "orig")
  <2>1. mem' = Fresh /\ pc' = "stopped" /\ UNCHANGED row
    BY <1>3 DEF UndoClassify
  <2> QED BY <1>0, <1>3, <2>1
<1>4. CASE mem.phase # "error" /\ fs[t].target.fp # "before" /\ (mem.phase = "abandoned" \/ mem.inst[t] = "none")
  <2> DEFINE s == [mem EXCEPT !.inst[t] = "none"]
             m == [s EXCEPT !.conflicts = @ \union {t}]
  <2>0. s \in MemType /\ s.mode = "undo" /\ s.at = t /\ s.staged = mem.staged
        /\ s.conflicts = mem.conflicts /\ s.failed = mem.failed /\ s.inst[t] = "none"
        /\ \A u \in Targets \ {t} : s.inst[u] = mem.inst[u]
    BY <1>0 DEF MemType
  <2>2. mem' = [m EXCEPT !.at = t - 1, !.caller = "none", !.phase = "none"] /\ pc' = "undo" /\ UNCHANGED row
    BY <1>4 DEF UndoClassify
  <2> HIDE DEF s
  <2>1. m \in MemType /\ m.mode = "undo" /\ m.at = t /\ m.staged = s.staged
        /\ m.conflicts = s.conflicts \union {t} /\ m.failed = s.failed /\ m.inst = s.inst
    BY <1>0, <2>0 DEF MemType
  <2> HIDE DEF m
  <2> QED BY <1>4, <2>0, <2>1, <2>2
<1>5. CASE mem.phase = "restored" /\ fs[t].target.fp # "before" /\ mem.inst[t] # "none"
           /\ fs[t].target = [tok |-> mem.inst[t], fp |-> AppliedFp(t)]
  <2>1. mem' = [mem EXCEPT !.caller = "none", !.phase = "none"] /\ pc' = "stage" /\ UNCHANGED row
    BY <1>5 DEF UndoClassify
  <2> QED BY <1>0, <1>5, <2>1
<1>6. CASE mem.phase = "restored" /\ fs[t].target.fp # "before" /\ mem.inst[t] # "none"
           /\ fs[t].target # [tok |-> mem.inst[t], fp |-> AppliedFp(t)]
  <2> DEFINE m == [mem EXCEPT !.failed = TRUE]
  <2>1. /\ m \in MemType /\ m.mode = "undo" /\ m.at = t /\ m.staged = mem.staged
        /\ m.inst = mem.inst
    BY <1>0 DEF MemType
  <2>2. mem' = [m EXCEPT !.at = t - 1, !.caller = "none", !.phase = "none"] /\ pc' = "undo" /\ UNCHANGED row
    BY <1>6 DEF UndoClassify
  <2> QED BY <1>6, <2>1, <2>2
<1>7. \/ mem.phase = "error"
      \/ mem.phase # "error" /\ fs[t].target.fp = "before"
      \/ mem.phase # "error" /\ fs[t].target.fp # "before" /\ (mem.phase = "abandoned" \/ mem.inst[t] = "none")
      \/ mem.phase = "restored" /\ fs[t].target.fp # "before" /\ mem.inst[t] # "none"
  BY DEF UndoClassify
<1> HIDE DEF t
<1> QED BY <1>1, <1>2, <1>3, <1>4, <1>5, <1>6, <1>7

(* The outcomes of the classification of one row by a recovery. *)
LEMMA ProbeClassifyEnds ==
  ASSUME TypeInv, ProbeClassify
  PROVE  LET t == mem.at
             matches == mem.phase = "restored" /\ ProbeMatches(t)
             skips == /\ mem' = [mem EXCEPT !.at = t - 1, !.caller = "none", !.phase = "none"]
                      /\ pc' = "recover"
             goes == mem' = [mem EXCEPT !.caller = "none", !.phase = "none"]
             before == fs[t].target.fp = "before"
         IN  \/ /\ skips /\ MayTransition(t, "conflict") /\ Transition(t, "conflict")
                /\ ~matches \/ (~before /\ Uninstalled(t))
             \/ skips /\ UNCHANGED row /\ matches /\ before /\ row[t].state = "restored"
             \/ /\ goes /\ pc' = "mark_restored" /\ UNCHANGED row /\ matches /\ before
                /\ row[t].state = "restore_prepared" \/ Uninstalled(t)
             \/ /\ goes /\ pc' = "mark_restored" /\ matches /\ before
                /\ row[t].state \in {"prepared", "applied"} /\ ~Uninstalled(t)
                /\ MayTransition(t, "restore_prepared") /\ Transition(t, "restore_prepared")
             \/ /\ goes /\ pc' = "stage" /\ matches /\ ~before /\ ~Uninstalled(t)
                /\ MayTransition(t, "restore_prepared") /\ Transition(t, "restore_prepared")
             \/ /\ mem' = Fresh /\ pc' = "refused" /\ UNCHANGED row
                /\ \/ ~MayTransition(t, "conflict") /\ (~matches \/ (~before /\ Uninstalled(t)))
                   \/ ~MayTransition(t, "restore_prepared") /\ matches /\ ~Uninstalled(t)
<1> DEFINE t == mem.at
           matches == mem.phase = "restored" /\ ProbeMatches(t)
           before == fs[t].target.fp = "before"
<1> USE DEF Goto, Refuse
<1>1. CASE ~matches
  BY <1>1 DEF ProbeClassify
<1>2. CASE matches /\ before /\ row[t].state = "restored"
  BY <1>2 DEF ProbeClassify, Uninstalled
<1>3. CASE matches /\ before /\ row[t].state # "restored" /\ (row[t].state = "restore_prepared" \/ Uninstalled(t))
  BY <1>3 DEF ProbeClassify
<1>4. CASE matches /\ before /\ row[t].state \in {"prepared", "applied"} /\ ~Uninstalled(t)
  BY <1>4 DEF ProbeClassify
<1>5. CASE matches /\ ~before /\ Uninstalled(t)
  BY <1>5 DEF ProbeClassify
<1>6. CASE matches /\ ~before /\ ~Uninstalled(t)
  BY <1>6 DEF ProbeClassify
<1>7. \/ ~matches \/ (matches /\ ~before) \/ (matches /\ before /\ row[t].state = "restored")
      \/ matches /\ before /\ row[t].state # "restored" /\ (row[t].state = "restore_prepared" \/ Uninstalled(t))
      \/ matches /\ before /\ row[t].state \in {"prepared", "applied"} /\ ~Uninstalled(t)
  BY DEF ProbeClassify
<1> QED BY <1>1, <1>2, <1>3, <1>4, <1>5, <1>6, <1>7

(* The end of a recovery is the outcome the rows show. *)
LEMMA RecoveryFinishedTypes ==
  ASSUME TypeInv, RecoveryFinished
  PROVE  /\ tx' \in TxType /\ tx'.current = 19 /\ tx'.status \in {"conflict", "restored"}
         /\ tx'.status = "restored" => \A t \in Targets : row[t].state # "conflict"
<1>1. PICK s \in {"conflict", "restored"} :
        /\ tx' = [tx EXCEPT !.current = 19, !.entered = 19, !.status = s]
        /\ s = "restored" => \A t \in Targets : row[t].state # "conflict"
  BY DEF RecoveryFinished
<1>2. 19 \in 4 .. 20 /\ s \in Statuses /\ tx \in TxType
  BY DEF Statuses, TypeInv, Shapes
<1> QED BY <1>1, <1>2 DEF TxType

(* The steps of a compensation keep the types. *)
LEMMA CompensateTypes ==
  ASSUME TypeInv, Compensate
  PROVE  TypeInv'
<1> USE DEF TypeInv, Goto
<1>0. pc \notin CommittedPlaces => tx.status # "committed" /\ tx.current # 20
  BY DEF CommittedRests, Places, CommittedPlaces
<1>a. /\ fs \in [Targets -> FileType] /\ row \in [Targets -> Row] /\ mem \in MemType /\ tx \in TxType
  BY DEF Shapes
<1>1. CASE EnterCompensation
  <2>1. Shapes'
    BY <1>1 DEF EnterCompensation, Shapes, Labels, TxType
  <2>2. Places'
    BY <1>1, <1>0 DEF EnterCompensation, Places, AtTarget, Replacing, Holding, TxType, CommittedPlaces, Shapes
  <2>3. CommittedRests'
    BY <1>1, <1>0, <1>a DEF EnterCompensation, CommittedRests, CommittedPlaces, TxType
  <2> QED BY <2>1, <2>2, <2>3
<1>2. CASE BeginUndo
  <2>1. Shapes'
    BY <1>2 DEF BeginUndo, Shapes, Labels, TxType, Statuses
  <2>2. Places'
    BY <1>2, <1>0 DEF BeginUndo, Places, AtTarget, Replacing, Holding, TxType, CommittedPlaces, Shapes
  <2>3. CommittedRests'
    BY <1>2, <1>a DEF BeginUndo, CommittedRests, TxType
  <2> QED BY <2>1, <2>2, <2>3
<1>3. CASE PrepareUndo
  <2>1. Min(ToPrepare) \in Targets
    BY <1>3, FirstTarget DEF PrepareUndo, ToPrepare
  <2>2. row' \in [Targets -> Row]
    BY <1>3, <2>1, TransitionTypes DEF PrepareUndo, WalStates
  <2>3. Shapes'
    BY <1>3, <2>2 DEF PrepareUndo, Shapes
  <2>4. Places' /\ CommittedRests'
    BY <1>3 DEF PrepareUndo, Places, CommittedRests
  <2> QED BY <2>3, <2>4
<1>4. CASE UndoPrepared
  <2>1. mem' \in MemType /\ mem'.mode = "undo"
    <3>1. N \in 0 .. N
      BY PlanAssumption
    <3> QED BY <1>4, <1>a, <3>1 DEF UndoPrepared, MemType
  <2> QED BY <1>0, <1>4, <1>a, <2>1, MoveTypes DEF UndoPrepared, CommittedPlaces
<1>5. CASE UndoTarget
  <2>1. mem.at \in Targets /\ mem.mode = "undo"
    BY <1>5, <1>a, PlanAssumption DEF UndoTarget, Places, MemType, Targets
  <2>2. mem.inst[mem.at] \in Tokens /\ AppliedFp(mem.at) \in Fingerprints /\ "before" \in Fingerprints
        /\ "none" \in Tokens
    BY <2>1, SwapValues DEF Fingerprints, Tokens
  <2>3. mem' \in MemType /\ pc' = "hold" /\ mem'.mode = mem.mode /\ mem'.at = mem.at /\ mem'.caller = "undo"
    BY <1>5, <2>2, CallRecoverTypes DEF UndoTarget
  <2> QED BY <1>0, <1>5, <1>a, <2>1, <2>3, MoveTypes DEF UndoTarget, CommittedPlaces
<1>6. CASE UndoClassify
  <2>0. mem.at \in Targets /\ mem.at - 1 \in 0 .. N /\ UNCHANGED <<fs, tx, env>> /\ pc = "held" /\ "orig" \in Tokens
    BY <1>6, PlanAssumption DEF UndoClassify, Places, AtTarget, Holding, Targets, Tokens, OwnTokens
  <2>1. PICK m \in MemType :
           /\ m.mode = "undo" /\ m.at = mem.at
           /\ \/ mem' = [m EXCEPT !.at = mem.at - 1, !.caller = "none", !.phase = "none"] /\ pc' = "undo"
              \/ mem' = [m EXCEPT !.caller = "none", !.phase = "none"] /\ pc' = "stage"
              \/ mem' = Fresh /\ pc' = "stopped"
           /\ row' = row \/ row' = [row EXCEPT ![mem.at].restored = "orig"]
    BY <1>6, UndoClassifyEnds
  <2>2. row' \in [Targets -> Row]
    BY <1>a, <2>0, <2>1 DEF Row
  <2>3. /\ mem' \in MemType
        /\ \/ pc' = "undo" /\ mem'.mode = "undo"
           \/ pc' = "stage" /\ mem'.mode = "undo" /\ mem'.at = mem.at
           \/ pc' = "stopped"
    BY <2>0, <2>1, FreshTypes DEF MemType
  <2> QED BY <1>0, <2>0, <2>2, <2>3, MoveTypes DEF CommittedPlaces
<1>7. CASE UndoFinished
  <2>1. /\ mem' \in MemType /\ pc' \in {"stopped", "finish_rows"} /\ pc = "undo"
        /\ UNCHANGED <<fs, row, tx, env>>
    BY <1>7, <1>a, FreshTypes DEF UndoFinished, StopUndo
  <2> QED BY <1>0, <1>a, <2>1, MoveTypes DEF CommittedPlaces
<1>8. CASE FinishRow
  <2> DEFINE t == Min(Unfinished)
             next == IF t \in mem.conflicts THEN "conflict" ELSE "restored"
  <2>1. t \in Targets /\ next \in WalStates
    BY <1>8, FirstTarget DEF FinishRow, Unfinished, WalStates
  <2>2. /\ pc = "finish_rows" /\ UNCHANGED <<fs, tx, env>>
        /\ \/ Transition(t, next) /\ UNCHANGED <<pc, mem>>
           \/ pc' = "stopped" /\ mem' = Fresh /\ UNCHANGED row
    BY <1>8 DEF FinishRow, StopUndo
  <2> HIDE DEF t, next
  <2>3. /\ row' \in [Targets -> Row] /\ mem' \in MemType /\ pc' \in {"stopped", "finish_rows"}
    BY <1>a, <2>1, <2>2, TransitionTypes, FreshTypes
  <2> QED BY <1>0, <2>2, <2>3, MoveTypes DEF CommittedPlaces
<1>9. CASE FinishCompensated
  <2>1. tx' \in TxType /\ tx'.current = 19 /\ tx'.status \in {"conflict", "restored"}
    BY <1>9, RecoveryFinishedTypes DEF FinishCompensated
  <2>2. pc' = "cleanup" /\ UNCHANGED <<fs, row, mem, env>>
    BY <1>9 DEF FinishCompensated
  <2>3. Shapes'
    BY <2>1, <2>2 DEF Shapes, Labels
  <2>4. Places' /\ CommittedRests'
    BY <2>1, <2>2 DEF Places, AtTarget, Replacing, Holding, CommittedRests
  <2> QED BY <2>3, <2>4
<1> QED BY <1>1, <1>2, <1>3, <1>4, <1>5, <1>6, <1>7, <1>8, <1>9 DEF Compensate

(* The steps of a recovery keep the types. *)
LEMMA RecoverTypes ==
  ASSUME TypeInv, Recover
  PROVE  TypeInv'
<1> USE DEF TypeInv, Goto
<1>0. pc \notin CommittedPlaces => tx.status # "committed" /\ tx.current # 20
  BY DEF CommittedRests, Places, CommittedPlaces
<1>a. /\ fs \in [Targets -> FileType] /\ row \in [Targets -> Row] /\ mem \in MemType /\ tx \in TxType
  BY DEF Shapes
<1>1. CASE Restart
  <2>1. mem' \in MemType /\ mem'.mode = "recover"
    <3>1. N \in 0 .. N
      BY PlanAssumption
    <3> QED BY <1>1, <3>1, FreshTypes DEF Restart, MemType
  <2>2. /\ tx.current # 20 /\ UNCHANGED <<fs, row, env>>
        /\ \/ tx' = [tx EXCEPT !.status = "restoring"] /\ pc' = "recover"
           \/ tx' = tx /\ pc' \in {"cleanup", "sandbox"}
    BY <1>1 DEF Restart
  <2>3. /\ tx' \in TxType /\ tx'.current # 20
        /\ tx'.status = "committed" => pc' \in {"cleanup", "sandbox"}
    BY <1>a, <2>2 DEF TxType, Statuses
  <2>4. Shapes'
    BY <2>1, <2>2, <2>3 DEF Shapes, Labels
  <2>5. Places'
    BY <2>1, <2>2, <2>3 DEF Places, AtTarget, Replacing, Holding
  <2>6. CommittedRests'
    BY <2>3 DEF CommittedRests, CommittedPlaces
  <2> QED BY <2>4, <2>5, <2>6
<1>2. CASE ProbeRow
  <2> DEFINE t == mem.at
             r == row[t]
  <2>0. t \in Targets /\ t - 1 \in 0 .. N /\ mem.mode = "recover" /\ UNCHANGED <<fs, row, tx, env>>
        /\ pc = "recover"
    BY <1>2, <1>a, PlanAssumption DEF ProbeRow, Places, MemType, Targets
  <2>1. /\ AppliedFp(t) \in Fingerprints /\ "before" \in Fingerprints
        /\ r.applied \in Tokens /\ r.restored \in Tokens /\ "orig" \in Tokens
    BY <2>0, SwapValues DEF Fingerprints, Tokens, OwnTokens
  <2> HIDE DEF t
  <2>a. t = mem.at
    BY DEF t
  <2>2. CASE mem' = [mem EXCEPT !.at = t - 1] /\ UNCHANGED pc
    <3>1. mem' \in MemType /\ mem'.mode = "recover" /\ pc' = "recover"
      BY <1>a, <2>0, <2>2 DEF MemType
    <3> QED BY <1>0, <1>a, <2>0, <3>1, MoveTypes DEF CommittedPlaces
  <2>3. CASE mem' = [mem EXCEPT !.phase = "restored", !.caller = "probe"] /\ pc' = "held"
    <3>1. mem' \in MemType /\ mem'.mode = "recover" /\ mem'.caller = "probe" /\ mem'.at = t
      BY <1>a, <2>0, <2>3, <2>a DEF MemType
    <3> QED BY <1>0, <1>a, <2>0, <2>3, <3>1, MoveTypes DEF CommittedPlaces
  <2>4. CASE \E b, a \in Fingerprints : \E k, v \in Tokens : CallRecover(b, a, k, v, "probe")
    <3>1. mem' \in MemType /\ pc' = "hold" /\ mem'.mode = "recover" /\ mem'.caller = "probe" /\ mem'.at = t
      BY <2>0, <2>4, <2>a, CallRecoverTypes
    <3> QED BY <1>0, <1>a, <2>0, <3>1, MoveTypes DEF CommittedPlaces
  <2>5. \/ mem' = [mem EXCEPT !.at = t - 1] /\ UNCHANGED pc
        \/ mem' = [mem EXCEPT !.phase = "restored", !.caller = "probe"] /\ pc' = "held"
        \/ CallRecover(AppliedFp(t), "before", r.applied, r.restored, "probe")
        \/ CallRecover("before", AppliedFp(t), "orig",
                       IF r.state = "applied" /\ t \in Unchanged THEN "orig" ELSE r.applied, "probe")
    BY <1>2, <2>a DEF ProbeRow
  <2> QED BY <2>1, <2>2, <2>3, <2>4, <2>5
<1>3. CASE ProbeClassify
  <2> DEFINE t == mem.at
  <2>0. t \in Targets /\ t - 1 \in 0 .. N /\ UNCHANGED <<fs, tx, env>> /\ pc = "held" /\ mem.mode = "recover"
    BY <1>3, PlanAssumption DEF ProbeClassify, Places, AtTarget, Holding, Targets
  <2>1. /\ \/ mem' = [mem EXCEPT !.at = t - 1, !.caller = "none", !.phase = "none"] /\ pc' = "recover"
           \/ mem' = [mem EXCEPT !.caller = "none", !.phase = "none"] /\ pc' \in {"mark_restored", "stage"}
           \/ mem' = Fresh /\ pc' = "refused"
        /\ UNCHANGED row \/ Transition(t, "conflict") \/ Transition(t, "restore_prepared")
    BY <1>3, ProbeClassifyEnds
  <2>2. row' \in [Targets -> Row]
    BY <1>a, <2>0, <2>1, TransitionTypes DEF WalStates
  <2>3. /\ mem' \in MemType
        /\ \/ pc' = "recover" /\ mem'.mode = "recover"
           \/ pc' \in {"stage", "mark_restored"} /\ mem'.mode = "recover" /\ mem'.at = mem.at
           \/ pc' = "refused"
    BY <1>a, <2>0, <2>1, FreshTypes DEF MemType
  <2> QED BY <1>0, <2>0, <2>2, <2>3, MoveTypes DEF CommittedPlaces
<1>4. CASE MarkRestored
  <2> DEFINE t == mem.at
  <2>0. t \in Targets /\ t - 1 \in 0 .. N /\ UNCHANGED <<fs, tx, env>> /\ pc = "mark_restored" /\ mem.mode = "recover"
    BY <1>4, PlanAssumption DEF MarkRestored, Places, AtTarget, Targets
  <2>1. \/ mem' = [mem EXCEPT !.at = t - 1] /\ pc' = "recover" /\ Transition(t, "restored")
        \/ mem' = Fresh /\ pc' = "refused" /\ UNCHANGED row
    BY <1>4 DEF MarkRestored, Refuse
  <2>2. row' \in [Targets -> Row]
    BY <1>a, <2>0, <2>1, TransitionTypes DEF WalStates
  <2>3. mem' \in MemType /\ (pc' = "refused" \/ (pc' = "recover" /\ mem'.mode = "recover"))
    <3>1. CASE mem' = [mem EXCEPT !.at = t - 1] /\ pc' = "recover"
      BY <1>a, <2>0, <3>1 DEF MemType
    <3> QED BY <2>1, <3>1, FreshTypes
  <2> QED BY <1>0, <2>0, <2>2, <2>3, MoveTypes DEF CommittedPlaces
<1>5. CASE FinishRecovery
  <2>1. tx' \in TxType /\ tx'.current = 19 /\ tx'.status \in {"conflict", "restored"}
    BY <1>5, RecoveryFinishedTypes DEF FinishRecovery
  <2>2. pc' = "sandbox" /\ UNCHANGED <<fs, row, mem, env>>
    BY <1>5 DEF FinishRecovery
  <2>3. Shapes'
    BY <2>1, <2>2 DEF Shapes, Labels
  <2>4. Places' /\ CommittedRests'
    BY <2>1, <2>2 DEF Places, AtTarget, Replacing, Holding, CommittedRests
  <2> QED BY <2>3, <2>4
<1>6. CASE CleanSandbox
  <2>1. /\ pc = "sandbox" /\ pc' \in {"cleanup", "refused"} /\ UNCHANGED <<fs, row, env>>
        /\ tx' = tx \/ tx' = [tx EXCEPT !.cleanup = "conflict"]
        /\ mem' = mem \/ mem' = Fresh
    BY <1>6 DEF CleanSandbox, Refuse
  <2>2. tx' \in TxType /\ tx'.current = tx.current /\ tx.current # 20
    BY <1>a, <2>1 DEF TxType, Places
  <2>3. Shapes'
    BY <2>1, <2>2, FreshTypes DEF Shapes, Labels
  <2>4. Places' /\ CommittedRests'
    BY <2>1, <2>2 DEF Places, AtTarget, Replacing, Holding, CommittedRests, CommittedPlaces
  <2> QED BY <2>3, <2>4
<1> QED BY <1>1, <1>2, <1>3, <1>4, <1>5, <1>6 DEF Recover

(* A file that another program makes is none of the daemon's.              *)
LEMMA AlienIsNew ==
  ASSUME TypeInv, env.foreigns < MaxForeign
  PROVE  Alien \in AlienTokens /\ Alien \notin OwnTokens \union {"none"}
<1>1. env.foreigns + 1 \in 1 .. MaxForeign
  BY BoundAssumption DEF TypeInv, Shapes, EnvType
<1>2. Alien \in AlienTokens
  BY <1>1 DEF Alien, AlienTokens
<1> QED BY <1>2, MadeAssumption

(* So do other programs and the deaths of the daemon. *)
LEMMA OutsideTypes ==
  ASSUME TypeInv, Foreign \/ Crash
  PROVE  TypeInv'
<1> USE DEF TypeInv, Goto
<1>1. CASE Foreign
  <2>1. PICK t \in Targets : ForeignChange(t)
    BY <1>1 DEF Foreign
  <2>2. PICK new : new \in (Written(t) \union {NoObject}) /\ fs' = [fs EXCEPT ![t].target = new]
    BY <2>1 DEF ForeignChange
  <2>3. new \in Object
    <3>1. Alien \in Tokens /\ NoObject \in Object
      BY <2>1, AlienIsNew DEF ForeignChange, Tokens, NoObject, Object, Fingerprints
    <3>2. fs[t].target.tok \in Tokens
      BY DEF Shapes, FileType, Object
    <3>3. Written(t) \subseteq Object
      BY <3>1, <3>2 DEF Written, Object, Fingerprints, AppliedFp
    <3> QED BY <2>2, <3>1, <3>3
  <2>4. fs' \in [Targets -> FileType]
    BY <2>2, <2>3 DEF Shapes, FileType
  <2>5. /\ env' = [env EXCEPT !.foreigns = @ + 1, !.touched = @ \union {t}]
        /\ UNCHANGED <<row, tx, pc, mem>>
    BY <2>1 DEF ForeignChange
  <2>6. env' \in EnvType
    <3>1. PICK n \in Nat, S \in SUBSET Targets : env' = [env EXCEPT !.foreigns = n, !.touched = S]
      <4> DEFINE n == env.foreigns + 1
                 S == env.touched \union {t}
      <4>1. n \in Nat /\ S \in SUBSET Targets
        BY DEF Shapes, EnvType
      <4>2. env' = [env EXCEPT !.foreigns = n, !.touched = S]
        BY <2>5
      <4> QED BY <4>1, <4>2
    <3> QED BY <3>1 DEF Shapes, EnvType
  <2> QED BY <2>4, <2>5, <2>6 DEF Shapes, Places, CommittedRests
<1>2. CASE Crash
  <2>1. /\ env' = [env EXCEPT !.crashes = @ + 1, !.cut = @ \union Cut]
        /\ mem' = Fresh /\ pc' = "down" /\ UNCHANGED <<fs, row, tx>> /\ pc # "done"
    BY <1>2 DEF Crash
  <2>2. env' \in EnvType
    <3>1. PICK c \in SUBSET Targets, n \in Nat : env' = [env EXCEPT !.crashes = n, !.cut = c]
      <4> DEFINE c == env.cut \union Cut
                 n == env.crashes + 1
      <4>0. Cut \subseteq Targets
        BY DEF Cut, InSwap, Places, AtTarget, Replacing
      <4>1. c \in SUBSET Targets /\ n \in Nat
        BY <4>0 DEF Shapes, EnvType
      <4>2. env' = [env EXCEPT !.crashes = n, !.cut = c]
        BY <2>1
      <4> QED BY <4>1, <4>2
    <3> QED BY <3>1 DEF Shapes, EnvType
  <2>3. Shapes'
    BY <2>1, <2>2, FreshTypes DEF Shapes, Labels
  <2>4. Places' /\ CommittedRests'
    BY <2>1 DEF Places, AtTarget, Replacing, Holding, CommittedRests, CommittedPlaces
  <2> QED BY <2>3, <2>4
<1> QED BY <1>1, <1>2

(* The types, and where the daemon can be, are inductive. *)
LEMMA TypeStep ==
  ASSUME TypeInv, [Next]_vars
  PROVE  TypeInv'
<1>1. CASE UNCHANGED vars
  BY <1>1 DEF vars, TypeInv, Shapes, Places, CommittedRests
<1>2. CASE Next /\ ~UNCHANGED vars
  BY <1>2, ForwardTypes, SwapTypes, HoldTypes, CompensateTypes, RecoverTypes, OutsideTypes
     DEF Next, Daemon, Done
<1> QED BY <1>1, <1>2

(* The daemon starts with the files as it found them and no rows.          *)
LEMMA TypeInit == Init => TypeInv
<1> SUFFICES ASSUME Init PROVE TypeInv
  OBVIOUS
<1> USE DEF Init
<1>1. fs \in [Targets -> FileType] /\ row \in [Targets -> Row]
  BY DEF FileType, Original, NoObject, Object, Tokens, OwnTokens, Fingerprints, Row, NoRow
<1>2. tx \in TxType /\ env \in EnvType
  BY DEF TxType, Statuses, EnvType
<1>3. Shapes
  BY <1>1, <1>2, FreshTypes DEF Shapes, Labels
<1>4. Places /\ CommittedRests
  BY FreshTypes DEF Places, AtTarget, Replacing, Holding, CommittedRests
<1> QED BY <1>3, <1>4 DEF TypeInv

(* Every row, file and record of the journal stays in its type: in         *)
(* particular the durable status, the step the journal entered and the     *)
(* cleanup mark never leave the sets the vault accepts.                    *)
THEOREM NativeTypes == Spec => []TypeOK
<1>1. TypeInv => TypeOK
  BY DEF TypeInv, Shapes, TypeOK, FileType, TxType, MemType, EnvType
<1> QED BY <1>1, TypeInit, TypeStep, PTL DEF Spec

(* Once the journal says committed it never says anything else, and the    *)
(* daemon, a restart of it included, moves no file any more: only its      *)
(* cleanup is ahead (Vault::commit_native_success).                        *)
THEOREM CommitAlwaysFinal == Spec => CommitIsFinal
<1>1. ASSUME TypeInv, [Next]_vars, tx.status = "committed"
      PROVE  tx'.status = "committed" /\ (fs' = fs \/ env'.foreigns > env.foreigns)
  <2>0. pc \in CommittedPlaces /\ env.foreigns \in Nat /\ tx \in TxType /\ env \in EnvType
    BY <1>1 DEF TypeInv, CommittedRests, Shapes, EnvType
  <2>1. CASE Foreign
    BY <1>1, <2>0, <2>1 DEF Foreign, ForeignChange, EnvType
  <2>2. CASE Forward
    BY <1>1, <2>0, <2>2 DEF Forward, EnterStep, SandboxStep, Preflight, PrepareMutation, TargetsWritten,
       StepFails, MarkApplied, Commit, EnterCommittedCleanup, FinishCleanup, CommittedPlaces, TxType
  <2>3. ~Swap
    BY <2>0 DEF Swap, Stage, PersistCandidate, CandidateRefused, MoveAside, CheckBackup, Install,
         CheckInstalled, DropBackup, FinalCheck, CommittedPlaces
  <2>4. ~Hold
    BY <2>0 DEF Hold, HoldCleanTemp, HoldLook, HoldDropBackup, HoldTakeBack, HoldCheckTaken, HoldGiveBack,
         HoldCheckGiven, SwapRecovered, CommittedPlaces
  <2>5. ~Compensate
    BY <2>0 DEF Compensate, EnterCompensation, BeginUndo, PrepareUndo, UndoPrepared, UndoTarget, UndoClassify,
         UndoFinished, FinishRow, FinishCompensated, CommittedPlaces
  <2>6. CASE Recover
    BY <1>1, <2>0, <2>6 DEF Recover, Restart, ProbeRow, ProbeClassify, MarkRestored, FinishRecovery,
         CleanSandbox, CommittedPlaces, TxType
  <2>7. CASE Crash \/ Done \/ UNCHANGED vars
    BY <1>1, <2>7 DEF Crash, Done, vars
  <2> QED BY <1>1, <2>1, <2>2, <2>3, <2>4, <2>5, <2>6, <2>7 DEF Next, Daemon
<1> QED BY <1>1, TypeInit, TypeStep, PTL DEF Spec, CommitIsFinal

-----------------------------------------------------------------------------
(* What is staged is named by its row before it is moved. *)

(* Where a token under the target or the backup name can come from. *)
Sources(t) ==
  {"none"} \union AlienTokens \union {fs[t].target.tok, fs[t].backup.tok}
    \union (IF TempMoves /\ mem.at = t THEN {fs[t].temp.tok} ELSE {})

(* Every token under a target or a backup name has such a source.          *)
FilesCome == \A t \in Targets : fs'[t].target.tok \in Sources(t) /\ fs'[t].backup.tok \in Sources(t)

(* The file of one target changes. *)
LEMMA OneFileComes ==
  ASSUME TypeInv, NEW t \in Targets, NEW f, fs' = [fs EXCEPT ![t] = f],
         f.target.tok \in Sources(t), f.backup.tok \in Sources(t)
  PROVE  FilesCome
<1>1. fs'[t] = f /\ \A u \in Targets : u # t => fs'[u] = fs[u]
  BY DEF TypeInv, Shapes
<1>2. \A u \in Targets : fs[u].target.tok \in Sources(u) /\ fs[u].backup.tok \in Sources(u)
  BY DEF Sources
<1> QED BY <1>1, <1>2 DEF FilesCome

(* A step that leaves the files alone.                                     *)
LEMMA SameFilesCome ==
  ASSUME UNCHANGED fs
  PROVE  FilesCome
  BY DEF FilesCome, Sources

(* replace_regular_file: each move takes the file from one of its other    *)
(* names.                                                                  *)
LEMMA SwapFilesCome ==
  ASSUME TypeInv, Swap
  PROVE  FilesCome
<1> DEFINE t == mem.at
<1> USE DEF Goto
<1>0. t \in Targets /\ fs[t] \in FileType
  BY DEF Swap, Stage, PersistCandidate, CandidateRefused, MoveAside, CheckBackup, Install,
         CheckInstalled, DropBackup, FinalCheck, Places, AtTarget, Replacing, TypeInv, Shapes
<1>1. /\ "none" \in Sources(t) /\ fs[t].target.tok \in Sources(t) /\ fs[t].backup.tok \in Sources(t)
      /\ TempMoves => fs[t].temp.tok \in Sources(t)
      /\ NoObject.tok = "none"
  BY DEF Sources, NoObject
<1> HIDE DEF t
<1>a. t = mem.at
  BY DEF t
<1>2. ASSUME NEW o, fs' = [fs EXCEPT ![t].temp = o] PROVE FilesCome
  <2> DEFINE f == [fs[t] EXCEPT !.temp = o]
  <2>1. fs' = [fs EXCEPT ![t] = f] /\ f.target = fs[t].target /\ f.backup = fs[t].backup
    BY <1>0, <1>2 DEF FileType
  <2> HIDE DEF f
  <2> QED BY <1>0, <1>1, <2>1, OneFileComes
<1>3. CASE Stage \/ PersistCandidate \/ CandidateRefused
  BY <1>2, <1>3, <1>a, SameFilesCome DEF Stage, PersistCandidate, CandidateRefused, DropTemp
<1>4. CASE MoveAside
  <2>1. CASE fs' = [fs EXCEPT ![t].target = NoObject, ![t].backup = fs[t].target]
    <3> DEFINE f == [fs[t] EXCEPT !.target = NoObject, !.backup = fs[t].target]
    <3>1. fs' = [fs EXCEPT ![t] = f] /\ f.target = NoObject /\ f.backup = fs[t].target
      BY <1>0, <2>1 DEF FileType, TypeInv, Shapes
    <3> HIDE DEF f
    <3> QED BY <1>0, <1>1, <3>1, OneFileComes
  <2> QED BY <1>2, <1>4, <1>a, <2>1 DEF MoveAside, DropTemp
<1>5. CASE CheckBackup
  <2>1. CASE fs[t].backup # Expected(t)
    <3> DEFINE free == fs[t].target = NoObject
               f == [target |-> IF free THEN fs[t].backup ELSE fs[t].target,
                     backup |-> IF free THEN NoObject ELSE fs[t].backup,
                     temp |-> NoObject]
    <3>1. fs' = [fs EXCEPT ![t] = f]
      BY <1>5, <1>a, <2>1 DEF CheckBackup
    <3>2. f.target.tok \in Sources(t) /\ f.backup.tok \in Sources(t)
      BY <1>1
    <3> HIDE DEF f
    <3> QED BY <1>0, <3>1, <3>2, OneFileComes
  <2> QED BY <1>5, <1>a, <2>1, SameFilesCome DEF CheckBackup
<1>6. CASE Install
  <2>1. CASE fs' = [fs EXCEPT ![t].target = fs[t].temp, ![t].temp = NoObject]
    <3> DEFINE f == [fs[t] EXCEPT !.target = fs[t].temp, !.temp = NoObject]
    <3>1. fs' = [fs EXCEPT ![t] = f] /\ f.target = fs[t].temp /\ f.backup = fs[t].backup
      BY <1>0, <2>1 DEF FileType, TypeInv, Shapes
    <3>2. TempMoves
      BY <1>6 DEF Install, TempMoves
    <3> HIDE DEF f
    <3> QED BY <1>0, <1>1, <3>1, <3>2, OneFileComes
  <2> QED BY <1>6, <1>a, <2>1, SameFilesCome DEF Install
<1>7. CASE CheckInstalled \/ FinalCheck
  BY <1>7, SameFilesCome DEF CheckInstalled, FinalCheck
<1>8. CASE DropBackup
  <2>1. CASE fs' = [fs EXCEPT ![t].backup = NoObject]
    <3> DEFINE f == [fs[t] EXCEPT !.backup = NoObject]
    <3>1. fs' = [fs EXCEPT ![t] = f] /\ f.target = fs[t].target /\ f.backup = NoObject
      BY <1>0, <2>1 DEF FileType
    <3> HIDE DEF f
    <3> QED BY <1>0, <1>1, <3>1, OneFileComes
  <2> QED BY <1>8, <1>a, <2>1, SameFilesCome DEF DropBackup
<1> QED BY <1>3, <1>4, <1>5, <1>6, <1>7, <1>8 DEF Swap

(* recover_interrupted_replace: each move takes the file from one of its   *)
(* other names.                                                            *)
LEMMA HoldFilesCome ==
  ASSUME TypeInv, Hold
  PROVE  FilesCome
<1> DEFINE t == mem.at
<1> USE DEF Goto
<1>0. t \in Targets /\ fs[t] \in FileType
  BY DEF Hold, HoldCleanTemp, HoldLook, HoldDropBackup, HoldTakeBack, HoldCheckTaken, HoldGiveBack,
         HoldCheckGiven, SwapRecovered, Places, AtTarget, Holding, TypeInv, Shapes
<1>1. /\ "none" \in Sources(t) /\ fs[t].target.tok \in Sources(t) /\ fs[t].backup.tok \in Sources(t)
      /\ TempMoves => fs[t].temp.tok \in Sources(t)
      /\ NoObject.tok = "none"
  BY DEF Sources, NoObject
<1> HIDE DEF t
<1>a. t = mem.at
  BY DEF t
<1>2. ASSUME NEW f \in FileType, fs' = [fs EXCEPT ![t] = f],
             f.target.tok \in Sources(t), f.backup.tok \in Sources(t)
      PROVE  FilesCome
  BY <1>0, <1>2, OneFileComes
<1>3. ASSUME NEW f \in FileType, f.target.tok \in Sources(t), f.backup.tok \in Sources(t),
             f.temp = fs[t].temp, TempMoves, fs' = [fs EXCEPT ![t] = PutBackTemp(t, f)]
      PROVE  FilesCome
  <2> DEFINE g == PutBackTemp(t, f)
  <2>1. g.target.tok \in Sources(t) /\ g.backup.tok \in Sources(t)
    BY <1>1, <1>3 DEF PutBackTemp, FileType
  <2> HIDE DEF g
  <2> QED BY <1>0, <1>3, <2>1, OneFileComes DEF g
<1>4. ASSUME NEW o, fs' = [fs EXCEPT ![t].temp = o] PROVE FilesCome
  <2> DEFINE f == [fs[t] EXCEPT !.temp = o]
  <2>1. fs' = [fs EXCEPT ![t] = f] /\ f.target = fs[t].target /\ f.backup = fs[t].backup
    BY <1>0, <1>4 DEF FileType
  <2> HIDE DEF f
  <2> QED BY <1>0, <1>1, <2>1, OneFileComes
<1>5. CASE HoldCleanTemp
  BY <1>4, <1>5, <1>a DEF HoldCleanTemp, DropTemp
<1>6. CASE HoldLook \/ SwapRecovered
  BY <1>6, SameFilesCome DEF HoldLook, SwapRecovered
<1>7. CASE HoldDropBackup
  <2>1. CASE fs' = [fs EXCEPT ![t].backup = NoObject]
    <3> DEFINE f == [fs[t] EXCEPT !.backup = NoObject]
    <3>1. fs' = [fs EXCEPT ![t] = f] /\ f.target = fs[t].target /\ f.backup = NoObject
      BY <1>0, <2>1 DEF FileType
    <3> HIDE DEF f
    <3> QED BY <1>0, <1>1, <3>1, OneFileComes
  <2> QED BY <1>7, <1>a, <2>1, SameFilesCome DEF HoldDropBackup
<1>8. CASE HoldTakeBack
  <2>1. CASE fs' = [fs EXCEPT ![t].target = NoObject, ![t].temp = fs[t].target]
    <3> DEFINE f == [fs[t] EXCEPT !.target = NoObject, !.temp = fs[t].target]
    <3>1. fs' = [fs EXCEPT ![t] = f] /\ f.target = NoObject /\ f.backup = fs[t].backup
      BY <1>0, <2>1 DEF FileType, TypeInv, Shapes
    <3> HIDE DEF f
    <3> QED BY <1>0, <1>1, <3>1, OneFileComes
  <2> QED BY <1>8, <1>a, <2>1, SameFilesCome DEF HoldTakeBack
<1>9. CASE HoldCheckTaken
  <2>1. TempMoves
    BY <1>9 DEF HoldCheckTaken, TempMoves
  <2> QED BY <1>0, <1>1, <1>3, <1>9, <1>a, <2>1, SameFilesCome DEF HoldCheckTaken
<1>10. ASSUME NEW f \in FileType, f.target.tok \in Sources(t), f.backup.tok \in Sources(t),
              f.temp = fs[t].temp, pc \in {"give_back", "given"}, GiveBackFailed(t, f)
       PROVE  FilesCome
  <2>1. CASE mem.probe.extra
    BY <1>3, <1>10, <2>1 DEF GiveBackFailed, TempMoves
  <2>2. CASE ~mem.probe.extra
    BY <1>2, <1>10, <2>2 DEF GiveBackFailed
  <2> QED BY <2>1, <2>2
<1>11. CASE HoldGiveBack
  <2>1. CASE fs' = [fs EXCEPT ![t].target = fs[t].backup, ![t].backup = NoObject]
    <3> DEFINE f == [fs[t] EXCEPT !.target = fs[t].backup, !.backup = NoObject]
    <3>1. fs' = [fs EXCEPT ![t] = f] /\ f.target = fs[t].backup /\ f.backup = NoObject
      BY <1>0, <2>1 DEF FileType, TypeInv, Shapes
    <3> HIDE DEF f
    <3> QED BY <1>0, <1>1, <3>1, OneFileComes
  <2> QED BY <1>0, <1>1, <1>10, <1>11, <1>a, <2>1 DEF HoldGiveBack
<1>12. CASE HoldCheckGiven
  <2> DEFINE moved == IF fs[t].target # NoObject
                      THEN [fs[t] EXCEPT !.backup = fs[t].target, !.target = NoObject] ELSE fs[t]
  <2>1. /\ moved \in FileType /\ moved.target.tok \in Sources(t) /\ moved.backup.tok \in Sources(t)
        /\ moved.temp = fs[t].temp
    <3>1. NoObject \in Object
      BY DEF NoObject, Object, Tokens, Fingerprints
    <3>2. CASE fs[t].target # NoObject
      <4> DEFINE f == [fs[t] EXCEPT !.backup = fs[t].target, !.target = NoObject]
      <4>1. f \in FileType /\ f.target = NoObject /\ f.backup = fs[t].target /\ f.temp = fs[t].temp
        BY <1>0, <3>1 DEF FileType
      <4>2. moved = f
        BY <3>2
      <4> HIDE DEF f, moved
      <4> QED BY <1>1, <4>1, <4>2
    <3>3. CASE fs[t].target = NoObject
      BY <1>0, <1>1, <3>3
    <3> QED BY <3>2, <3>3
  <2>2. pc = "given" /\ (GiveBackFailed(t, moved) \/ DropTemp(t) \/ UNCHANGED fs)
    BY <1>12, <1>a DEF HoldCheckGiven
  <2> HIDE DEF moved
  <2> QED BY <1>4, <1>10, <2>1, <2>2, SameFilesCome DEF DropTemp
<1> QED BY <1>5, <1>6, <1>7, <1>8, <1>9, <1>11, <1>12 DEF Hold

(* Whatever happens, a token comes under a name only from another name of  *)
(* the same target, or from another program.                               *)
LEMMA FilesAlwaysCome ==
  ASSUME TypeInv, [Next]_vars
  PROVE  FilesCome
<1>1. CASE Foreign
  <2>1. PICK t \in Targets : ForeignChange(t)
    BY <1>1 DEF Foreign
  <2>2. PICK new : new \in (Written(t) \union {NoObject}) /\ fs' = [fs EXCEPT ![t].target = new]
    BY <2>1 DEF ForeignChange
  <2>3. new.tok \in Sources(t)
    <3>1. \A w \in Written(t) : w.tok \in {Alien} \union ({fs[t].target.tok} \ {"none"})
      BY DEF Written
    <3>2. Alien \in Sources(t) /\ fs[t].target.tok \in Sources(t) /\ NoObject.tok \in Sources(t)
      BY <2>1, AlienIsNew DEF ForeignChange, WriteAheadInv, Sources, NoObject
    <3> QED BY <2>2, <3>1, <3>2
  <2> DEFINE f == [fs[t] EXCEPT !.target = new]
  <2>4. fs' = [fs EXCEPT ![t] = f] /\ f.target = new /\ f.backup = fs[t].backup
    BY <2>2 DEF TypeInv, Shapes, FileType
  <2>5. fs[t].backup.tok \in Sources(t)
    BY DEF Sources
  <2> HIDE DEF f
  <2> QED BY <2>3, <2>4, <2>5, OneFileComes
<1>2. CASE Forward \/ Compensate \/ Recover \/ Crash \/ Done \/ UNCHANGED vars
  <2>1. UNCHANGED fs
    BY <1>2 DEF Forward, EnterStep, SandboxStep, Preflight, PrepareMutation, TargetsWritten,
       StepFails, MarkApplied, Commit, EnterCommittedCleanup, FinishCleanup,
       Compensate, EnterCompensation, BeginUndo, PrepareUndo, UndoPrepared, UndoTarget, UndoClassify,
       UndoFinished, FinishRow, FinishCompensated,
       Recover, Restart, ProbeRow, ProbeClassify, MarkRestored, FinishRecovery, CleanSandbox,
       Crash, Done, vars
  <2> QED BY <2>1, SameFilesCome
<1> QED BY <1>1, <1>2, SwapFilesCome, HoldFilesCome DEF Next, Daemon

(* A row that names a staged object goes on to name it. *)
RowsGrow ==
  \A t \in Targets :
    /\ row'[t].applied = row[t].applied \/ row'[t].applied = "cand"
    /\ row'[t].restored = row[t].restored \/ row[t].restored = "none"
    /\ row'[t] = row[t] \/ row'[t].state # "none"

(* A transition of a row keeps the tokens it names.                        *)
LEMMA TransitionGrows ==
  ASSUME TypeInv, NEW t \in Targets, NEW s \in WalStates, Transition(t, s)
  PROVE  RowsGrow
<1>1. row[t] \in Row
  BY DEF TypeInv, Shapes
<1>2. row'[t].applied = row[t].applied /\ row'[t].restored = row[t].restored /\ row'[t].state = s
  <2>1. row'[t] = [row[t] EXCEPT !.state = s]
    BY TransitionTypes
  <2> QED BY <1>1, <2>1 DEF Row
<1>3. s # "none"
  BY DEF WalStates
<1> QED BY <1>2, <1>3, TransitionTypes DEF RowsGrow

(* While the transaction is open, no row forgets a token that the names    *)
(* still need.                                                             *)
LEMMA RowsAlwaysGrow ==
  ASSUME WriteAheadInv, tx.current < 20, tx'.current < 20, [Next]_vars
  PROVE  RowsGrow
<1> USE DEF WriteAheadInv
<1>0. TypeInv /\ row \in [Targets -> Row]
  BY DEF TypeInv, Shapes
<1>a. UNCHANGED row => RowsGrow
  BY DEF RowsGrow
<1>1. CASE PrepareMutation
  <2> DEFINE t == Min(Unwritten)
  <2>1. t \in Targets /\ Transition(t, "prepared")
    BY <1>1, FirstTarget DEF PrepareMutation, Unwritten, Transition
  <2> QED BY <1>0, <2>1, TransitionGrows DEF WalStates
<1>2. CASE MarkApplied
  <2>1. mem.at \in Targets /\ mem.inst[mem.at] = row[mem.at].applied
    BY <1>2 DEF MarkApplied, TypeInv, Places, AtTarget, StagedNamed
  <2> QED BY <1>0, <1>2, <2>1 DEF MarkApplied, RowsGrow, Row
<1>3. CASE Forward /\ ~PrepareMutation /\ ~MarkApplied
  <2>0. ASSUME FinishCleanup PROVE FALSE
    <3>1. PICK c : tx' = [tx EXCEPT !.current = 20, !.entered = 20, !.cleanup = c]
      BY <2>0 DEF FinishCleanup
    <3> QED BY <1>0, <3>1 DEF TypeInv, Shapes, TxType
  <2>1. UNCHANGED row
    BY <1>3, <2>0 DEF Forward, EnterStep, SandboxStep, Preflight, TargetsWritten,
       StepFails, Commit, EnterCommittedCleanup
  <2> QED BY <1>a, <2>1
<1>4. ASSUME NEW x, pc \in AtTarget, SwapFailed(mem.at, x)
      PROVE  RowsGrow
  <2>1. mem.at \in Targets /\ mem.mode \in {"apply", "undo", "recover"}
    BY <1>0, <1>4 DEF TypeInv, Places, Shapes, MemType
  <2>2. Transition(mem.at, "conflict") \/ UNCHANGED row
    BY <1>4, <2>1 DEF SwapFailed
  <2> QED BY <1>0, <1>a, <2>1, <2>2, TransitionGrows DEF WalStates
<1>5. CASE PersistCandidate
  <2>0. mem.at \in Targets /\ pc \in AtTarget
    BY <1>5 DEF PersistCandidate, TypeInv, Places, AtTarget, Replacing
  <2>1. CASE MayPersist(mem.at)
             /\ row' = IF mem.mode = "apply" THEN [row EXCEPT ![mem.at].applied = mem.staged]
                                             ELSE [row EXCEPT ![mem.at].restored = mem.staged]
    <3>1. CASE mem.mode = "apply"
      <4>1. mem.staged = "cand" /\ row' = [row EXCEPT ![mem.at].applied = mem.staged]
           /\ row[mem.at].state = "prepared"
        BY <1>5, <2>1, <3>1 DEF PersistCandidate, StagedNamed, MayPersist, MayRecordCandidate
      <4> QED BY <1>0, <2>0, <4>1 DEF RowsGrow, Row
    <3>2. CASE mem.mode # "apply"
      <4>1. row[mem.at].restored \in {"none", mem.staged} /\ row' = [row EXCEPT ![mem.at].restored = mem.staged]
           /\ row[mem.at].state = "restore_prepared"
        BY <1>5, <2>1, <3>2 DEF PersistCandidate, MayPersist, MayRecordRestored
      <4> QED BY <1>0, <2>0, <4>1 DEF RowsGrow, Row
    <3> QED BY <3>1, <3>2
  <2> QED BY <1>4, <1>5, <2>0, <2>1 DEF PersistCandidate
<1>6. CASE Swap /\ ~PersistCandidate
  <2>1. pc \in AtTarget
    BY <1>6 DEF Swap, Stage, CandidateRefused, MoveAside, CheckBackup, Install,
         CheckInstalled, DropBackup, FinalCheck, Places, AtTarget, Replacing
  <2>2. UNCHANGED row \/ \E x : SwapFailed(mem.at, x)
    BY <1>6 DEF Swap, Stage, CandidateRefused, MoveAside, CheckBackup, Install,
         CheckInstalled, DropBackup, FinalCheck
  <2> QED BY <1>4, <1>a, <2>1, <2>2
<1>7. CASE Hold
  <2>1. UNCHANGED row \/ (pc \in AtTarget /\ \E x : SwapFailed(mem.at, x))
    BY <1>7 DEF Hold, HoldCleanTemp, HoldLook, HoldDropBackup, HoldTakeBack, HoldCheckTaken, HoldGiveBack,
         HoldCheckGiven, SwapRecovered, AtTarget, Holding
  <2> QED BY <1>4, <1>a, <2>1
<1>8. CASE PrepareUndo
  <2>1. Min(ToPrepare) \in Targets
    BY <1>8, FirstTarget DEF PrepareUndo, ToPrepare
  <2> QED BY <1>0, <1>8, <2>1, TransitionGrows DEF PrepareUndo, WalStates
<1>9. CASE UndoClassify
  <2>1. mem.at \in Targets
    BY <1>9 DEF UndoClassify, TypeInv, Places, AtTarget, Holding
  <2>2. \/ UNCHANGED row
        \/ MayRecordRestored(mem.at, "orig") /\ row' = [row EXCEPT ![mem.at].restored = "orig"]
    BY <1>0, <1>9, UndoClassifyEnds
  <2>3. CASE MayRecordRestored(mem.at, "orig") /\ row' = [row EXCEPT ![mem.at].restored = "orig"]
    BY <1>0, <2>1, <2>3 DEF RowsGrow, Row, MayRecordRestored
  <2> QED BY <1>a, <2>2, <2>3
<1>10. CASE FinishRow
  <2>1. Min(Unfinished) \in Targets
    BY <1>10, FirstTarget DEF FinishRow, Unfinished
  <2>2. UNCHANGED row \/ Transition(Min(Unfinished), "conflict") \/ Transition(Min(Unfinished), "restored")
    BY <1>10 DEF FinishRow
  <2> QED BY <1>0, <1>a, <2>1, <2>2, TransitionGrows DEF WalStates
<1>11. CASE Compensate /\ ~PrepareUndo /\ ~UndoClassify /\ ~FinishRow
  <2>1. UNCHANGED row
    BY <1>11 DEF Compensate, EnterCompensation, BeginUndo, UndoPrepared, UndoTarget, UndoFinished, FinishCompensated
  <2> QED BY <1>a, <2>1
<1>12. CASE ProbeClassify
  <2>1. mem.at \in Targets
    BY <1>12 DEF ProbeClassify, TypeInv, Places, AtTarget, Holding
  <2>2. UNCHANGED row \/ Transition(mem.at, "conflict") \/ Transition(mem.at, "restore_prepared")
    BY <1>0, <1>12, ProbeClassifyEnds
  <2> QED BY <1>0, <1>a, <2>1, <2>2, TransitionGrows DEF WalStates
<1>13. CASE MarkRestored
  <2>1. mem.at \in Targets
    BY <1>13 DEF MarkRestored, TypeInv, Places, AtTarget
  <2>2. UNCHANGED row \/ Transition(mem.at, "restored")
    BY <1>13 DEF MarkRestored
  <2> QED BY <1>0, <1>a, <2>1, <2>2, TransitionGrows DEF WalStates
<1>14. CASE Recover /\ ~ProbeClassify /\ ~MarkRestored
  <2>1. UNCHANGED row
    BY <1>14 DEF Recover, Restart, ProbeRow, FinishRecovery, CleanSandbox
  <2> QED BY <1>a, <2>1
<1>15. CASE Foreign \/ Crash \/ Done \/ UNCHANGED vars
  <2>1. UNCHANGED row
    BY <1>15 DEF Foreign, ForeignChange, Crash, Done, vars
  <2> QED BY <1>a, <2>1
<1> QED BY <1>1, <1>2, <1>3, <1>5, <1>6, <1>7, <1>8, <1>9, <1>10, <1>11, <1>12, <1>13, <1>14, <1>15
        DEF Next, Daemon

(* A step that goes where nothing is staged and nothing moves. *)
LEMMA NothingStaged ==
  ASSUME pc' \notin (Replacing \ {"stage"}) \union {"hold", "look", "taken", "give_back", "given", "idle", "step", "mark"},
         pc' = "stage" => mem'.mode # "apply"
  PROVE  StagedNamed' /\ TempNamed'
  BY DEF StagedNamed, TempNamed, TempMoves, Replacing

(* The two previous facts keep the files named.                            *)
LEMMA FilesNamedStep ==
  ASSUME FilesNamed, TempNamed, FilesCome, RowsGrow
  PROVE  FilesNamed'
<1>1. \A t \in Targets : \A k \in Sources(t) : Named(t, k)
  BY MadeAssumption DEF Sources, FilesNamed, TempNamed, Named, OwnTokens
<1>2. \A t \in Targets : \A k \in Sources(t) : (k = "cand" => row'[t].applied = "cand")
                                            /\ (k \in {"rest", "rest2"} => row'[t].restored = k)
  BY <1>1 DEF Named, RowsGrow
<1> QED BY <1>2 DEF FilesNamed, FilesCome, Named

(* A row in no state names nothing.                                        *)
LEMMA RowsNamedStep ==
  ASSUME RowsNamed, RowsGrow
  PROVE  RowsNamed'
  BY DEF RowsNamed, RowsGrow

(* What is staged stays named, whatever the daemon does. *)
LEMMA ForwardStaged ==
  ASSUME WriteAheadInv, tx.current < 20, TypeInv', Forward
  PROVE  StagedNamed' /\ TempNamed'
<1> USE DEF Goto
<1>0. mem \in MemType /\ StagedNamed /\ RowsNamed /\ row \in [Targets -> Row]
  BY DEF WriteAheadInv, TypeInv, Shapes
<1>1. CASE PrepareMutation
  <2> DEFINE t == Min(Unwritten)
  <2>1. t \in Unwritten /\ t \in Targets
    BY <1>1, FirstTarget DEF PrepareMutation, Unwritten
  <2>2. /\ pc = "step" /\ pc' = "stage"
        /\ row' = [row EXCEPT ![t].state = "prepared"]
        /\ mem' = [mem EXCEPT !.at = t]
    BY <1>1 DEF PrepareMutation
  <2>3. row[t].applied = "none"
    BY <1>0, <2>1 DEF Unwritten, RowsNamed, NoRow
  <2> HIDE DEF t
  <2>4. mem'.at = t /\ mem'.staged = "none" /\ row'[t].applied = "none"
    BY <1>0, <2>1, <2>2, <2>3 DEF MemType, StagedNamed, Row
  <2> QED BY <2>2, <2>4 DEF StagedNamed, TempNamed, TempMoves
<1>2. CASE MarkApplied
  <2>1. mem'.staged = "none" /\ pc' = "step"
    BY <1>0, <1>2 DEF MarkApplied, MemType
  <2> QED BY <2>1 DEF StagedNamed, TempNamed, TempMoves
<1>3. CASE StepFails \/ Commit \/ EnterCommittedCleanup \/ FinishCleanup
  <2>1. pc' \in {"compensate", "committed", "cleanup", "done"}
    BY <1>3 DEF StepFails, Commit, EnterCommittedCleanup, FinishCleanup
  <2> QED BY <2>1, NothingStaged DEF Replacing
<1>4. CASE EnterStep \/ SandboxStep \/ Preflight \/ TargetsWritten
  <2>1. pc \in {"idle", "step"} /\ pc' \in {"idle", "step", "compensate"} /\ mem' = mem
    BY <1>4 DEF EnterStep, SandboxStep, Preflight, TargetsWritten, CompleteStep
  <2> QED BY <1>0, <2>1 DEF StagedNamed, TempNamed, TempMoves
<1> QED BY <1>1, <1>2, <1>3, <1>4 DEF Forward

(* The ends of a replacement and of a recovery leave nothing staged that   *)
(* may still move.                                                         *)
LEMMA EndStaged ==
  ASSUME TypeInv, pc \in AtTarget,
         \/ \E installed \in Tokens : SwapFailed(mem.at, installed)
         \/ SwapDone(mem.at) /\ mem.mode # "apply"
         \/ \E b, a \in Fingerprints : \E k, v \in Tokens : CallRecover(b, a, k, v, "swap")
         \/ \E p \in {"restored", "abandoned", "error"} : Held(p)
  PROVE  StagedNamed' /\ TempNamed'
<1>0. mem.at \in Targets /\ mem \in MemType
  BY DEF TypeInv, Places, Shapes
<1>1. CASE \E b, a \in Fingerprints : \E k, v \in Tokens : CallRecover(b, a, k, v, "swap")
  <2>1. pc' = "hold" /\ ~mem'.probe.extra
    <3>1. PICK p : p.extra = FALSE /\ mem' = [mem EXCEPT !.probe = p, !.caller = "swap", !.phase = "none"]
      BY <1>1 DEF CallRecover, NoProbe
    <3> QED BY <1>0, <1>1, <3>1 DEF CallRecover, Goto, MemType
  <2> QED BY <2>1 DEF StagedNamed, TempNamed, TempMoves
<1>2. CASE ~(\E b, a \in Fingerprints : \E k, v \in Tokens : CallRecover(b, a, k, v, "swap"))
  <2>1. pc' \in {"compensate", "undo", "recover", "mark_restored", "held"}
    BY <1>0, <1>2, SwapFailedTypes, SwapDoneTypes, HeldTypes
  <2> QED BY <2>1, NothingStaged DEF Replacing
<1> QED BY <1>1, <1>2

(* replace_regular_file: the token is durable before the first move.       *)
LEMMA SwapStaged ==
  ASSUME WriteAheadInv, tx.current < 20, TypeInv', Swap
  PROVE  StagedNamed' /\ TempNamed'
<1> DEFINE t == mem.at
<1> USE DEF Goto
<1>0. t \in Targets /\ pc \in AtTarget /\ TypeInv
  BY DEF Swap, Stage, PersistCandidate, CandidateRefused, MoveAside, CheckBackup, Install,
         CheckInstalled, DropBackup, FinalCheck, Places, AtTarget, Replacing, WriteAheadInv, TypeInv
<1>1. /\ fs \in [Targets -> FileType] /\ row \in [Targets -> Row] /\ mem \in MemType
      /\ "none" \in Tokens /\ StagedNamed /\ TempNamed /\ FilesNamed
      /\ mem.mode \in {"apply", "undo", "recover"}
  BY DEF Shapes, Tokens, WriteAheadInv, TypeInv, MemType
<1> HIDE DEF t
<1>a. t = mem.at
  BY DEF t
<1> USE <1>0, <1>1, SwapValues
<1>2. ASSUME \/ \E installed \in Tokens : SwapFailed(t, installed)
             \/ SwapDone(t) /\ mem.mode # "apply"
             \/ \E b, a \in Fingerprints : \E k, v \in Tokens : CallRecover(b, a, k, v, "swap")
      PROVE  StagedNamed' /\ TempNamed'
  BY <1>2, <1>a, EndStaged
<1>3. CASE Stage
  <2>1. CASE SwapDone(t) /\ mem.mode = "apply" /\ UNCHANGED row
    <3>1. mem' = [mem EXCEPT !.inst[t] = mem.staged] /\ pc' = "mark"
      BY <2>1 DEF SwapDone
    <3>2. mem'.inst[t] = mem.staged /\ mem'.at = t
      BY <1>a, <3>1 DEF MemType
    <3>3. mem.staged = row[t].applied
      BY <1>3, <1>a, <2>1 DEF Stage, StagedNamed
    <3> QED BY <2>1, <3>1, <3>2, <3>3 DEF StagedNamed, TempNamed, TempMoves
  <2>2. CASE /\ fs' = [fs EXCEPT ![t].temp = [tok |-> NewToken(t), fp |-> DesiredFp(t)]]
             /\ mem' = [mem EXCEPT !.staged = NewToken(t)]
             /\ pc' = "persist" /\ UNCHANGED <<row, tx, env>>
    <3>1. fs'[t].temp.tok = NewToken(t) /\ mem'.staged = NewToken(t) /\ mem'.at = t /\ mem'.mode = mem.mode
      BY <1>a, <2>2 DEF MemType, FileType
    <3>2. /\ mem.mode = "apply" => NewToken(t) = "cand"
          /\ mem.mode # "apply" => NewToken(t) \in {"rest", "rest2"}
      BY DEF NewToken
    <3> QED BY <2>2, <3>1, <3>2 DEF StagedNamed, TempNamed, TempMoves
  <2> QED BY <1>2, <1>3, <1>a, <2>1, <2>2 DEF Stage
<1>4. CASE PersistCandidate
  <2>1. CASE /\ row' = IF mem.mode = "apply" THEN [row EXCEPT ![t].applied = mem.staged]
                                            ELSE [row EXCEPT ![t].restored = mem.staged]
             /\ pc' = "move" /\ UNCHANGED <<fs, mem, tx, env>>
    <3>1. /\ fs[t].temp.tok = mem.staged
          /\ mem.mode = "apply" <=> mem.staged = "cand"
          /\ mem.mode # "apply" => mem.staged \in {"rest", "rest2"}
      BY <1>4, <1>a DEF PersistCandidate, StagedNamed
    <3>2. /\ mem.mode = "apply" => row'[t].applied = mem.staged
          /\ mem.mode # "apply" => row'[t].restored = mem.staged
      BY <2>1 DEF Row
    <3> QED BY <1>a, <2>1, <3>1, <3>2 DEF StagedNamed, TempNamed, TempMoves, Named
  <2> QED BY <1>2, <1>4, <1>a, <2>1 DEF PersistCandidate
<1>5. CASE CandidateRefused
  <2>1. CASE pc' = "refused"
    BY <2>1, NothingStaged DEF Replacing
  <2> QED BY <1>2, <1>5, <1>a, <2>1 DEF CandidateRefused
<1>6. ASSUME pc \in {"move", "moved", "install", "check", "drop", "final"}, UNCHANGED <<row, mem>>,
             pc' \in {"moved", "install", "check", "drop", "final"},
             pc' \in {"moved", "install"} => pc \in {"move", "moved"} /\ fs'[t].temp = fs[t].temp
      PROVE  StagedNamed' /\ TempNamed'
  <2>1. mem.mode = "apply" => row[t].applied = mem.staged
    BY <1>6, <1>a DEF StagedNamed
  <2>2. TempNamed'
    BY <1>6, <1>a DEF TempNamed, TempMoves, Named
  <2> QED BY <1>6, <1>a, <2>1, <2>2 DEF StagedNamed
<1>7. CASE MoveAside
  <2>1. CASE /\ fs' = [fs EXCEPT ![t].target = NoObject, ![t].backup = fs[t].target]
             /\ pc' = "moved" /\ UNCHANGED <<row, mem, tx, env>>
    <3>1. fs'[t].temp = fs[t].temp
      BY <2>1 DEF FileType
    <3> QED BY <1>6, <1>7, <2>1, <3>1 DEF MoveAside
  <2> QED BY <1>2, <1>7, <1>a, <2>1 DEF MoveAside
<1>8. CASE CheckBackup
  BY <1>2, <1>6, <1>8, <1>a DEF CheckBackup
<1>9. CASE Install
  <2>1. Expected(t).fp \in Fingerprints
    BY DEF Object
  <2> QED BY <1>2, <1>6, <1>9, <1>a, <2>1 DEF Install
<1>10. CASE CheckInstalled
  <2>1. Expected(t).fp \in Fingerprints
    BY DEF Object
  <2> QED BY <1>2, <1>6, <1>10, <1>a, <2>1 DEF CheckInstalled
<1>11. CASE DropBackup
  BY <1>2, <1>6, <1>11, <1>a DEF DropBackup
<1>12. CASE FinalCheck
  <2>1. CASE SwapDone(t) /\ mem.mode = "apply" /\ UNCHANGED row
    <3>1. mem' = [mem EXCEPT !.inst[t] = mem.staged] /\ pc' = "mark"
      BY <2>1 DEF SwapDone
    <3>2. mem'.inst[t] = mem.staged /\ mem'.at = t
      BY <1>a, <3>1 DEF MemType
    <3>3. mem.staged = row[t].applied
      BY <1>12, <1>a, <2>1 DEF FinalCheck, StagedNamed
    <3> QED BY <2>1, <3>1, <3>2, <3>3 DEF StagedNamed, TempNamed, TempMoves
  <2> QED BY <1>2, <1>12, <1>a, <2>1 DEF FinalCheck
<1> QED BY <1>3, <1>4, <1>5, <1>7, <1>8, <1>9, <1>10, <1>11, <1>12 DEF Swap

(* recover_interrupted_replace: the temporary name is emptied before it is *)
(* used again.                                                             *)
LEMMA HoldStaged ==
  ASSUME WriteAheadInv, tx.current < 20, TypeInv', Hold
  PROVE  StagedNamed' /\ TempNamed'
<1> DEFINE t == mem.at
<1> USE DEF Goto
<1>0. t \in Targets /\ pc \in AtTarget /\ TypeInv
  BY DEF Hold, HoldCleanTemp, HoldLook, HoldDropBackup, HoldTakeBack, HoldCheckTaken, HoldGiveBack,
         HoldCheckGiven, SwapRecovered, Places, AtTarget, Holding, WriteAheadInv, TypeInv
<1>1. /\ fs \in [Targets -> FileType] /\ row \in [Targets -> Row] /\ mem \in MemType
      /\ mem.probe \in ProbeType /\ StagedNamed /\ TempNamed /\ FilesNamed
  BY DEF Shapes, WriteAheadInv, TypeInv, MemType
<1> HIDE DEF t
<1>a. t = mem.at
  BY DEF t
<1>2. ASSUME \/ \E installed \in Tokens : SwapFailed(t, installed)
             \/ \E p \in {"restored", "abandoned", "error"} : Held(p)
      PROVE  StagedNamed' /\ TempNamed'
  BY <1>0, <1>2, <1>a, EndStaged
<1>3. CASE HoldCleanTemp
  <2>1. pc = "hold" /\ pc' = "look" /\ mem' = mem
    BY <1>3 DEF HoldCleanTemp
  <2> QED BY <1>1, <2>1 DEF StagedNamed, TempNamed, TempMoves
<1>4. CASE HoldLook
  <2>1. CASE /\ mem' = [mem EXCEPT !.probe.seen = fs[mem.at].target.tok,
                                   !.probe.held = fs[mem.at].backup.tok]
             /\ pc' \in {"give_back", "drop_held", "take_back"}
    <3>1. mem'.probe.extra = mem.probe.extra
      BY <1>1, <2>1 DEF MemType, ProbeType
    <3>2. ~mem.probe.extra
      BY <1>1, <1>4 DEF HoldLook, StagedNamed
    <3> QED BY <2>1, <3>1, <3>2 DEF StagedNamed, TempNamed, TempMoves
  <2> QED BY <1>2, <1>4, <2>1, LookEnds
<1>5. CASE HoldDropBackup
  BY <1>2, <1>5 DEF HoldDropBackup
<1>6. CASE HoldTakeBack
  <2>1. CASE /\ fs' = [fs EXCEPT ![t].target = NoObject, ![t].temp = fs[t].target]
             /\ pc' = "taken" /\ UNCHANGED <<mem, row, tx, env>>
    <3>1. fs'[t].temp = fs[t].target
      BY <1>0, <1>1, <2>1 DEF FileType
    <3>2. Named(t, fs[t].target.tok)
      BY <1>0, <1>1 DEF FilesNamed
    <3> QED BY <1>a, <2>1, <3>1, <3>2 DEF StagedNamed, TempNamed, TempMoves, Named
  <2> QED BY <1>2, <1>6, <1>a, <2>1 DEF HoldTakeBack
<1>7. CASE HoldCheckTaken
  <2>1. CASE mem' = [mem EXCEPT !.probe.extra = TRUE] /\ pc' = "give_back" /\ UNCHANGED <<fs, row, tx, env>>
    <3>1. mem'.at = t
      BY <1>1, <1>a, <2>1 DEF MemType
    <3>2. Named(t, fs[t].temp.tok)
      BY <1>1, <1>7, <1>a DEF HoldCheckTaken, TempNamed, TempMoves
    <3> QED BY <2>1, <3>1, <3>2 DEF StagedNamed, TempNamed, TempMoves, Named
  <2> QED BY <1>2, <1>7, <1>a, <2>1 DEF HoldCheckTaken
<1>8. CASE HoldGiveBack
  <2>1. CASE /\ fs' = [fs EXCEPT ![t].target = fs[t].backup, ![t].backup = NoObject]
             /\ pc' = "given" /\ UNCHANGED <<mem, row, tx, env>>
    <3>1. fs'[t].temp = fs[t].temp
      BY <1>0, <1>1, <2>1 DEF FileType
    <3>2. mem.probe.extra => Named(t, fs[t].temp.tok)
      BY <1>1, <1>8, <1>a DEF HoldGiveBack, TempNamed, TempMoves
    <3> QED BY <1>a, <2>1, <3>1, <3>2 DEF StagedNamed, TempNamed, TempMoves, Named
  <2> QED BY <1>2, <1>8, <1>a, <2>1 DEF HoldGiveBack, GiveBackFailed
<1>9. CASE HoldCheckGiven
  BY <1>2, <1>9 DEF HoldCheckGiven, GiveBackFailed
<1>10. CASE SwapRecovered
  <2>1. mem.staged \in Tokens
    BY <1>1 DEF MemType
  <2> QED BY <1>2, <1>10, <1>a, <2>1 DEF SwapRecovered
<1> QED BY <1>3, <1>4, <1>5, <1>6, <1>7, <1>8, <1>9, <1>10 DEF Hold

(* The compensation calls the recovery with an empty temporary name.       *)
LEMMA CompensateStaged ==
  ASSUME WriteAheadInv, tx.current < 20, TypeInv', Compensate
  PROVE  StagedNamed' /\ TempNamed'
<1> USE DEF Goto
<1>0. TypeInv /\ mem \in MemType
  BY DEF WriteAheadInv, TypeInv, Shapes
<1>1. CASE UndoTarget
  <2>1. pc' = "hold" /\ ~mem'.probe.extra
    <3>1. PICK p : p.extra = FALSE /\ mem' = [mem EXCEPT !.probe = p, !.caller = "undo", !.phase = "none"]
      BY <1>1 DEF UndoTarget, CallRecover, NoProbe
    <3> QED BY <1>0, <1>1, <3>1 DEF UndoTarget, CallRecover, MemType
  <2> QED BY <2>1 DEF StagedNamed, TempNamed, TempMoves
<1>2. CASE UndoClassify
  <2>1. PICK m \in MemType : /\ m.mode = "undo"
                             /\ \/ pc' \in {"undo", "stopped"}
                                \/ pc' = "stage" /\ mem' = [m EXCEPT !.caller = "none", !.phase = "none"]
    BY <1>0, <1>2, UndoClassifyEnds
  <2>2. pc' \in {"undo", "stopped"} \/ (pc' = "stage" /\ mem'.mode = "undo")
    BY <2>1 DEF MemType
  <2> QED BY <2>2, NothingStaged DEF Replacing
<1>3. CASE Compensate /\ ~UndoTarget /\ ~UndoClassify
  <2>1. pc' \in {"begin_undo", "prepare_undo", "undo", "stopped", "finish_rows", "cleanup"}
    BY <1>3 DEF Compensate, EnterCompensation, BeginUndo, PrepareUndo, UndoPrepared, UndoFinished, FinishRow,
                FinishCompensated, StopUndo
  <2> QED BY <2>1, NothingStaged DEF Replacing
<1> QED BY <1>1, <1>2, <1>3

(* The recovery of the rows at a restart stages nothing for a new          *)
(* application.                                                            *)
LEMMA RecoverStaged ==
  ASSUME WriteAheadInv, tx.current < 20, TypeInv', Recover
  PROVE  StagedNamed' /\ TempNamed'
<1> USE DEF Goto
<1>0. TypeInv /\ mem \in MemType
  BY DEF WriteAheadInv, TypeInv, Shapes
<1>1. CASE ProbeRow
  <2>1. CASE pc' \in {"recover", "held"}
    BY <2>1, NothingStaged DEF Replacing
  <2>2. CASE \E b, a, k, v : CallRecover(b, a, k, v, "probe")
    <3>1. PICK p : p.extra = FALSE /\ mem' = [mem EXCEPT !.probe = p, !.caller = "probe", !.phase = "none"]
      BY <2>2 DEF CallRecover, NoProbe
    <3>2. pc' = "hold" /\ ~mem'.probe.extra
      BY <1>0, <2>2, <3>1 DEF CallRecover, MemType
    <3> QED BY <3>2 DEF StagedNamed, TempNamed, TempMoves
  <2> QED BY <1>1, <2>1, <2>2 DEF ProbeRow
<1>2. CASE ProbeClassify
  <2>1. mem.mode = "recover"
    BY <1>0, <1>2 DEF ProbeClassify, TypeInv, Places, Holding
  <2>2. \/ pc' \in {"recover", "refused", "mark_restored"}
        \/ pc' = "stage" /\ mem' = [mem EXCEPT !.caller = "none", !.phase = "none"]
    BY <1>0, <1>2, ProbeClassifyEnds
  <2>3. pc' \in {"recover", "refused", "mark_restored"} \/ (pc' = "stage" /\ mem'.mode = "recover")
    BY <1>0, <2>1, <2>2 DEF MemType
  <2> QED BY <2>3, NothingStaged DEF Replacing
<1>3. CASE Recover /\ ~ProbeRow /\ ~ProbeClassify
  <2>1. pc' \in {"recover", "cleanup", "sandbox", "refused"}
    BY <1>3 DEF Recover, Restart, MarkRestored, FinishRecovery, CleanSandbox, Refuse
  <2> QED BY <2>1, NothingStaged DEF Replacing
<1> QED BY <1>1, <1>2, <1>3

(* Another program changes the target name only; a death leaves every name *)
(* as it is.                                                               *)
LEMMA OutsideStaged ==
  ASSUME WriteAheadInv, tx.current < 20, TypeInv', Foreign \/ Crash
  PROVE  StagedNamed' /\ TempNamed'
<1>1. CASE Foreign
  <2>1. PICK t \in Targets : ForeignChange(t)
    BY <1>1 DEF Foreign
  <2>2. UNCHANGED <<row, pc, mem>> /\ \E new : fs' = [fs EXCEPT ![t].target = new]
    BY <2>1 DEF ForeignChange
  <2>3. \A u \in Targets : fs'[u].temp = fs[u].temp
    BY <2>2 DEF WriteAheadInv, TypeInv, Shapes, FileType
  <2>4. pc \in AtTarget => mem.at \in Targets
    BY DEF WriteAheadInv, TypeInv, Places
  <2>5. StagedNamed'
    BY <2>2, <2>3, <2>4 DEF WriteAheadInv, StagedNamed, AtTarget, Replacing
  <2>6. TempNamed'
    BY <2>2, <2>3, <2>4 DEF WriteAheadInv, TempNamed, TempMoves, Named, AtTarget, Replacing, Holding
  <2> QED BY <2>5, <2>6
<1>2. CASE Crash
  <2>1. pc' = "down"
    BY <1>2 DEF Crash, Goto
  <2> QED BY <2>1, NothingStaged DEF Replacing
<1> QED BY <1>1, <1>2

(* The rows name what is under the names: inductive. *)
LEMMA WriteAheadStep ==
  ASSUME WriteAheadInv, [Next]_vars
  PROVE  WriteAheadInv'
<1>1. TypeInv'
  BY TypeStep DEF WriteAheadInv
<1>2. tx'.current < 20 => tx.current < 20
  <2>1. ASSUME ~(tx.current < 20) PROVE UNCHANGED tx
    <3>1. pc = "done"
      BY <2>1 DEF WriteAheadInv, TypeInv, Shapes, TxType, Places
    <3>2. ~Swap /\ ~Hold
      BY <3>1 DEF Swap, Stage, PersistCandidate, CandidateRefused, MoveAside, CheckBackup, Install,
         CheckInstalled, DropBackup, FinalCheck, Hold, HoldCleanTemp, HoldLook, HoldDropBackup, HoldTakeBack,
         HoldCheckTaken, HoldGiveBack, HoldCheckGiven, SwapRecovered
    <3>3. ~Forward /\ ~Compensate /\ ~Recover
      BY <3>1 DEF Forward, EnterStep, SandboxStep, Preflight, PrepareMutation, TargetsWritten,
       StepFails, MarkApplied, Commit, EnterCommittedCleanup, FinishCleanup,
       Compensate, EnterCompensation, BeginUndo, PrepareUndo, UndoPrepared, UndoTarget, UndoClassify,
       UndoFinished, FinishRow, FinishCompensated,
       Recover, Restart, ProbeRow, ProbeClassify, MarkRestored, FinishRecovery, CleanSandbox
    <3> QED BY <3>2, <3>3 DEF Next, Daemon, Foreign, ForeignChange, Crash, Done, vars
  <2> QED BY <2>1
<1>3. ASSUME tx'.current < 20
      PROVE  (FilesNamed /\ TempNamed /\ RowsNamed /\ StagedNamed)'
  <2>0. tx.current < 20 /\ FilesNamed /\ TempNamed /\ RowsNamed /\ StagedNamed /\ TypeInv
    BY <1>2, <1>3 DEF WriteAheadInv
  <2>1. RowsGrow /\ FilesCome
    BY <1>3, <2>0, RowsAlwaysGrow, FilesAlwaysCome
  <2>2. FilesNamed' /\ RowsNamed'
    BY <2>0, <2>1, FilesNamedStep, RowsNamedStep
  <2>3. ASSUME UNCHANGED vars PROVE StagedNamed' /\ TempNamed'
    BY <2>0, <2>3 DEF vars, StagedNamed, TempNamed, TempMoves, Named
  <2>4. ASSUME Next, ~UNCHANGED vars PROVE StagedNamed' /\ TempNamed'
    BY <1>1, <2>0, <2>4, ForwardStaged, SwapStaged, HoldStaged, CompensateStaged, RecoverStaged, OutsideStaged
       DEF Next, Daemon, Done
  <2> QED BY <2>2, <2>3, <2>4
<1> QED BY <1>1, <1>3 DEF WriteAheadInv

(* No file is staged at the start.                                         *)
LEMMA WriteAheadInit == Init => WriteAheadInv
<1> SUFFICES ASSUME Init PROVE WriteAheadInv
  OBVIOUS
<1>1. \A t \in Targets : /\ fs[t].target.tok = "orig" /\ fs[t].backup.tok = "none" /\ row[t] = NoRow
  BY DEF Init, Original, NoObject
<1>2. pc = "idle" /\ mem.staged = "none"
  BY DEF Init, Fresh
<1>3. FilesNamed /\ RowsNamed
  BY <1>1 DEF FilesNamed, Named, RowsNamed
<1>4. TempNamed /\ StagedNamed
  BY <1>2 DEF TempNamed, TempMoves, StagedNamed
<1> QED BY <1>3, <1>4, TypeInit DEF WriteAheadInv

(* The inductive invariant of the write-ahead rows: the names, what is     *)
(* staged, and what the rows say of both.                                  *)
THEOREM WriteAheadInvariant == Spec => []WriteAheadInv
  BY WriteAheadInit, WriteAheadStep, PTL DEF Spec

(* A file of the daemon never stands under the target name while the row   *)
(* of that target does not name its token: persist_candidate comes before  *)
(* the move in replace_regular_file, and no step, recovery or death in     *)
(* between undoes it. This is what lets a restart recognise the daemon's   *)
(* own files.                                                              *)
THEOREM AlwaysWriteAhead == Spec => []WriteAhead
<1>1. WriteAheadInv => WriteAhead
  <2> SUFFICES ASSUME WriteAheadInv, tx.current < 20, NEW t \in Targets
               PROVE  /\ fs[t].target.tok = "cand" => row[t].applied = "cand"
                      /\ fs[t].target.tok \in {"rest", "rest2"} => row[t].restored = fs[t].target.tok
    BY DEF WriteAhead
  <2> QED BY DEF WriteAheadInv, FilesNamed, Named
<1> QED BY <1>1, WriteAheadInvariant, PTL

-----------------------------------------------------------------------------
(* A target that no other program changed. *)

(* A target with nothing under its private names.                          *)
Alone(o) == Files(o, NoObject, NoObject)

Candidate == [tok |-> "cand", fp |-> "applied"]

Restore == [tok |-> "rest", fp |-> "before"]

(* What a later restore stages beside it.                                  *)
Restore2 == [tok |-> "rest2", fp |-> "before"]

RowIs(t, states, applied, restored) ==
  row[t].state \in states /\ row[t].applied = applied /\ row[t].restored = restored

(* The row and the file of a target agree: it was not replaced, it was     *)
(* replaced, or it was restored.                                           *)
AtRest(t) ==
  \/ RowIs(t, {"none", "prepared", "restored"}, "none", "none") /\ fs[t] = Alone(Original)
  \/ /\ RowIs(t, {"prepared", "applied", "restore_prepared"}, "cand", "none")
     /\ fs[t] = Alone(Candidate)
  \/ RowIs(t, {"restore_prepared", "restored"}, "cand", "rest") /\ fs[t] = Alone(Restore)

(* A death left a staged file that nothing refers to. *)
Leftover(t) ==
  \/ RowIs(t, {"prepared"}, "none", "none") /\ fs[t] = Files(Original, NoObject, Candidate)
  \/ /\ RowIs(t, {"restore_prepared"}, "cand", "none")
     /\ fs[t] = Files(Candidate, NoObject, Restore)

(* A death interrupted the replacement of From by Into. *)
Torn(t) ==
  \/ RowIs(t, {"prepared"}, "cand", "none")
  \/ RowIs(t, {"restore_prepared"}, "cand", "rest")

From(t) == IF row[t].restored = "none" THEN Original ELSE Candidate

Into(t) == IF row[t].restored = "none" THEN Candidate ELSE Restore

Interrupted(t) ==
  /\ Torn(t)
  /\ \/ fs[t] \in {Files(From(t), NoObject, Into(t)), Files(NoObject, From(t), Into(t)),
                   Files(NoObject, From(t), NoObject), Files(Into(t), From(t), NoObject)}
     \/ row[t].restored = "rest" /\ fs[t] = Files(Candidate, NoObject, Restore2)

(* It was taken back, which the row cannot express. *)
TakenBack(t) ==
  \/ RowIs(t, {"prepared", "restore_prepared", "conflict"}, "cand", "none")
     /\ fs[t] = Alone(Original)
  \/ RowIs(t, {"restore_prepared"}, "cand", "rest") /\ fs[t] = Alone(Candidate)

(* The outcome is not written yet.                                         *)
Open == tx.status \in {"pending", "restoring"}

Here(t) == pc \in AtTarget /\ mem.at = t

(* The recovery has still to come to t. *)
Ahead(t) ==
  \/ pc \in {"down", "refused"}
  \/ /\ mem.mode = "recover" /\ pc \in AtTarget \union {"recover"}
     /\ mem.at > t \/ (mem.at = t /\ pc \in {"recover", "hold"})

(* The process that applied is still up. *)
Live == mem.mode # "recover" /\ pc \notin {"down", "refused", "stopped"}

(* A target no other program changed, while nothing is done to it. *)
Quiet(t) ==
  \/ AtRest(t)
  \/ Ahead(t) /\ Leftover(t)
  \/ t \in env.cut /\ TakenBack(t)
  \/ t \in env.cut /\ Ahead(t) /\ Interrupted(t)

(* Its replacement. *)
Busy(t) ==
  /\ pc = "stage" =>
       \/ mem.mode = "apply" /\ RowIs(t, {"prepared"}, "none", "none") /\ fs[t] = Alone(Original)
       \/ /\ mem.mode # "apply" /\ fs[t] = Alone(Candidate)
          /\ \/ RowIs(t, {"restore_prepared"}, "cand", "none")
             \/ t \in env.cut /\ RowIs(t, {"restore_prepared"}, "cand", "rest")
  /\ pc = "persist" =>
       \/ /\ mem.mode = "apply" /\ mem.staged = "cand"
          /\ RowIs(t, {"prepared"}, "none", "none")
          /\ fs[t] = Files(Original, NoObject, Candidate)
       \/ /\ mem.mode # "apply" /\ mem.staged = "rest"
          /\ RowIs(t, {"restore_prepared"}, "cand", "none")
          /\ fs[t] = Files(Candidate, NoObject, Restore)
       \/ /\ mem.mode = "recover" /\ mem.staged = "rest2"
          /\ RowIs(t, {"restore_prepared"}, "cand", "rest")
          /\ fs[t] = Files(Candidate, NoObject, Restore2)
          /\ t \in env.cut
  /\ pc \in {"move", "moved", "install", "check", "drop", "final"} =>
       /\ Torn(t)
       /\ mem.staged = Into(t).tok
       /\ mem.mode = "apply" <=> row[t].restored = "none"
  /\ pc = "move" => fs[t] = Files(From(t), NoObject, Into(t))
  /\ pc \in {"moved", "install"} => fs[t] = Files(NoObject, From(t), Into(t))
  /\ pc \in {"check", "drop"} => fs[t] = Files(Into(t), From(t), NoObject)
  /\ pc = "final" => fs[t] = Alone(Into(t))

(* What the recovery of a replacement is asked for, by each caller. *)
Asked(t) ==
  LET p == mem.probe IN
  /\ mem.caller = "undo" =>
       p.before = "before" /\ p.applied = "applied" /\ p.backup = "none" /\ p.provenance = mem.inst[t]
  /\ mem.caller = "probe" =>
       \/ /\ row[t].state \in {"prepared", "applied"}
          /\ p.before = "before" /\ p.applied = "applied"
          /\ p.backup = "orig" /\ p.provenance = row[t].applied
       \/ /\ row[t].state = "restore_prepared"
          /\ p.before = "applied" /\ p.applied = "before"
          /\ p.backup = row[t].applied /\ p.provenance = row[t].restored

(* A recovery at startup found the replacement interrupted. *)
Resumed(t) == t \in env.cut /\ Torn(t) /\ mem.caller = "probe"

(* What the recovery tells its caller of an untouched target. *)
Disposed(t) ==
  \/ mem.phase = "restored" /\ AtRest(t)
  \/ /\ mem.phase = "restored" /\ t \in env.cut /\ TakenBack(t) /\ mem.caller = "probe"
     /\ row[t].state # "conflict" /\ ~RowIs(t, {"restore_prepared"}, "cand", "none")
  \/ /\ mem.phase = "abandoned" /\ t \in env.cut /\ mem.caller = "probe"
     /\ RowIs(t, {"restore_prepared"}, "cand", "none") /\ fs[t] = Alone(Original)

(* The recovery of its interrupted replacement. *)
Recovering(t) ==
  LET extra == IF mem.probe.extra THEN Into(t) ELSE NoObject IN
  /\ mem.caller # "swap"
  /\ pc # "drop_held"
  /\ pc # "held" => Asked(t)
  /\ pc = "hold" => Quiet(t)
  /\ pc = "look" =>
       \/ AtRest(t)
       \/ t \in env.cut /\ TakenBack(t)
       \/ /\ Resumed(t)
          /\ fs[t] \in {Files(NoObject, From(t), NoObject), Files(Into(t), From(t), NoObject)}
  /\ pc \in {"take_back", "taken", "give_back", "given"} => Resumed(t) /\ mem.probe.held = From(t).tok
  /\ pc \in {"take_back", "taken"} => mem.probe.seen = Into(t).tok
  /\ pc = "take_back" => fs[t] = Files(Into(t), From(t), NoObject)
  /\ pc = "taken" => fs[t] = Files(NoObject, From(t), Into(t))
  /\ pc = "give_back" => fs[t] = Files(NoObject, From(t), extra)
  /\ pc = "given" => fs[t] = Files(From(t), NoObject, extra)
  /\ pc = "held" => Disposed(t)

Marking(t) ==
  /\ pc = "mark" => RowIs(t, {"prepared"}, "cand", "none") /\ fs[t] = Alone(Candidate)
  /\ pc = "mark_restored" =>
       \/ RowIs(t, {"prepared"}, "none", "none") /\ fs[t] = Alone(Original)
       \/ t \in env.cut /\ RowIs(t, {"restore_prepared"}, "cand", "none") /\ fs[t] = Alone(Original)
       \/ RowIs(t, {"restore_prepared"}, "cand", "rest") /\ fs[t] = Alone(Restore)

(* What the applying process believes it has installed. *)
InstalledIsTrue(t) ==
  Live =>
    /\ env.cut = {}
    /\ mem.inst[t] = IF Here(t) /\ pc \in Replacing
                     THEN (IF mem.mode = "apply" THEN "none" ELSE "cand")
                     ELSE (IF fs[t].target = Candidate THEN "cand" ELSE "none")
    /\ mem.mode = "undo" =>
         /\ row[t].state # "applied"
         /\ row[t].state = "prepared" => row[t].applied = "none"
         /\ mem.at < t => fs[t] # Alone(Candidate)

(* A target whose intended state is the expected one never changes. *)
Idle(t) ==
  /\ RowIs(t, {"none", "prepared", "applied", "restore_prepared", "restored"}, "none", "none")
  /\ fs[t] = Alone(Original)
  /\ Live => mem.inst[t] = "none"
  /\ Live /\ mem.mode = "undo" => row[t].state # "applied"
  /\ Here(t) =>
       /\ pc \in {"stage", "mark"} => mem.mode = "apply" /\ mem.staged = "none" /\ row[t].state = "prepared"
       /\ pc \notin Replacing \ {"stage"}
       /\ pc = "mark_restored" => row[t].state # "none"
       /\ pc \in Holding => pc \in {"hold", "look", "held"} /\ mem.caller # "swap"
       /\ pc \in {"hold", "look"} => mem.probe.before = "before"
       /\ pc = "held" => mem.phase = "restored"
       /\ pc \in {"held", "hold", "look"} /\ mem.caller = "probe" => row[t].state # "none"

Replaced(t) ==
  /\ Here(t) =>
       /\ Busy(t) /\ Marking(t)
       /\ pc \in Holding => Recovering(t)
  /\ ~Here(t) => Quiet(t)
  /\ InstalledIsTrue(t)

(* How the files are left. *)
Left(t) ==
  /\ tx.status = "committed" => fs[t] = Alone(IF t \in Unchanged THEN Original ELSE Candidate)
  /\ tx.status \in {"restored", "conflict"} => fs[t] \in {Alone(Original), Alone(Restore)}

(* What holds of a target no other program changed. *)
Sound(t) ==
  /\ Left(t)
  /\ Open => IF t \in Unchanged THEN Idle(t) ELSE Replaced(t)

(* The inductive invariant behind ConflictOnlyIfTouched and                *)
(* OutcomeMatchesFiles.                                                    *)
UntouchedInv ==
  /\ WriteAheadInv
  /\ ConflictOnlyIfTouched
  /\ mem.conflicts \subseteq env.touched
  /\ ~Open => pc \in CommittedPlaces
  /\ pc = "done" => ~Open
  /\ pc \in {"compensate", "begin_undo", "prepare_undo"} => mem.mode = "apply"
  /\ pc = "finish_rows" => mem.at = 0 /\ mem.mode = "undo"
  /\ \A t \in Targets \ env.touched : Sound(t)

-----------------------------------------------------------------------------
(* Where the daemon works on another target. *)

(* What is said of a file and its row stays true while both stay.          *)
LEMMA SameFile ==
  ASSUME NEW t \in Targets, fs'[t] = fs[t], row'[t] = row[t]
  PROVE  /\ AtRest(t)' <=> AtRest(t)
         /\ Leftover(t)' <=> Leftover(t)
         /\ TakenBack(t)' <=> TakenBack(t)
         /\ Interrupted(t)' <=> Interrupted(t)
<1>1. AtRest(t)' <=> AtRest(t)
  BY DEF AtRest, RowIs
<1>2. Leftover(t)' <=> Leftover(t)
  BY DEF Leftover, RowIs
<1>3. TakenBack(t)' <=> TakenBack(t)
  BY DEF TakenBack, RowIs
<1>4. Interrupted(t)' <=> Interrupted(t)
  BY DEF Interrupted, Torn, From, Into, RowIs
<1> QED BY <1>1, <1>2, <1>3, <1>4

(* A target at which the daemon neither was nor comes.                     *)
LEMMA Elsewhere ==
  ASSUME NEW t \in Targets, Sound(t), Open, Open', fs'[t] = fs[t], row'[t] = row[t],
         env'.cut = env.cut, ~Here(t), ~Here(t)', Ahead(t) => Ahead(t)',
         Live' => /\ Live /\ mem'.inst[t] = mem.inst[t]
                  /\ mem'.mode = "undo" => mem.mode = "undo" /\ (mem'.at < t => mem.at < t)
  PROVE  Sound(t)'
<1>1. Left(t)'
  BY DEF Left, Open
<1>2. CASE t \in Unchanged
  <2>1. Idle(t)
    BY <1>2 DEF Sound
  <2>2. Idle(t)'
    BY <2>1 DEF Idle, RowIs
  <2> QED BY <1>1, <1>2, <2>2 DEF Sound
<1>3. CASE t \notin Unchanged
  <2>1. Quiet(t) /\ InstalledIsTrue(t)
    BY <1>3 DEF Sound, Replaced
  <2>2. Quiet(t)'
    BY <2>1, SameFile DEF Quiet
  <2>3. InstalledIsTrue(t)'
    BY <2>1 DEF InstalledIsTrue
  <2> QED BY <1>1, <1>3, <2>2, <2>3 DEF Sound, Replaced
<1> QED BY <1>2, <1>3

(* A step at one target leaves the others alone.                           *)
OneTarget ==
  /\ UNCHANGED <<tx, env>>
  /\ \A u \in Targets \ {mem.at} : fs'[u] = fs[u] /\ row'[u] = row[u]
  /\ \/ pc' = "refused"
     \/ pc' = "stopped" /\ mem.mode # "recover"
     \/ /\ mem'.mode = mem.mode
        /\ \A u \in Targets \ {mem.at} : mem'.inst[u] = mem.inst[u]
        /\ \/ pc' \in AtTarget /\ mem'.at = mem.at
           \/ pc' \in {"step", "compensate"} /\ mem'.at = mem.at /\ mem.mode = "apply"
           \/ pc' = "undo" /\ mem'.at = mem.at - 1 /\ mem.mode = "undo"
           \/ pc' = "recover" /\ mem'.at = mem.at - 1

(* So the other untouched targets stay as they are.                       *)
LEMMA OthersSound ==
  ASSUME TypeInv, OneTarget, pc \in AtTarget, Open, NEW t \in Targets, t # mem.at, Sound(t)
  PROVE  Sound(t)'
<1>0. mem.at \in Targets /\ mem.at \in Nat /\ t \in Nat
  BY DEF TypeInv, Places, Targets
<1>1. /\ fs'[t] = fs[t] /\ row'[t] = row[t] /\ env'.cut = env.cut /\ Open' /\ ~Here(t)
  BY DEF OneTarget, Open, Here
<1>2. ~Here(t)'
  BY DEF OneTarget, Here, AtTarget, Replacing, Holding
<1>3. Ahead(t) => Ahead(t)'
  <2> SUFFICES ASSUME Ahead(t) PROVE Ahead(t)'
    OBVIOUS
  <2>1. mem.mode = "recover" /\ mem.at > t
    BY <1>0 DEF Ahead, AtTarget, Replacing, Holding
  <2> QED BY <1>0, <2>1 DEF OneTarget, Ahead
<1>4. Live' => Live
  BY DEF OneTarget, Live, AtTarget, Replacing, Holding
<1>5. Live' => /\ mem'.inst[t] = mem.inst[t]
               /\ mem'.mode = "undo" => mem.mode = "undo" /\ (mem'.at < t => mem.at < t)
  BY <1>0 DEF OneTarget, Live
<1> QED BY <1>1, <1>2, <1>3, <1>4, <1>5, Elsewhere

(* The ends of a replacement and of a recovery are steps at one target.    *)
LEMMA EndsAtOne ==
  ASSUME TypeInv, pc \in AtTarget, UNCHANGED <<tx, env>>,
         \A u \in Targets \ {mem.at} : fs'[u] = fs[u],
         \/ \E installed \in Tokens : SwapFailed(mem.at, installed)
         \/ SwapDone(mem.at) /\ UNCHANGED row
         \/ /\ UNCHANGED row
            /\ \E b, a \in Fingerprints : \E k, v \in Tokens : CallRecover(b, a, k, v, "swap")
         \/ /\ UNCHANGED row
            /\ \E p \in {"restored", "abandoned", "error"} : Held(p)
         \/ /\ \A u \in Targets \ {mem.at} : row'[u] = row[u]
            /\ UNCHANGED mem /\ pc' \in AtTarget
         \/ /\ \A u \in Targets \ {mem.at} : row'[u] = row[u]
            /\ pc' \in AtTarget
            /\ \E p : mem' = [mem EXCEPT !.probe = p]
         \/ /\ UNCHANGED row
            /\ pc' = "persist"
            /\ \E k : mem' = [mem EXCEPT !.staged = k]
  PROVE  OneTarget
<1>0. mem.at \in Targets /\ mem \in MemType /\ row \in [Targets -> Row]
  BY DEF TypeInv, Places, Shapes
<1> DEFINE t == mem.at
<1>1. ASSUME NEW installed \in Tokens, SwapFailed(t, installed) PROVE OneTarget
  <2>1. CASE mem.mode = "apply"
    <3>1. /\ mem' = [mem EXCEPT !.inst[t] = installed, !.staged = "none", !.probe = NoProbe,
                                !.caller = "none", !.phase = "none"]
          /\ pc' = "compensate" /\ UNCHANGED row
      BY <1>1, <2>1 DEF SwapFailed, Goto
    <3>2. mem'.mode = mem.mode /\ mem'.at = mem.at /\ \A u \in Targets \ {t} : mem'.inst[u] = mem.inst[u]
      BY <1>0, <3>1 DEF MemType
    <3> QED BY <2>1, <3>1, <3>2 DEF OneTarget
  <2>2. CASE mem.mode = "undo"
    <3>1. /\ mem' = [mem EXCEPT !.failed = TRUE, !.at = t - 1, !.staged = "none", !.probe = NoProbe,
                                !.caller = "none", !.phase = "none"]
          /\ pc' = "undo" /\ UNCHANGED row
      BY <1>1, <2>2 DEF SwapFailed, Goto
    <3>2. mem'.mode = mem.mode /\ mem'.at = mem.at - 1 /\ mem'.inst = mem.inst
      BY <1>0, <3>1 DEF MemType
    <3> QED BY <2>2, <3>1, <3>2 DEF OneTarget
  <2>3. CASE mem.mode = "recover"
    <3>1. /\ mem' = [mem EXCEPT !.at = t - 1, !.staged = "none", !.probe = NoProbe,
                                !.caller = "none", !.phase = "none"]
          /\ pc' = "recover" /\ Transition(t, "conflict")
      BY <1>1, <2>3 DEF SwapFailed, Goto
    <3>2. mem'.mode = mem.mode /\ mem'.at = mem.at - 1 /\ mem'.inst = mem.inst
      BY <1>0, <3>1 DEF MemType
    <3>3. \A u \in Targets \ {t} : row'[u] = row[u]
      BY <1>0, <3>1, TransitionTypes DEF WalStates
    <3> QED BY <2>3, <3>1, <3>2, <3>3 DEF OneTarget
  <2> QED BY <1>0, <2>1, <2>2, <2>3 DEF MemType
<1>2. ASSUME SwapDone(t), UNCHANGED row PROVE OneTarget
  <2>1. mem'.mode = mem.mode /\ \A u \in Targets \ {t} : mem'.inst[u] = mem.inst[u]
    BY <1>0, <1>2 DEF SwapDone, MemType
  <2>2. \/ pc' \in AtTarget /\ mem'.at = mem.at
        \/ pc' = "undo" /\ mem'.at = mem.at - 1 /\ mem.mode = "undo"
    BY <1>0, <1>2 DEF SwapDone, MemType, Goto, AtTarget
  <2> QED BY <1>2, <2>1, <2>2 DEF OneTarget
<1>3. ASSUME NEW b \in Fingerprints, NEW a \in Fingerprints, NEW k \in Tokens, NEW v \in Tokens,
             CallRecover(b, a, k, v, "swap"), UNCHANGED row
      PROVE  OneTarget
  <2>1. PICK p : mem' = [mem EXCEPT !.probe = p, !.caller = "swap", !.phase = "none"]
    BY <1>3 DEF CallRecover
  <2>2. mem'.mode = mem.mode /\ mem'.inst = mem.inst /\ mem'.at = mem.at /\ pc' = "hold"
    BY <1>0, <1>3, <2>1 DEF MemType, CallRecover, Goto
  <2> QED BY <1>3, <2>2 DEF OneTarget, AtTarget, Holding
<1>4. ASSUME NEW p \in {"restored", "abandoned", "error"}, Held(p), UNCHANGED row
      PROVE  OneTarget
  <2>2. mem'.mode = mem.mode /\ mem'.inst = mem.inst /\ mem'.at = mem.at /\ pc' = "held"
    BY <1>0, <1>4 DEF MemType, Held, Goto
  <2> QED BY <1>4, <2>2 DEF OneTarget, AtTarget, Holding
<1>5. ASSUME \A u \in Targets \ {mem.at} : row'[u] = row[u],
             pc' \in AtTarget,
             mem'.mode = mem.mode /\ mem'.inst = mem.inst /\ mem'.at = mem.at
      PROVE  OneTarget
  BY <1>5 DEF OneTarget
<1>6. ASSUME NEW p, mem' = [mem EXCEPT !.probe = p] \/ mem' = [mem EXCEPT !.staged = p]
      PROVE  mem'.mode = mem.mode /\ mem'.inst = mem.inst /\ mem'.at = mem.at
  BY <1>0, <1>6 DEF MemType
<1>7. "persist" \in AtTarget
  BY DEF AtTarget, Replacing
<1> QED BY <1>1, <1>2, <1>3, <1>4, <1>5, <1>6, <1>7

(* A replacement, and its recovery, touch the names of one target only.    *)
LEMMA FilesAtOne ==
  ASSUME TypeInv, Swap \/ Hold
  PROVE  /\ \A u \in Targets \ {mem.at} : fs'[u] = fs[u]
         /\ pc \in AtTarget /\ mem.at \in Targets /\ UNCHANGED <<tx, env>>
<1>0. fs \in [Targets -> FileType]
  BY DEF TypeInv, Shapes
<1>1. CASE Swap
  <2>1. \A u \in Targets \ {mem.at} : fs'[u] = fs[u]
    <3>1. CASE Stage \/ PersistCandidate \/ CandidateRefused \/ MoveAside
      BY <1>0, <3>1 DEF Stage, PersistCandidate, CandidateRefused, MoveAside, DropTemp
    <3>2. CASE CheckBackup
      BY <1>0, <3>2 DEF CheckBackup
    <3>3. CASE Install \/ CheckInstalled \/ DropBackup \/ FinalCheck
      BY <1>0, <3>3 DEF Install, CheckInstalled, DropBackup, FinalCheck
    <3> QED BY <1>1, <3>1, <3>2, <3>3 DEF Swap
  <2>2. pc \in AtTarget /\ UNCHANGED <<tx, env>>
    BY <1>1 DEF Swap, Stage, PersistCandidate, CandidateRefused, MoveAside, CheckBackup, Install,
           CheckInstalled, DropBackup, FinalCheck, AtTarget, Replacing
  <2> QED BY <2>1, <2>2 DEF TypeInv, Places
<1>2. CASE Hold
  <2>1. \A u \in Targets \ {mem.at} : fs'[u] = fs[u]
    <3>1. CASE HoldCleanTemp \/ HoldLook \/ HoldDropBackup \/ HoldTakeBack \/ SwapRecovered
      BY <1>0, <3>1 DEF HoldCleanTemp, HoldLook, HoldDropBackup, HoldTakeBack, SwapRecovered, DropTemp
    <3>2. CASE HoldCheckTaken
      BY <1>0, <3>2 DEF HoldCheckTaken
    <3>3. CASE HoldGiveBack
      BY <1>0, <3>3 DEF HoldGiveBack, GiveBackFailed
    <3>4. CASE HoldCheckGiven
      BY <1>0, <3>4 DEF HoldCheckGiven, GiveBackFailed, DropTemp
    <3> QED BY <1>2, <3>1, <3>2, <3>3, <3>4 DEF Hold
  <2>2. pc \in AtTarget /\ UNCHANGED <<tx, env>>
    BY <1>2 DEF Hold, HoldCleanTemp, HoldLook, HoldDropBackup, HoldTakeBack, HoldCheckTaken, HoldGiveBack,
         HoldCheckGiven, SwapRecovered, AtTarget, Holding
  <2> QED BY <2>1, <2>2 DEF TypeInv, Places
<1> QED BY <1>1, <1>2

(* They are steps at one target.                                           *)
LEMMA WorkAtOne ==
  ASSUME TypeInv, Swap \/ Hold
  PROVE  OneTarget
<1> USE FilesAtOne DEF Goto
<1>0. /\ mem.staged \in Tokens /\ "none" \in Tokens
      /\ \A f \in {Expected(mem.at).fp, DesiredFp(mem.at)} : f \in Fingerprints
      /\ row \in [Targets -> Row]
  BY SwapValues DEF Object, Tokens, TypeInv, Shapes
<1>1. Replacing \union Holding \subseteq AtTarget
  BY DEF AtTarget
<1>2. CASE Stage
  BY <1>0, <1>2, EndsAtOne DEF Stage
<1>3. CASE PersistCandidate
  <2>1. CASE SwapFailed(mem.at, "none")
    BY <1>0, <2>1, EndsAtOne
  <2>2. CASE ~SwapFailed(mem.at, "none")
    <3>1. (\A u \in Targets \ {mem.at} : row'[u] = row[u]) /\ UNCHANGED mem /\ pc' = "move"
      BY <1>0, <1>3, <2>2 DEF PersistCandidate
    <3> QED BY <1>1, <3>1, EndsAtOne DEF Replacing
  <2> QED BY <2>1, <2>2
<1>4. CASE CandidateRefused
  <2>1. CASE SwapFailed(mem.at, "none")
    BY <1>0, <2>1, EndsAtOne
  <2>2. CASE pc' = "refused" /\ UNCHANGED row
    BY <2>2 DEF OneTarget
  <2> QED BY <1>4, <2>1, <2>2 DEF CandidateRefused
<1>5. CASE MoveAside \/ CheckBackup \/ Install \/ CheckInstalled \/ DropBackup \/ FinalCheck
  <2>1. CASE SwapFailed(mem.at, mem.staged) \/ (SwapDone(mem.at) /\ UNCHANGED row)
    BY <1>0, <2>1, EndsAtOne
  <2>2. CASE UNCHANGED <<mem, row>> /\ pc' \in Replacing
    BY <1>1, <2>2, EndsAtOne
  <2>3. CASE UNCHANGED row /\ \E k \in {"none", mem.staged} :
               CallRecover(Expected(mem.at).fp, DesiredFp(mem.at), "none", k, "swap")
    BY <1>0, <2>3, EndsAtOne
  <2> QED BY <1>5, <2>1, <2>2, <2>3
      DEF MoveAside, CheckBackup, Install, CheckInstalled, DropBackup, FinalCheck, Replacing
<1>6. CASE Hold
  <2>1. CASE UNCHANGED row /\ \E p \in {"restored", "abandoned", "error"} : Held(p)
    BY <2>1, EndsAtOne
  <2>2. CASE UNCHANGED <<mem, row>> /\ pc' \in Holding
    BY <1>1, <2>2, EndsAtOne
  <2>3. CASE SwapRecovered
    BY <1>0, <2>3, EndsAtOne DEF SwapRecovered
  <2>4. CASE HoldLook
    <3>1. CASE /\ mem' = [mem EXCEPT !.probe.seen = fs[mem.at].target.tok,
                                   !.probe.held = fs[mem.at].backup.tok]
               /\ pc' \in {"give_back", "drop_held", "take_back"}
      <4>1. \E p : mem' = [mem EXCEPT !.probe = p]
        BY <3>1
      <4> QED BY <1>1, <2>4, <3>1, <4>1, EndsAtOne DEF HoldLook, Holding
    <3> QED BY <2>1, <2>4, <3>1, LookEnds DEF HoldLook
  <2>5. CASE HoldCheckTaken
    <3>1. CASE mem' = [mem EXCEPT !.probe.extra = TRUE] /\ pc' = "give_back" /\ UNCHANGED row
      <4>1. \E p : mem' = [mem EXCEPT !.probe = p]
        BY <3>1
      <4> QED BY <1>1, <3>1, <4>1, EndsAtOne DEF Holding
    <3> QED BY <2>1, <2>5, <3>1 DEF HoldCheckTaken
  <2> QED BY <1>6, <2>1, <2>2, <2>3, <2>4, <2>5
      DEF Hold, HoldCleanTemp, HoldDropBackup, HoldTakeBack, HoldGiveBack, HoldCheckGiven,
          GiveBackFailed, Holding
<1> QED BY <1>2, <1>3, <1>4, <1>5, <1>6 DEF Swap

(* What a transition makes of the row.                                     *)
LEMMA TransitionRow ==
  ASSUME TypeInv, NEW t \in Targets, NEW s \in WalStates, Transition(t, s)
  PROVE  row'[t].state = s /\ row'[t].applied = row[t].applied /\ row'[t].restored = row[t].restored
<1>1. row[t] \in Row
  BY DEF TypeInv, Shapes
<1>2. row'[t] = [row[t] EXCEPT !.state = s]
  BY TransitionTypes
<1> QED BY <1>1, <1>2 DEF Row

(* So are the steps that judge a target and write its row.                 *)
LEMMA JudgeAtOne ==
  ASSUME TypeInv, UndoClassify \/ ProbeClassify \/ MarkApplied \/ MarkRestored
  PROVE  OneTarget /\ pc \in AtTarget
<1>0. pc \in AtTarget /\ UNCHANGED <<tx, env, fs>>
  BY DEF UndoClassify, ProbeClassify, MarkApplied, MarkRestored, AtTarget, Holding
<1>1. mem.at \in Targets /\ mem \in MemType /\ row \in [Targets -> Row]
  BY <1>0 DEF TypeInv, Places, Shapes
<1> DEFINE t == mem.at
<1>2. CASE UndoClassify
  <2>0. mem.mode = "undo"
    BY <1>2 DEF UndoClassify, TypeInv, Places, Holding
  <2>1. PICK m \in MemType :
           /\ m.mode = "undo" /\ m.at = mem.at
           /\ \A u \in Targets \ {t} : m.inst[u] = mem.inst[u]
           /\ \/ /\ mem' = [m EXCEPT !.at = t - 1, !.caller = "none", !.phase = "none"] /\ pc' = "undo"
                 /\ UNCHANGED row \/ row' = [row EXCEPT ![t].restored = "orig"]
              \/ mem' = [m EXCEPT !.caller = "none", !.phase = "none"] /\ pc' = "stage" /\ UNCHANGED row
              \/ pc' = "stopped" /\ UNCHANGED row
    BY <1>2, UndoClassifyEnds
  <2>2. \A u \in Targets \ {t} : row'[u] = row[u]
    BY <1>1, <2>1
  <2>3. CASE mem' = [m EXCEPT !.at = t - 1, !.caller = "none", !.phase = "none"] /\ pc' = "undo"
    <3>1. mem'.mode = m.mode /\ mem'.inst = m.inst /\ mem'.at = t - 1
      BY <2>3 DEF MemType
    <3> QED BY <1>0, <2>0, <2>1, <2>2, <2>3, <3>1 DEF OneTarget
  <2>4. CASE mem' = [m EXCEPT !.caller = "none", !.phase = "none"] /\ pc' = "stage"
    <3>1. mem'.mode = m.mode /\ mem'.inst = m.inst /\ mem'.at = m.at
      BY <2>4 DEF MemType
    <3> QED BY <1>0, <2>0, <2>1, <2>2, <2>4, <3>1 DEF OneTarget, AtTarget, Replacing
  <2> QED BY <1>0, <2>0, <2>1, <2>2, <2>3, <2>4 DEF OneTarget
<1>3. CASE ProbeClassify
  <2>0. mem.mode = "recover"
    BY <1>3 DEF ProbeClassify, TypeInv, Places, Holding
  <2>1. /\ UNCHANGED row \/ \E s \in WalStates : Transition(t, s)
        /\ \/ mem' = [mem EXCEPT !.at = t - 1, !.caller = "none", !.phase = "none"] /\ pc' = "recover"
           \/ mem' = [mem EXCEPT !.caller = "none", !.phase = "none"] /\ pc' \in {"stage", "mark_restored"}
           \/ pc' = "refused"
    BY <1>3, ProbeClassifyEnds DEF WalStates
  <2>2. \A u \in Targets \ {t} : row'[u] = row[u]
    BY <1>1, <2>1, TransitionTypes
  <2>3. CASE mem' = [mem EXCEPT !.at = t - 1, !.caller = "none", !.phase = "none"] /\ pc' = "recover"
    <3>1. mem'.mode = mem.mode /\ mem'.inst = mem.inst /\ mem'.at = t - 1
      BY <1>1, <2>3 DEF MemType
    <3> QED BY <1>0, <2>0, <2>2, <2>3, <3>1 DEF OneTarget
  <2>4. CASE mem' = [mem EXCEPT !.caller = "none", !.phase = "none"] /\ pc' \in {"stage", "mark_restored"}
    <3>1. mem'.mode = mem.mode /\ mem'.inst = mem.inst /\ mem'.at = mem.at
      BY <1>1, <2>4 DEF MemType
    <3> QED BY <1>0, <2>0, <2>2, <2>4, <3>1 DEF OneTarget, AtTarget, Replacing
  <2> QED BY <1>0, <2>1, <2>2, <2>3, <2>4 DEF OneTarget
<1>4. CASE MarkApplied
  <2>1. \A u \in Targets \ {t} : row'[u] = row[u]
    BY <1>1, <1>4 DEF MarkApplied
  <2>2. mem'.mode = mem.mode /\ mem'.inst = mem.inst /\ mem'.at = mem.at /\ pc' = "step" /\ mem.mode = "apply"
    BY <1>1, <1>4 DEF MarkApplied, MemType, Goto, TypeInv, Places
  <2> QED BY <1>0, <2>1, <2>2 DEF OneTarget
<1>5. CASE MarkRestored
  <2>1. \A u \in Targets \ {t} : row'[u] = row[u]
    BY <1>1, <1>5, TransitionTypes DEF MarkRestored, WalStates
  <2>2. CASE mem' = [mem EXCEPT !.at = t - 1] /\ pc' = "recover"
    <3>1. mem'.mode = mem.mode /\ mem'.inst = mem.inst /\ mem'.at = t - 1
      BY <1>1, <2>2 DEF MemType
    <3> QED BY <1>0, <2>1, <2>2, <3>1 DEF OneTarget
  <2>3. CASE pc' = "refused"
    BY <1>0, <2>1, <2>3 DEF OneTarget
  <2> QED BY <1>5, <2>2, <2>3 DEF MarkRestored, Refuse, Goto
<1> QED BY <1>0, <1>2, <1>3, <1>4, <1>5

-----------------------------------------------------------------------------
(* Where the daemon works on the target itself. *)

(* The parts of Sound that matter where the daemon goes.                   *)
LEMMA BusySound ==
  ASSUME NEW t \in Targets, t \notin Unchanged, Open', pc' \in Replacing, mem'.at = t,
         Busy(t)', InstalledIsTrue(t)'
  PROVE  Sound(t)'
  BY DEF Sound, Left, Open, Replaced, Marking, Here, AtTarget, Replacing, Holding

(* In the recovery of an interrupted replacement.                          *)
LEMMA HoldingSound ==
  ASSUME NEW t \in Targets, t \notin Unchanged, Open', pc' \in Holding, mem'.at = t,
         Recovering(t)', InstalledIsTrue(t)'
  PROVE  Sound(t)'
  BY DEF Sound, Left, Open, Replaced, Marking, Busy, Here, AtTarget, Replacing, Holding

(* Where its row is written.                                               *)
LEMMA MarkingSound ==
  ASSUME NEW t \in Targets, t \notin Unchanged, Open', pc' \in {"mark", "mark_restored"}, mem'.at = t,
         Marking(t)', InstalledIsTrue(t)'
  PROVE  Sound(t)'
  BY DEF Sound, Left, Open, Replaced, Busy, Here, AtTarget, Replacing, Holding

(* Where the daemon is elsewhere.                                          *)
LEMMA QuietSound ==
  ASSUME NEW t \in Targets, t \notin Unchanged, Open', ~Here(t)', Quiet(t)', InstalledIsTrue(t)'
  PROVE  Sound(t)'
  BY DEF Sound, Left, Open, Replaced

(* What a replacement that was recorded expects, and what it installs.     *)
LEMMA SwapObjects ==
  ASSUME NEW t \in Targets, TypeInv, Busy(t), InstalledIsTrue(t), Here(t), t \notin Unchanged,
         pc \in {"move", "moved", "install", "check", "drop", "final"}
  PROVE  /\ Expected(t) = From(t) /\ Staged(t) = Into(t)
         /\ mem.mode = "apply" => RowIs(t, {"prepared"}, "cand", "none") /\ Into(t) = Candidate /\ From(t) = Original
         /\ mem.mode # "apply" => RowIs(t, {"restore_prepared"}, "cand", "rest") /\ Into(t) = Restore /\ From(t) = Candidate
<1>0. mem.mode \in {"apply", "undo", "recover"} /\ pc \in Replacing
  BY DEF TypeInv, Shapes, MemType, Replacing
<1>1. Torn(t) /\ mem.staged = Into(t).tok /\ (mem.mode = "apply" <=> row[t].restored = "none")
  BY DEF Busy
<1>2. CASE mem.mode = "apply"
  BY <1>1, <1>2 DEF Torn, RowIs, From, Into, Expected, Staged, DesiredFp, AppliedFp, Candidate, Original
<1>3. CASE mem.mode # "apply"
  <2>1. RowIs(t, {"restore_prepared"}, "cand", "rest") /\ From(t) = Candidate /\ Into(t) = Restore
    BY <1>1, <1>3 DEF Torn, RowIs, From, Into
  <2>2. mem.mode = "undo" => mem.inst[t] = "cand"
    BY <1>0, <1>3 DEF InstalledIsTrue, Live, Replacing
  <2>3. Expected(t) = Candidate
    BY <1>0, <1>3, <2>1, <2>2 DEF Expected, AppliedFp, Candidate, RowIs
  <2>4. Staged(t) = Restore
    BY <1>1, <1>3, <2>1 DEF Staged, DesiredFp, Restore
  <2> QED BY <1>3, <2>1, <2>3, <2>4
<1> QED BY <1>2, <1>3

(* What the applying process believes stays true inside a replacement.     *)
LEMMA InstalledStays ==
  ASSUME NEW t \in Targets, InstalledIsTrue(t), Here(t), pc \in Replacing, Here(t)', pc' \in Replacing,
         mem'.mode = mem.mode, mem'.inst = mem.inst, env'.cut = env.cut, mem'.at = mem.at,
         mem.mode = "undo" => row'[t].state = "restore_prepared"
  PROVE  InstalledIsTrue(t)'
<1>0. mem.at = t /\ pc \notin {"down", "refused", "stopped"} /\ pc' \notin {"down", "refused", "stopped"}
  BY DEF Here, Replacing
<1>1. CASE mem.mode = "recover"
  BY <1>1 DEF InstalledIsTrue, Live
<1>2. CASE mem.mode # "recover"
  <2>1. Live /\ Live'
    BY <1>0, <1>2 DEF Live
  <2>2. env'.cut = {}
    BY <2>1 DEF InstalledIsTrue
  <2>3. mem'.inst[t] = IF mem.mode = "apply" THEN "none" ELSE "cand"
    BY <2>1 DEF InstalledIsTrue
  <2>4. ~(mem'.at < t)
    BY <1>0 DEF Targets
  <2> QED BY <2>2, <2>3, <2>4 DEF InstalledIsTrue
<1> QED BY <1>1, <1>2

(* replace_regular_file goes from an untouched file to the intended one    *)
(* without a failure.                                                      *)
LEMMA SwapSound ==
  ASSUME UntouchedInv, Swap, NEW t \in Targets, t = mem.at, t \notin env.touched
  PROVE  Sound(t)'
<1> USE DEF Goto
<1>0. /\ pc \in Replacing /\ UNCHANGED <<tx, env>> /\ TypeInv /\ Sound(t)
  BY FilesAtOne DEF Swap, Stage, PersistCandidate, CandidateRefused, MoveAside, CheckBackup, Install,
         CheckInstalled, DropBackup, FinalCheck, Replacing, UntouchedInv, WriteAheadInv
<1>1. Open /\ Open' /\ Here(t)
  BY <1>0 DEF UntouchedInv, Open, CommittedPlaces, Replacing, Here, AtTarget
<1>2. /\ fs \in [Targets -> FileType] /\ row \in [Targets -> Row] /\ mem \in MemType
  BY <1>0 DEF TypeInv, Shapes
<1>3. CASE t \in Unchanged
  <2>1. Idle(t) /\ pc = "stage"
    BY <1>0, <1>1, <1>3 DEF Sound, Idle
  <2>2. /\ mem.mode = "apply" /\ mem.staged = "none" /\ row[t].state = "prepared"
        /\ RowIs(t, {"prepared"}, "none", "none") /\ fs[t] = Alone(Original)
    BY <1>1, <2>1 DEF Idle, RowIs
  <2>3. fs[t].target = Expected(t) /\ fs[t].target.fp = DesiredFp(t)
    BY <1>3, <2>2 DEF Alone, Files, Expected, DesiredFp, AppliedFp, Original
  <2>4. SwapDone(t) /\ UNCHANGED <<fs, row>>
    BY <2>1, <2>3 DEF Swap, Stage, PersistCandidate, CandidateRefused, MoveAside, CheckBackup, Install,
         CheckInstalled, DropBackup, FinalCheck
  <2>5. mem' = [mem EXCEPT !.inst[t] = "none"] /\ pc' = "mark"
    BY <2>2, <2>4 DEF SwapDone
  <2>6. mem'.inst[t] = "none" /\ mem'.mode = "apply" /\ mem'.staged = "none" /\ mem'.at = t
    BY <1>2, <2>2, <2>5 DEF MemType
  <2>7. Idle(t)'
    BY <2>2, <2>4, <2>5, <2>6 DEF Idle, RowIs, Replacing, Holding
  <2> QED BY <1>1, <1>3, <2>7 DEF Sound, Left, Open
<1>4. CASE t \notin Unchanged
  <2>0. Busy(t) /\ InstalledIsTrue(t)
    BY <1>0, <1>1, <1>4 DEF Sound, Replaced
  <2>2. CASE Stage
    <3>0. pc = "stage"
      BY <2>2 DEF Stage
    <3>1. \/ /\ mem.mode = "apply" /\ RowIs(t, {"prepared"}, "none", "none") /\ fs[t] = Alone(Original)
          \/ /\ mem.mode # "apply" /\ fs[t] = Alone(Candidate)
             /\ \/ RowIs(t, {"restore_prepared"}, "cand", "none")
                \/ t \in env.cut /\ RowIs(t, {"restore_prepared"}, "cand", "rest")
      BY <2>0, <3>0 DEF Busy
    <3>2. mem.mode = "undo" => mem.inst[t] = "cand" /\ env.cut = {}
      BY <1>1, <2>0, <3>0 DEF InstalledIsTrue, Live, Replacing
    <3>3. fs[t].target = Expected(t) /\ fs[t].target.fp # DesiredFp(t) /\ fs[t].temp = NoObject
      BY <1>2, <1>4, <3>1, <3>2 DEF MemType, Alone, Files, Expected, DesiredFp, AppliedFp, Original, Candidate, RowIs
    <3>4. /\ fs' = [fs EXCEPT ![t].temp = [tok |-> NewToken(t), fp |-> DesiredFp(t)]]
          /\ mem' = [mem EXCEPT !.staged = NewToken(t)]
          /\ pc' = "persist" /\ UNCHANGED row
      BY <2>2, <3>3 DEF Stage
    <3>5. fs'[t] = Files(fs[t].target, NoObject, [tok |-> NewToken(t), fp |-> DesiredFp(t)])
      BY <1>2, <3>1, <3>4 DEF Files, FileType, Alone
    <3>6. mem'.staged = NewToken(t) /\ mem'.mode = mem.mode /\ mem'.inst = mem.inst /\ mem'.at = t
      BY <1>2, <3>4 DEF MemType
    <3>7. Busy(t)'
      <4>1. CASE mem.mode = "apply"
        <5>1. NewToken(t) = "cand" /\ DesiredFp(t) = "applied" /\ fs[t].target = Original
          BY <1>4, <3>1, <4>1 DEF NewToken, DesiredFp, AppliedFp, Alone, Files
        <5>2. RowIs(t, {"prepared"}, "none", "none")'
          BY <3>1, <3>4, <4>1 DEF RowIs
        <5> QED BY <3>4, <3>5, <3>6, <4>1, <5>1, <5>2 DEF Busy, Candidate
      <4>2. CASE mem.mode # "apply"
        <5>1. DesiredFp(t) = "before" /\ fs[t].target = Candidate
          BY <3>1, <4>2 DEF DesiredFp, Alone, Files
        <5>2. CASE row[t].restored = "none"
          <6>1. NewToken(t) = "rest"
            BY <4>2, <5>2 DEF NewToken
          <6>2. RowIs(t, {"restore_prepared"}, "cand", "none")'
            BY <3>1, <3>4, <4>2, <5>2 DEF RowIs
          <6> QED BY <3>4, <3>5, <3>6, <4>2, <5>1, <6>1, <6>2 DEF Busy, Restore
        <5>3. CASE row[t].restored = "rest" /\ t \in env.cut
          <6>1. NewToken(t) = "rest2" /\ mem.mode = "recover"
            BY <1>2, <3>2, <4>2, <5>3 DEF NewToken, MemType
          <6>2. RowIs(t, {"restore_prepared"}, "cand", "rest")'
            BY <3>1, <3>4, <4>2, <5>3 DEF RowIs
          <6> QED BY <1>0, <3>4, <3>5, <3>6, <4>2, <5>1, <5>3, <6>1, <6>2 DEF Busy, Restore2
        <5> QED BY <3>1, <4>2, <5>2, <5>3 DEF RowIs
      <4> QED BY <4>1, <4>2
    <3>8. InstalledIsTrue(t)'
      <4>1. mem.mode = "undo" => row'[t].state = "restore_prepared"
        BY <3>1, <3>4 DEF RowIs
      <4>2. Here(t)' /\ pc' \in Replacing
        BY <3>4, <3>6 DEF Here, AtTarget, Replacing
      <4> QED BY <1>0, <1>1, <2>0, <3>6, <4>1, <4>2, InstalledStays
    <3> QED BY <1>1, <1>4, <3>4, <3>6, <3>7, <3>8, BusySound DEF Replacing
  <2>3. CASE PersistCandidate \/ CandidateRefused
    <3>0. pc = "persist"
      BY <2>3 DEF PersistCandidate, CandidateRefused
    <3>1. \/ /\ mem.mode = "apply" /\ mem.staged = "cand"
             /\ RowIs(t, {"prepared"}, "none", "none")
             /\ fs[t] = Files(Original, NoObject, Candidate)
          \/ /\ mem.mode # "apply" /\ mem.staged = "rest"
             /\ RowIs(t, {"restore_prepared"}, "cand", "none")
             /\ fs[t] = Files(Candidate, NoObject, Restore)
          \/ /\ mem.mode = "recover" /\ mem.staged = "rest2"
             /\ RowIs(t, {"restore_prepared"}, "cand", "rest")
             /\ fs[t] = Files(Candidate, NoObject, Restore2)
             /\ t \in env.cut
      BY <2>0, <3>0 DEF Busy
    <3>2. mem.mode = "undo" => mem.inst[t] = "cand"
      BY <1>1, <2>0, <3>0 DEF InstalledIsTrue, Live, Replacing
    <3>3. fs[t].target = Expected(t)
      BY <1>2, <1>4, <3>1, <3>2 DEF MemType, Files, Expected, AppliedFp, Original, Candidate, RowIs
    <3>4. CASE mem.staged # "rest2"
      <4>1. MayPersist(t)
        BY <1>4, <3>1, <3>4 DEF MayPersist, MayRecordCandidate, MayRecordRestored, RowIs
      <4>2. /\ row' = IF mem.mode = "apply" THEN [row EXCEPT ![t].applied = mem.staged]
                                            ELSE [row EXCEPT ![t].restored = mem.staged]
            /\ pc' = "move" /\ UNCHANGED <<fs, mem>>
        BY <2>3, <3>3, <4>1 DEF PersistCandidate, CandidateRefused
      <4>3. IF mem.mode = "apply" THEN RowIs(t, {"prepared"}, "cand", "none")'
                                  ELSE RowIs(t, {"restore_prepared"}, "cand", "rest")'
        BY <1>2, <3>1, <3>4, <4>2 DEF RowIs, Row
      <4>4. Busy(t)'
        <5>1. CASE mem.mode = "apply"
          <6>1. row'[t].restored = "none" /\ Torn(t)' /\ From(t)' = Original /\ Into(t)' = Candidate
            BY <4>3, <5>1 DEF Torn, RowIs, From, Into
          <6> QED BY <3>1, <4>2, <5>1, <6>1 DEF Busy, Candidate
        <5>2. CASE mem.mode # "apply"
          <6>1. row'[t].restored = "rest" /\ Torn(t)' /\ From(t)' = Candidate /\ Into(t)' = Restore
            BY <4>3, <5>2 DEF Torn, RowIs, From, Into
          <6> QED BY <3>1, <3>4, <4>2, <5>2, <6>1 DEF Busy, Restore
        <5> QED BY <5>1, <5>2
      <4>5. InstalledIsTrue(t)'
        <5>1. mem.mode = "undo" => row'[t].state = "restore_prepared"
          BY <4>3 DEF RowIs
        <5>2. Here(t)' /\ pc' \in Replacing
          BY <1>1, <4>2 DEF Here, AtTarget, Replacing
        <5> QED BY <1>0, <1>1, <2>0, <4>2, <5>1, <5>2, InstalledStays
      <4> QED BY <1>1, <1>4, <4>2, <4>4, <4>5, BusySound DEF Replacing
    <3>5. CASE mem.staged = "rest2"
      <4>1. /\ mem.mode = "recover" /\ t \in env.cut /\ RowIs(t, {"restore_prepared"}, "cand", "rest")
            /\ fs[t] = Files(Candidate, NoObject, Restore2)
        BY <3>1, <3>5
      <4>2. ~MayPersist(t)
        BY <3>5, <4>1 DEF MayPersist, MayRecordRestored, RowIs
      <4>3. DropTemp(t) /\ pc' = "refused" /\ UNCHANGED row
        BY <2>3, <3>3, <4>1, <4>2 DEF PersistCandidate, CandidateRefused
      <4>4. fs'[t] = Alone(Candidate)
        BY <1>2, <4>1, <4>3 DEF DropTemp, FileType, Files, Alone
      <4>5. TakenBack(t)'
        BY <4>1, <4>3, <4>4 DEF TakenBack, RowIs
      <4>6. Quiet(t)' /\ ~Here(t)' /\ InstalledIsTrue(t)'
        BY <1>0, <4>1, <4>3, <4>5 DEF Quiet, Here, AtTarget, Replacing, Holding, InstalledIsTrue, Live
      <4> QED BY <1>1, <1>4, <4>6, QuietSound
    <3> QED BY <3>4, <3>5
  <2>4. CASE pc \in {"move", "moved", "install", "check", "drop", "final"}
    <3>0. /\ Expected(t) = From(t) /\ Staged(t) = Into(t)
          /\ mem.mode = "apply" => RowIs(t, {"prepared"}, "cand", "none") /\ Into(t) = Candidate /\ From(t) = Original
          /\ mem.mode # "apply" => RowIs(t, {"restore_prepared"}, "cand", "rest") /\ Into(t) = Restore /\ From(t) = Candidate
      BY <1>0, <1>1, <1>4, <2>0, <2>4, SwapObjects
    <3>1. From(t) # NoObject /\ Into(t) # NoObject /\ From(t) # Into(t)
      BY <3>0 DEF Candidate, Original, Restore, NoObject
    <3>2. ASSUME UNCHANGED <<row, mem>>, pc' \in {"move", "moved", "install", "check", "drop", "final"},
                 pc' = "move" => fs'[t] = Files(From(t), NoObject, Into(t)),
                 pc' \in {"moved", "install"} => fs'[t] = Files(NoObject, From(t), Into(t)),
                 pc' \in {"check", "drop"} => fs'[t] = Files(Into(t), From(t), NoObject),
                 pc' = "final" => fs'[t] = Alone(Into(t))
          PROVE  Sound(t)'
      <4>1. From(t)' = From(t) /\ Into(t)' = Into(t) /\ (Torn(t)' <=> Torn(t))
        BY <3>2 DEF From, Into, Torn, RowIs
      <4>2. Torn(t) /\ mem.staged = Into(t).tok /\ (mem.mode = "apply" <=> row[t].restored = "none")
        BY <2>0, <2>4 DEF Busy
      <4>3. Busy(t)'
        BY <3>2, <4>1, <4>2 DEF Busy
      <4>4. mem.mode = "undo" => row'[t].state = "restore_prepared"
        BY <3>0, <3>2 DEF RowIs
      <4>5. Here(t)' /\ pc' \in Replacing
        BY <1>1, <3>2 DEF Here, AtTarget, Replacing
      <4>6. InstalledIsTrue(t)'
        BY <1>0, <1>1, <2>0, <3>2, <4>4, <4>5, InstalledStays
      <4> QED BY <1>1, <1>4, <3>2, <4>3, <4>5, <4>6, BusySound
    <3>3. CASE MoveAside
      <4>1. fs[t] = Files(From(t), NoObject, Into(t))
        BY <2>0, <3>3 DEF MoveAside, Busy
      <4>2. /\ fs' = [fs EXCEPT ![t].target = NoObject, ![t].backup = fs[t].target]
            /\ pc' = "moved" /\ UNCHANGED <<row, mem>>
        BY <3>1, <3>3, <4>1 DEF MoveAside, Files
      <4>a. fs[t].target = From(t)
        BY <4>1 DEF Files
      <4>b. fs' = [fs EXCEPT ![t].target = NoObject, ![t].backup = From(t)]
        BY <4>2, <4>a
      <4>c. [fs[t] EXCEPT !.target = NoObject, !.backup = From(t)] = Files(NoObject, From(t), Into(t))
        <5>1. [fs[t] EXCEPT !.target = NoObject] = Files(NoObject, NoObject, Into(t))
          BY <4>1 DEF Files
        <5>2. [fs[t] EXCEPT !.target = NoObject, !.backup = From(t)] = [Files(NoObject, NoObject, Into(t)) EXCEPT !.backup = From(t)]
          BY <5>1
        <5>3. [Files(NoObject, NoObject, Into(t)) EXCEPT !.backup = From(t)] = Files(NoObject, From(t), Into(t))
          BY DEF Files
        <5> QED BY <5>2, <5>3
      <4>3. fs'[t] = Files(NoObject, From(t), Into(t))
        BY <1>2, <4>1, <4>b, <4>c
      <4> QED BY <3>2, <4>2, <4>3
    <3>4. CASE CheckBackup
      <4>1. fs[t] = Files(NoObject, From(t), Into(t))
        BY <2>0, <3>4 DEF CheckBackup, Busy
      <4>2. pc' = "install" /\ UNCHANGED <<fs, row, mem>>
        BY <3>0, <3>4, <4>1 DEF CheckBackup, Files
      <4> QED BY <3>2, <4>1, <4>2
    <3>5. CASE Install
      <4>1. fs[t] = Files(NoObject, From(t), Into(t))
        BY <2>0, <3>5 DEF Install, Busy
      <4>2. /\ fs' = [fs EXCEPT ![t].target = fs[t].temp, ![t].temp = NoObject]
            /\ pc' = "check" /\ UNCHANGED <<row, mem>>
        BY <3>5, <4>1 DEF Install, Files
      <4>a. fs[t].temp = Into(t)
        BY <4>1 DEF Files
      <4>b. fs' = [fs EXCEPT ![t].target = Into(t), ![t].temp = NoObject]
        BY <4>2, <4>a
      <4>c. [fs[t] EXCEPT !.target = Into(t), !.temp = NoObject] = Files(Into(t), From(t), NoObject)
        <5>1. [fs[t] EXCEPT !.target = Into(t)] = Files(Into(t), From(t), Into(t))
          BY <4>1 DEF Files
        <5>2. [fs[t] EXCEPT !.target = Into(t), !.temp = NoObject] = [Files(Into(t), From(t), Into(t)) EXCEPT !.temp = NoObject]
          BY <5>1
        <5>3. [Files(Into(t), From(t), Into(t)) EXCEPT !.temp = NoObject] = Files(Into(t), From(t), NoObject)
          BY DEF Files
        <5> QED BY <5>2, <5>3
      <4>3. fs'[t] = Files(Into(t), From(t), NoObject)
        BY <1>2, <4>1, <4>b, <4>c
      <4> QED BY <3>2, <4>2, <4>3
    <3>6. CASE CheckInstalled
      <4>1. fs[t] = Files(Into(t), From(t), NoObject)
        BY <2>0, <3>6 DEF CheckInstalled, Busy
      <4>2. pc' = "drop" /\ UNCHANGED <<fs, row, mem>>
        BY <3>0, <3>6, <4>1 DEF CheckInstalled, Files
      <4> QED BY <3>2, <4>1, <4>2
    <3>7. CASE DropBackup
      <4>1. fs[t] = Files(Into(t), From(t), NoObject)
        BY <2>0, <3>7 DEF DropBackup, Busy
      <4>2. fs' = [fs EXCEPT ![t].backup = NoObject] /\ pc' = "final" /\ UNCHANGED <<row, mem>>
        BY <3>0, <3>7, <4>1 DEF DropBackup, Files
      <4>3. fs'[t] = Alone(Into(t))
        BY <1>2, <4>1, <4>2 DEF FileType, Files, Alone
      <4> QED BY <3>2, <4>2, <4>3
    <3>8. CASE FinalCheck
      <4>1. fs[t] = Alone(Into(t))
        BY <2>0, <3>8 DEF FinalCheck, Busy
      <4>2. SwapDone(t) /\ UNCHANGED <<fs, row>>
        BY <3>0, <3>8, <4>1 DEF FinalCheck, Alone, Files
      <4>3. CASE mem.mode = "apply"
        <5>1. mem' = [mem EXCEPT !.inst[t] = mem.staged] /\ pc' = "mark"
          BY <4>2, <4>3 DEF SwapDone
        <5>2. mem.staged = "cand"
          BY <2>0, <2>4, <3>0, <4>3 DEF Busy, Candidate
        <5>3. mem'.inst[t] = "cand" /\ mem'.mode = "apply" /\ mem'.at = t
          BY <1>2, <4>3, <5>1, <5>2 DEF MemType
        <5>4. Marking(t)'
          BY <3>0, <4>1, <4>2, <4>3, <5>1 DEF Marking, RowIs
        <5>5. fs'[t].target = Candidate /\ env.cut = {}
          BY <1>0, <1>1, <2>0, <3>0, <4>1, <4>2, <4>3 DEF Alone, Files, InstalledIsTrue, Live, Replacing
        <5>6. InstalledIsTrue(t)'
          BY <1>0, <5>1, <5>3, <5>5 DEF InstalledIsTrue, Replacing
        <5> QED BY <1>1, <1>4, <5>1, <5>3, <5>4, <5>6, MarkingSound
      <4>4. CASE mem.mode = "undo"
        <5>1. mem' = [mem EXCEPT !.inst[t] = "none", !.at = t - 1, !.staged = "none"] /\ pc' = "undo"
          BY <4>2, <4>4 DEF SwapDone
        <5>2. mem'.inst[t] = "none" /\ mem'.mode = "undo" /\ ~Here(t)'
          BY <1>2, <4>4, <5>1 DEF MemType, Here, AtTarget, Replacing, Holding
        <5>3. RowIs(t, {"restore_prepared"}, "cand", "rest")' /\ fs'[t] = Alone(Restore)
          BY <3>0, <4>1, <4>2, <4>4 DEF RowIs
        <5>4. Quiet(t)'
          BY <5>3 DEF Quiet, AtRest, RowIs
        <5>5. env.cut = {}
          BY <1>0, <1>1, <2>0, <4>4 DEF InstalledIsTrue, Live, Replacing
        <5>6. fs'[t].target # Candidate /\ fs'[t] # Alone(Candidate) /\ row'[t].state = "restore_prepared"
          BY <5>3 DEF Alone, Files, Candidate, Restore, RowIs
        <5>7. InstalledIsTrue(t)'
          BY <1>0, <5>1, <5>2, <5>5, <5>6 DEF InstalledIsTrue, Replacing
        <5> QED BY <1>1, <1>4, <5>2, <5>4, <5>7, QuietSound
      <4>5. CASE mem.mode = "recover"
        <5>1. mem' = [mem EXCEPT !.staged = "none"] /\ pc' = "mark_restored"
          BY <4>2, <4>5 DEF SwapDone
        <5>2. mem'.mode = "recover" /\ mem'.at = t
          BY <1>2, <4>5, <5>1 DEF MemType
        <5>3. Marking(t)'
          BY <3>0, <4>1, <4>2, <4>5, <5>1 DEF Marking, RowIs
        <5>4. InstalledIsTrue(t)'
          BY <5>2 DEF InstalledIsTrue, Live
        <5> QED BY <1>1, <1>4, <5>1, <5>2, <5>3, <5>4, MarkingSound
      <4> QED BY <1>2, <4>3, <4>4, <4>5 DEF MemType
    <3> QED BY <2>4, <3>3, <3>4, <3>5, <3>6, <3>7, <3>8 DEF Swap, Stage, PersistCandidate, CandidateRefused
  <2> QED BY <1>0, <2>2, <2>3, <2>4 DEF Swap, MoveAside, CheckBackup, Install,
         CheckInstalled, DropBackup, FinalCheck
<1> QED BY <1>3, <1>4

(* An interrupted replacement is what its recovery was asked for.          *)
LEMMA AskedObjects ==
  ASSUME NEW t \in Targets, Resumed(t), Asked(t)
  PROVE  LET p == mem.probe IN
         /\ From(t) = [tok |-> From(t).tok, fp |-> p.before]
         /\ Into(t) = [tok |-> Into(t).tok, fp |-> p.applied]
         /\ p.before # p.applied /\ p.backup = From(t).tok /\ p.provenance = Into(t).tok
         /\ From(t).tok # "none" /\ Into(t).tok # "none"
  BY DEF Resumed, Asked, Torn, RowIs, From, Into, Original, Candidate, Restore

(* An interrupted replacement that was taken back.                         *)
LEMMA TornTakenBack ==
  ASSUME NEW t \in Targets, Torn(t), fs'[t] = Alone(From(t)), row'[t] = row[t]
  PROVE  /\ TakenBack(t)' /\ row'[t].state # "conflict"
         /\ ~RowIs(t, {"restore_prepared"}, "cand", "none")'
  BY DEF Torn, RowIs, From, TakenBack

(* What the applying process believes stays true inside a recovery.        *)
LEMMA InstalledHolds ==
  ASSUME NEW t \in Targets, InstalledIsTrue(t), Here(t), pc \in Holding, Here(t)', pc' \in Holding,
         mem'.mode = mem.mode, mem'.inst = mem.inst, env'.cut = env.cut, row'[t] = row[t],
         fs'[t].target = fs[t].target \/ mem.mode = "recover"
  PROVE  InstalledIsTrue(t)'
<1>0. /\ mem.at = t /\ pc \notin {"down", "refused", "stopped"} /\ pc' \notin {"down", "refused", "stopped"}
      /\ pc \notin Replacing /\ pc' \notin Replacing /\ mem'.at = t
  BY DEF Here, Holding, Replacing
<1>1. CASE mem.mode = "recover"
  BY <1>1 DEF InstalledIsTrue, Live
<1>2. CASE mem.mode # "recover"
  <2>1. Live /\ Live'
    BY <1>0, <1>2 DEF Live
  <2>2. env'.cut = {}
    BY <2>1 DEF InstalledIsTrue
  <2>3. mem'.inst[t] = IF fs'[t].target = Candidate THEN "cand" ELSE "none"
    BY <1>0, <1>2, <2>1 DEF InstalledIsTrue
  <2>4. mem'.mode = "undo" => /\ row'[t].state # "applied"
                              /\ row'[t].state = "prepared" => row'[t].applied = "none"
    BY <2>1 DEF InstalledIsTrue
  <2>5. ~(mem'.at < t)
    BY <1>0 DEF Targets
  <2> QED BY <1>0, <2>2, <2>3, <2>4, <2>5 DEF InstalledIsTrue
<1> QED BY <1>1, <1>2

(* A look at an untouched target is never mistaken.                        *)
LEMMA LookSound ==
  ASSUME NEW t \in Targets, TypeInv, t = mem.at, t \notin Unchanged, HoldLook, Asked(t), Here(t), pc = "look",
         InstalledIsTrue(t), Recovering(t), UNCHANGED <<fs, row, env>>
  PROVE  \/ \E p \in {"restored", "abandoned"} :
              /\ Held(p)
              /\ \/ p = "restored" /\ AtRest(t)
                 \/ /\ p = "restored" /\ t \in env.cut /\ TakenBack(t) /\ mem.caller = "probe"
                    /\ row[t].state # "conflict" /\ ~RowIs(t, {"restore_prepared"}, "cand", "none")
                 \/ /\ p = "abandoned" /\ t \in env.cut /\ mem.caller = "probe"
                    /\ RowIs(t, {"restore_prepared"}, "cand", "none") /\ fs[t] = Alone(Original)
         \/ /\ Resumed(t)
            /\ mem' = [mem EXCEPT !.probe.seen = fs[t].target.tok, !.probe.held = fs[t].backup.tok]
            /\ \/ pc' = "give_back" /\ fs[t] = Files(NoObject, From(t), NoObject)
               \/ pc' = "take_back" /\ fs[t] = Files(Into(t), From(t), NoObject)
<1> DEFINE p == mem.probe
<1> USE DEF Goto
<1>0. mem.caller \in {"undo", "probe"}
  BY DEF Recovering, TypeInv, Places, Holding
<1>0a. /\ mem.caller = "undo" => mem.mode = "undo"
       /\ mem.caller = "probe" => mem.mode = "recover"
  BY DEF TypeInv, Places, Holding
<1>1. CASE Resumed(t) /\ fs[t] = Files(NoObject, From(t), NoObject)
  <2>1. fs[t].backup = From(t) /\ fs[t].target = NoObject /\ From(t) # NoObject
    BY <1>1, AskedObjects DEF Files, NoObject
  <2>2. fs[t].backup.fp = p.before /\ p.backup = fs[t].backup.tok /\ p.backup # "none"
    BY <1>1, <2>1, AskedObjects
  <2>3. /\ mem' = [mem EXCEPT !.probe.seen = fs[t].target.tok, !.probe.held = fs[t].backup.tok]
        /\ pc' = "give_back"
    BY <2>1, <2>2 DEF HoldLook
  <2> QED BY <1>1, <2>3
<1>2. CASE Resumed(t) /\ fs[t] = Files(Into(t), From(t), NoObject)
  <2>1. fs[t].backup = From(t) /\ fs[t].target = Into(t) /\ From(t) # NoObject /\ Into(t) # NoObject
    BY <1>2, AskedObjects DEF Files, NoObject
  <2>2. /\ fs[t].backup.fp = p.before /\ p.backup = fs[t].backup.tok /\ p.backup # "none"
        /\ fs[t].target.fp = p.applied /\ p.applied # p.before /\ AcceptsApplied(fs[t].target.tok)
    BY <1>2, <2>1, AskedObjects DEF AcceptsApplied
  <2>3. /\ mem' = [mem EXCEPT !.probe.seen = fs[t].target.tok, !.probe.held = fs[t].backup.tok]
        /\ pc' = "take_back"
    BY <2>1, <2>2 DEF HoldLook
  <2> QED BY <1>2, <2>3
<1>3. CASE AtRest(t) \/ (t \in env.cut /\ TakenBack(t))
  <2>1. fs[t] = Alone(fs[t].target) /\ fs[t].target \in {Original, Candidate, Restore}
    BY <1>3 DEF AtRest, TakenBack, Alone, Files
  <2>2. fs[t].backup = NoObject
    BY <2>1 DEF Alone, Files
  <2>3. CASE fs[t].target.fp = p.before
    <3>1. Held("restored")
      BY <2>2, <2>3 DEF HoldLook
    <3>2. CASE AtRest(t)
      BY <3>1, <3>2
    <3>3. CASE t \in env.cut /\ TakenBack(t) /\ ~AtRest(t)
      <4>1. mem.caller = "probe"
        BY <1>0, <1>0a, <3>3 DEF InstalledIsTrue, Live
      <4>2. row[t].state \in {"prepared", "applied", "restore_prepared"}
        BY <4>1 DEF Asked
      <4>3. ~RowIs(t, {"restore_prepared"}, "cand", "none")
        BY <2>3, <3>3, <4>1 DEF Asked, TakenBack, RowIs, Alone, Files, Original
      <4> QED BY <3>1, <3>3, <4>1, <4>2, <4>3
    <3> QED BY <1>3, <3>2, <3>3
  <2>4. CASE fs[t].target.fp # p.before
    <3>1. fs[t].target.fp = p.applied
      BY <1>0, <2>1, <2>4 DEF Asked, Original, Candidate, Restore
    <3>2. Held(IF AcceptsApplied(fs[t].target.tok) THEN "restored" ELSE "abandoned")
      BY <2>2, <2>4, <3>1 DEF HoldLook
    <3>3. CASE mem.caller = "undo"
      <4>1. fs[t].target = Candidate /\ env.cut = {} /\ mem.inst[t] = "cand"
        BY <1>0a, <2>1, <2>4, <3>3 DEF Asked, Original, Candidate, Restore, InstalledIsTrue, Live, Replacing
      <4>2. AcceptsApplied(fs[t].target.tok)
        BY <3>3, <4>1 DEF AcceptsApplied, Asked, Candidate
      <4> QED BY <1>3, <3>2, <4>1, <4>2
    <3>4. CASE mem.caller = "probe" /\ row[t].state \in {"prepared", "applied"}
      <4>1. fs[t].target = Candidate
        BY <2>1, <2>4, <3>4 DEF Asked, Original, Candidate, Restore
      <4>2. AtRest(t) /\ row[t].applied = "cand"
        BY <1>3, <2>1, <3>4, <4>1 DEF AtRest, TakenBack, RowIs, Alone, Files, Original, Candidate, Restore
      <4>3. AcceptsApplied(fs[t].target.tok)
        BY <3>4, <4>1, <4>2 DEF AcceptsApplied, Asked, Candidate
      <4> QED BY <3>2, <4>2, <4>3
    <3>5. CASE mem.caller = "probe" /\ row[t].state = "restore_prepared"
      <4>0. p.provenance = row[t].restored /\ fs[t].target.fp = "before"
        BY <2>4, <3>1, <3>5 DEF Asked
      <4>1. CASE RowIs(t, {"restore_prepared"}, "cand", "rest")
        <5>1. AtRest(t) /\ fs[t].target = Restore
          BY <1>3, <3>5, <4>0, <4>1 DEF AtRest, TakenBack, RowIs, Alone, Files, Original, Candidate, Restore
        <5>2. AcceptsApplied(fs[t].target.tok)
          BY <4>0, <4>1, <5>1 DEF AcceptsApplied, RowIs, Restore
        <5> QED BY <3>2, <5>1, <5>2
      <4>2. CASE RowIs(t, {"restore_prepared"}, "cand", "none")
        <5>1. t \in env.cut /\ fs[t] = Alone(Original)
          BY <1>3, <3>5, <4>0, <4>2 DEF AtRest, TakenBack, RowIs, Alone, Files, Original, Candidate, Restore
        <5>2. ~AcceptsApplied(fs[t].target.tok)
          BY <4>0, <4>2 DEF AcceptsApplied, RowIs
        <5> QED BY <3>2, <3>5, <4>2, <5>1, <5>2
      <4> QED BY <1>3, <3>5, <4>1, <4>2 DEF AtRest, TakenBack, RowIs
    <3> QED BY <1>0, <3>3, <3>4, <3>5 DEF Asked
  <2> QED BY <2>3, <2>4
<1> QED BY <1>1, <1>2, <1>3 DEF Recovering

(* A recovery of an untouched target tells its caller the truth.           *)
LEMMA HoldSound ==
  ASSUME UntouchedInv, Hold, NEW t \in Targets, t = mem.at, t \notin env.touched
  PROVE  Sound(t)'
<1> USE DEF Goto
<1>0. pc \in Holding /\ UNCHANGED <<tx, env>> /\ TypeInv /\ Sound(t) /\ WriteAheadInv
  BY FilesAtOne DEF Hold, HoldCleanTemp, HoldLook, HoldDropBackup, HoldTakeBack, HoldCheckTaken, HoldGiveBack,
         HoldCheckGiven, SwapRecovered, Holding, UntouchedInv, WriteAheadInv
<1>1. Open /\ Open' /\ Here(t)
  BY <1>0 DEF UntouchedInv, Open, CommittedPlaces, Holding, Here, AtTarget
<1>2. /\ fs \in [Targets -> FileType] /\ row \in [Targets -> Row] /\ mem \in MemType
      /\ mem.probe \in ProbeType
  BY <1>0 DEF TypeInv, Shapes, MemType
<1>2a. tx.current < 20
  BY <1>0 DEF TypeInv, Shapes, TxType, Places, Holding
<1>b. ASSUME NEW p \in {"restored", "abandoned"}, Held(p)
      PROVE  /\ mem'.mode = mem.mode /\ mem'.inst = mem.inst /\ mem'.at = t /\ mem'.caller = mem.caller
             /\ mem'.phase = p /\ pc' = "held" /\ pc' \in Holding /\ Here(t)'
  BY <1>2, <1>b DEF Held, MemType, Here, AtTarget, Holding
<1>3. CASE t \in Unchanged
  <2>1. Idle(t)
    BY <1>0, <1>1, <1>3 DEF Sound
  <2>2. pc \in {"hold", "look", "held"} /\ mem.caller # "swap" /\ fs[t] = Alone(Original)
        /\ (pc \in {"hold", "look"} => mem.probe.before = "before")
    BY <1>0, <1>1, <2>1 DEF Idle
  <2>3. CASE HoldCleanTemp
    <3>1. fs'[t] = fs[t]
      BY <1>2, <2>2, <2>3 DEF HoldCleanTemp, DropTemp, Alone, Files, FileType
    <3>2. UNCHANGED <<row, mem>> /\ pc = "hold" /\ pc' = "look"
      BY <2>3 DEF HoldCleanTemp
    <3>3. Idle(t)'
      BY <1>1, <2>1, <3>1, <3>2 DEF Idle, RowIs, Here, Live, AtTarget, Replacing, Holding
    <3> QED BY <1>1, <1>3, <3>3 DEF Sound, Left, Open
  <2>4. CASE HoldLook
    <3>0. pc = "look" /\ UNCHANGED <<fs, row>>
      BY <2>4 DEF HoldLook
    <3>a. fs[t].backup = NoObject /\ fs[t].target.fp = mem.probe.before
      BY <2>2, <3>0 DEF Alone, Files, Original
    <3>1. Held("restored") /\ UNCHANGED <<fs, row>> /\ pc = "look"
      BY <2>4, <3>0, <3>a DEF HoldLook
    <3>2. /\ mem'.mode = mem.mode /\ mem'.inst = mem.inst /\ mem'.at = t /\ mem'.caller = mem.caller
          /\ mem'.phase = "restored" /\ pc' = "held"
      BY <1>b, <3>1
    <3>3. Idle(t)'
      BY <1>1, <2>1, <3>1, <3>2 DEF Idle, RowIs, Here, Live, AtTarget, Replacing, Holding
    <3> QED BY <1>1, <1>3, <3>3 DEF Sound, Left, Open
  <2> QED BY <2>2, <2>3, <2>4 DEF Hold, HoldDropBackup, HoldTakeBack, HoldCheckTaken, HoldGiveBack,
         HoldCheckGiven, SwapRecovered
<1>4. CASE t \notin Unchanged
  <2>0. Recovering(t) /\ InstalledIsTrue(t)
    BY <1>0, <1>1, <1>4 DEF Sound, Replaced
  <2>1. mem.caller \in {"undo", "probe"} /\ (mem.caller = "probe" => mem.mode = "recover")
    BY <1>0, <2>0 DEF Recovering, TypeInv, Places
  <2>2. ASSUME NEW p \in {"restored", "abandoned"}, Held(p), row'[t] = row[t],
               fs'[t].target = fs[t].target \/ mem.mode = "recover",
               Disposed(t)'
        PROVE  Sound(t)'
    <3>1. /\ mem'.mode = mem.mode /\ mem'.inst = mem.inst /\ mem'.at = t /\ mem'.caller = mem.caller
          /\ pc' = "held" /\ pc' \in Holding /\ Here(t)'
      BY <1>b, <2>2
    <3>2. Recovering(t)'
      BY <2>1, <2>2, <3>1 DEF Recovering
    <3>3. InstalledIsTrue(t)'
      BY <1>0, <1>1, <2>0, <2>2, <3>1, InstalledHolds
    <3> QED BY <1>1, <1>4, <3>1, <3>2, <3>3, HoldingSound
  <2>3. ASSUME row'[t] = row[t], mem'.mode = mem.mode, mem'.inst = mem.inst, mem'.at = t,
               fs'[t].target = fs[t].target \/ mem.mode = "recover", pc' \in Holding,
               Recovering(t)'
        PROVE  Sound(t)'
    <3>1. Here(t)'
      BY <2>3 DEF Here, AtTarget
    <3>2. InstalledIsTrue(t)'
      BY <1>0, <1>1, <2>0, <2>3, <3>1, InstalledHolds
    <3> QED BY <1>1, <1>4, <2>3, <3>1, <3>2, HoldingSound
  <2>4. CASE HoldCleanTemp
    <3>0. pc = "hold" /\ pc' = "look" /\ UNCHANGED <<row, mem>> /\ fs' = [fs EXCEPT ![t].temp = NoObject]
      BY <2>4 DEF HoldCleanTemp, DropTemp
    <3>1. fs'[t] = Files(fs[t].target, fs[t].backup, NoObject)
      BY <1>2, <3>0 DEF Files, FileType
    <3>2. \/ AtRest(t)'
          \/ t \in env'.cut /\ TakenBack(t)'
          \/ /\ Resumed(t)'
             /\ fs'[t] \in {Files(NoObject, From(t), NoObject)', Files(Into(t), From(t), NoObject)'}
      <4>1. CASE AtRest(t) \/ (t \in env.cut /\ TakenBack(t))
        <5>1. fs'[t] = fs[t]
          BY <3>1, <4>1 DEF AtRest, TakenBack, Alone, Files
        <5> QED BY <1>0, <3>0, <4>1, <5>1, SameFile
      <4>2. CASE Leftover(t)
        BY <3>0, <3>1, <4>2 DEF Leftover, AtRest, RowIs, Alone, Files
      <4>3. CASE t \in env.cut /\ Ahead(t) /\ Interrupted(t)
        <5>1. mem.caller = "probe"
          BY <1>0, <2>1, <3>0, <4>3 DEF Ahead, TypeInv, Places, Holding
        <5>2. Resumed(t)' /\ From(t)' = From(t) /\ Into(t)' = Into(t) /\ Torn(t)
          BY <1>0, <3>0, <4>3, <5>1 DEF Resumed, Interrupted, Torn, RowIs, From, Into
        <5>3. CASE fs[t] = Files(From(t), NoObject, Into(t))
          <6>1. fs'[t] = Alone(From(t))
            BY <3>1, <5>3 DEF Files, Alone
          <6> QED BY <1>0, <3>0, <4>3, <5>2, <6>1, TornTakenBack
        <5>4. CASE fs[t] \in {Files(NoObject, From(t), Into(t)), Files(NoObject, From(t), NoObject),
                              Files(Into(t), From(t), NoObject)}
          <6>1. fs'[t] \in {Files(NoObject, From(t), NoObject), Files(Into(t), From(t), NoObject)}
            BY <3>1, <5>4 DEF Files
          <6> QED BY <5>2, <6>1 DEF Files, NoObject
        <5>5. CASE row[t].restored = "rest" /\ fs[t] = Files(Candidate, NoObject, Restore2)
          <6>1. fs'[t] = Alone(From(t))
            BY <3>1, <5>5 DEF Files, Alone, From
          <6> QED BY <1>0, <3>0, <4>3, <5>2, <6>1, TornTakenBack
        <5> QED BY <4>3, <5>3, <5>4, <5>5 DEF Interrupted
      <4> QED BY <2>0, <3>0, <4>1, <4>2, <4>3 DEF Recovering, Quiet
    <3>3. Asked(t)'
      BY <2>0, <3>0 DEF Recovering, Asked
    <3>4. Recovering(t)'
      BY <2>1, <3>0, <3>2, <3>3 DEF Recovering
    <3>5. fs'[t].target = fs[t].target
      BY <3>1 DEF Files
    <3> QED BY <2>3, <3>0, <3>4, <3>5 DEF Holding
  <2>5. CASE HoldLook
    <3>0. pc = "look" /\ UNCHANGED <<fs, row, env>> /\ ~mem.probe.extra
      BY <1>0, <1>2a, <2>5 DEF HoldLook, WriteAheadInv, StagedNamed
    <3>1. Asked(t)
      BY <2>0, <3>0 DEF Recovering
    <3>2. ASSUME NEW p \in {"restored", "abandoned"}, Held(p),
                 \/ p = "restored" /\ AtRest(t)
                 \/ /\ p = "restored" /\ t \in env.cut /\ TakenBack(t) /\ mem.caller = "probe"
                    /\ row[t].state # "conflict" /\ ~RowIs(t, {"restore_prepared"}, "cand", "none")
                 \/ /\ p = "abandoned" /\ t \in env.cut /\ mem.caller = "probe"
                    /\ RowIs(t, {"restore_prepared"}, "cand", "none") /\ fs[t] = Alone(Original)
          PROVE  Sound(t)'
      <4>1. mem'.phase = p /\ mem'.caller = mem.caller
        BY <1>b, <3>2
      <4>2. Disposed(t)'
        BY <3>0, <3>2, <4>1, SameFile DEF Disposed, RowIs
      <4> QED BY <2>2, <3>0, <3>2, <4>2
    <3>3. ASSUME Resumed(t),
                 mem' = [mem EXCEPT !.probe.seen = fs[t].target.tok, !.probe.held = fs[t].backup.tok],
                 \/ pc' = "give_back" /\ fs[t] = Files(NoObject, From(t), NoObject)
                 \/ pc' = "take_back" /\ fs[t] = Files(Into(t), From(t), NoObject)
          PROVE  Sound(t)'
      <4>1. /\ mem'.mode = mem.mode /\ mem'.inst = mem.inst /\ mem'.at = t /\ mem'.caller = mem.caller
            /\ mem'.probe.seen = fs[t].target.tok /\ mem'.probe.held = fs[t].backup.tok
            /\ mem'.probe.extra = mem.probe.extra
            /\ mem'.probe.before = mem.probe.before /\ mem'.probe.applied = mem.probe.applied
            /\ mem'.probe.backup = mem.probe.backup /\ mem'.probe.provenance = mem.probe.provenance
        BY <1>2, <3>3 DEF MemType, ProbeType
      <4>2. Asked(t)'
        BY <3>0, <3>1, <4>1 DEF Asked
      <4>3. Resumed(t)' /\ From(t)' = From(t) /\ Into(t)' = Into(t)
        BY <3>0, <3>3, <4>1 DEF Resumed, Torn, RowIs, From, Into
      <4>4. fs[t].backup = From(t) /\ (pc' = "take_back" => fs[t].target = Into(t))
        BY <3>3 DEF Files
      <4>5. Recovering(t)'
        BY <2>1, <3>0, <3>3, <4>1, <4>2, <4>3, <4>4 DEF Recovering
      <4> QED BY <2>3, <3>0, <3>3, <4>1, <4>5 DEF Holding
    <3> QED BY <1>0, <1>1, <1>4, <2>0, <2>5, <3>0, <3>1, <3>2, <3>3, LookSound
  <2>6. CASE pc \in {"take_back", "taken", "give_back", "given"}
    <3>0. Resumed(t) /\ mem.probe.held = From(t).tok /\ Asked(t) /\ Torn(t) /\ t \in env.cut /\ mem.mode = "recover"
      BY <2>0, <2>1, <2>6 DEF Recovering, Resumed
    <3>1. /\ From(t) = [tok |-> From(t).tok, fp |-> mem.probe.before]
          /\ Into(t) = [tok |-> Into(t).tok, fp |-> mem.probe.applied]
          /\ From(t) # NoObject /\ Into(t) # NoObject
      BY <3>0, AskedObjects DEF NoObject
    <3>2. row'[t] = row[t] => From(t)' = From(t) /\ Into(t)' = Into(t) /\ (Torn(t)' <=> Torn(t))
      BY DEF From, Into, Torn, RowIs
    <3>3. ASSUME UNCHANGED <<row, mem>>, pc' \in {"taken", "given"},
                 pc' = "taken" => /\ mem.probe.seen = Into(t).tok
                                  /\ fs'[t] = Files(NoObject, From(t), Into(t)),
                 pc' = "given" => fs'[t] = Files(From(t), NoObject, IF mem.probe.extra THEN Into(t) ELSE NoObject)
          PROVE  Sound(t)'
      <4>1. Asked(t)' /\ Resumed(t)'
        BY <1>0, <3>0, <3>2, <3>3 DEF Asked, Resumed
      <4>2. Recovering(t)'
        BY <2>1, <3>0, <3>2, <3>3, <4>1 DEF Recovering
      <4> QED BY <2>3, <3>0, <3>3, <4>2 DEF Holding
    <3>4. CASE HoldTakeBack
      <4>1. fs[t] = Files(Into(t), From(t), NoObject) /\ mem.probe.seen = Into(t).tok
        BY <2>0, <3>4 DEF HoldTakeBack, Recovering
      <4>2. /\ fs' = [fs EXCEPT ![t].target = NoObject, ![t].temp = fs[t].target]
            /\ pc' = "taken" /\ UNCHANGED <<row, mem>>
        BY <3>1, <3>4, <4>1 DEF HoldTakeBack, Files
      <4>3. fs[t].target = Into(t)
        BY <4>1 DEF Files
      <4>4. fs' = [fs EXCEPT ![t].target = NoObject, ![t].temp = Into(t)]
        BY <4>2, <4>3
      <4>5. [fs[t] EXCEPT !.target = NoObject, !.temp = Into(t)] = Files(NoObject, From(t), Into(t))
        <5>1. [fs[t] EXCEPT !.target = NoObject] = Files(NoObject, From(t), NoObject)
          BY <4>1 DEF Files
        <5>2. [fs[t] EXCEPT !.target = NoObject, !.temp = Into(t)]
                = [Files(NoObject, From(t), NoObject) EXCEPT !.temp = Into(t)]
          BY <5>1
        <5>3. [Files(NoObject, From(t), NoObject) EXCEPT !.temp = Into(t)] = Files(NoObject, From(t), Into(t))
          BY DEF Files
        <5> QED BY <5>2, <5>3
      <4>6. fs'[t] = Files(NoObject, From(t), Into(t))
        BY <1>2, <4>4, <4>5
      <4> QED BY <3>3, <4>1, <4>2, <4>6
    <3>5. CASE HoldCheckTaken
      <4>1. fs[t] = Files(NoObject, From(t), Into(t)) /\ mem.probe.seen = Into(t).tok
        BY <2>0, <3>5 DEF HoldCheckTaken, Recovering
      <4>2. fs[t].temp = [tok |-> mem.probe.seen, fp |-> mem.probe.applied]
        BY <3>1, <4>1 DEF Files
      <4>3. mem' = [mem EXCEPT !.probe.extra = TRUE] /\ pc' = "give_back" /\ UNCHANGED <<fs, row>>
        BY <3>5, <4>2 DEF HoldCheckTaken
      <4>4. /\ mem'.mode = mem.mode /\ mem'.inst = mem.inst /\ mem'.at = t /\ mem'.caller = mem.caller
            /\ mem'.probe.held = mem.probe.held /\ mem'.probe.extra
            /\ mem'.probe.before = mem.probe.before /\ mem'.probe.applied = mem.probe.applied
            /\ mem'.probe.backup = mem.probe.backup /\ mem'.probe.provenance = mem.probe.provenance
        BY <1>2, <4>3 DEF MemType, ProbeType
      <4>5. Asked(t)' /\ Resumed(t)'
        BY <1>0, <3>0, <3>2, <4>3, <4>4 DEF Asked, Resumed
      <4>6. Recovering(t)'
        BY <2>1, <3>0, <3>2, <4>1, <4>3, <4>4, <4>5 DEF Recovering
      <4> QED BY <2>3, <3>0, <4>3, <4>4, <4>6 DEF Holding
    <3>6. CASE HoldGiveBack
      <4> DEFINE e == IF mem.probe.extra THEN Into(t) ELSE NoObject
      <4>1. fs[t] = Files(NoObject, From(t), e)
        BY <2>0, <3>6 DEF HoldGiveBack, Recovering
      <4> HIDE DEF e
      <4>2. fs[t].target = NoObject /\ fs[t].backup = From(t)
        BY <4>1 DEF Files
      <4>3. /\ fs' = [fs EXCEPT ![t].target = fs[t].backup, ![t].backup = NoObject]
            /\ pc' = "given" /\ UNCHANGED <<row, mem>>
        BY <3>0, <3>1, <3>6, <4>2 DEF HoldGiveBack
      <4>4. fs' = [fs EXCEPT ![t].target = From(t), ![t].backup = NoObject]
        BY <4>2, <4>3
      <4>5. [fs[t] EXCEPT !.target = From(t), !.backup = NoObject] = Files(From(t), NoObject, e)
        <5>1. [fs[t] EXCEPT !.target = From(t)] = Files(From(t), From(t), e)
          BY <4>1 DEF Files
        <5>2. [fs[t] EXCEPT !.target = From(t), !.backup = NoObject]
                = [Files(From(t), From(t), e) EXCEPT !.backup = NoObject]
          BY <5>1
        <5>3. [Files(From(t), From(t), e) EXCEPT !.backup = NoObject] = Files(From(t), NoObject, e)
          BY DEF Files
        <5> QED BY <5>2, <5>3
      <4>6. fs'[t] = Files(From(t), NoObject, e)
        BY <1>2, <4>4, <4>5
      <4> QED BY <3>3, <4>3, <4>6 DEF e
    <3>7. CASE HoldCheckGiven
      <4> DEFINE e == IF mem.probe.extra THEN Into(t) ELSE NoObject
      <4>1. fs[t] = Files(From(t), NoObject, e)
        BY <2>0, <3>7 DEF HoldCheckGiven, Recovering
      <4>2. fs[t].target = [tok |-> mem.probe.held, fp |-> mem.probe.before]
        BY <3>0, <3>1, <4>1 DEF Files
      <4>3. /\ IF mem.probe.extra THEN DropTemp(t) ELSE UNCHANGED fs
            /\ Held("restored") /\ UNCHANGED row
        BY <3>7, <4>2 DEF HoldCheckGiven
      <4>4. fs'[t] = Alone(From(t))
        <5>1. CASE mem.probe.extra
          BY <1>2, <4>1, <4>3, <5>1 DEF DropTemp, FileType, Files, Alone
        <5>2. CASE ~mem.probe.extra
          BY <4>1, <4>3, <5>2 DEF Files, Alone
        <5> QED BY <5>1, <5>2
      <4>5. /\ TakenBack(t)' /\ row'[t].state # "conflict"
            /\ ~RowIs(t, {"restore_prepared"}, "cand", "none")'
        BY <3>0, <4>3, <4>4, TornTakenBack
      <4>6. mem'.phase = "restored" /\ mem'.caller = "probe"
        BY <1>b, <3>0, <4>3 DEF Resumed
      <4>7. Disposed(t)'
        BY <1>0, <3>0, <4>5, <4>6 DEF Disposed
      <4> QED BY <2>2, <3>0, <4>3, <4>7
    <3> QED BY <2>6, <3>4, <3>5, <3>6, <3>7 DEF Hold, HoldCleanTemp, HoldLook, HoldDropBackup, SwapRecovered
  <2> QED BY <1>0, <2>0, <2>4, <2>5, <2>6 DEF Hold, Recovering, HoldCleanTemp, HoldLook, HoldDropBackup, HoldTakeBack, HoldCheckTaken, HoldGiveBack,
         HoldCheckGiven, SwapRecovered
<1> QED BY <1>3, <1>4

(* The compensation judges an untouched target rightly.                    *)
LEMMA UndoSound ==
  ASSUME UntouchedInv, UndoClassify, NEW t \in Targets, t = mem.at, t \notin env.touched
  PROVE  Sound(t)' /\ mem'.conflicts \subseteq mem.conflicts
<1>0. /\ pc = "held" /\ mem.caller = "undo" /\ UNCHANGED <<fs, tx, env>> /\ TypeInv /\ Sound(t)
  BY DEF UndoClassify, UntouchedInv, WriteAheadInv
<1>1. Open /\ Open' /\ Here(t) /\ Live /\ mem.mode = "undo" /\ pc \in Holding
  BY <1>0 DEF UntouchedInv, Open, CommittedPlaces, Holding, Here, AtTarget, TypeInv, Places, Live
<1>2. /\ fs \in [Targets -> FileType] /\ row \in [Targets -> Row] /\ mem \in MemType
  BY <1>0 DEF TypeInv, Shapes
<1>3. CASE mem.phase = "restored" /\ fs[t].target.fp = "before" /\ mem.inst[t] = "none"
  <2>1. PICK m \in MemType : /\ m = [mem EXCEPT !.inst[t] = "none"] /\ UNCHANGED row /\ pc' = "undo"
                             /\ mem' = [m EXCEPT !.at = t - 1, !.caller = "none", !.phase = "none"]
    BY <1>0, <1>3, UndoClassifyEnds
  <2>2. m.inst[t] = "none" /\ m.mode = "undo" /\ m.conflicts = mem.conflicts
    BY <1>1, <1>2, <2>1 DEF MemType
  <2>3. mem'.inst[t] = "none" /\ mem'.mode = "undo" /\ mem'.conflicts = mem.conflicts /\ ~Here(t)'
    BY <2>1, <2>2 DEF MemType, Here, AtTarget, Replacing, Holding
  <2>4. CASE t \in Unchanged
    <3>1. Idle(t)'
      BY <1>0, <1>1, <2>1, <2>3, <2>4 DEF Sound, Idle, RowIs
    <3> QED BY <1>1, <2>3, <2>4, <3>1 DEF Sound, Left, Open
  <2>5. CASE t \notin Unchanged
    <3>1. Disposed(t) /\ InstalledIsTrue(t)
      BY <1>0, <1>1, <2>5 DEF Sound, Replaced, Recovering
    <3>2. AtRest(t) /\ env.cut = {}
      BY <1>0, <1>1, <3>1 DEF Disposed, InstalledIsTrue
    <3>3. fs[t].target # Candidate /\ fs[t] # Alone(Candidate)
      BY <1>3 DEF Candidate, Alone, Files
    <3>4. Quiet(t)'
      BY <1>0, <2>1, <3>2, SameFile DEF Quiet
    <3>5. InstalledIsTrue(t)'
      BY <1>0, <1>1, <2>1, <2>3, <3>1, <3>2, <3>3 DEF InstalledIsTrue
    <3> QED BY <1>1, <2>3, <2>5, <3>4, <3>5, QuietSound
  <2> QED BY <2>4, <2>5
<1>4. CASE ~(mem.phase = "restored" /\ fs[t].target.fp = "before" /\ mem.inst[t] = "none")
  <2>0. t \notin Unchanged
    BY <1>0, <1>1, <1>4 DEF Sound, Idle, Alone, Files, Original
  <2>1. Disposed(t) /\ InstalledIsTrue(t)
    BY <1>0, <1>1, <2>0 DEF Sound, Replaced, Recovering
  <2>2. AtRest(t) /\ env.cut = {} /\ mem.phase = "restored"
    BY <1>0, <1>1, <2>1 DEF Disposed, InstalledIsTrue
  <2>3. mem.inst[t] = IF fs[t].target = Candidate THEN "cand" ELSE "none"
    BY <1>0, <1>1, <2>1 DEF InstalledIsTrue, Replacing
  <2>4. fs[t] = Alone(Candidate) /\ RowIs(t, {"prepared", "applied", "restore_prepared"}, "cand", "none")
    BY <1>4, <2>2, <2>3 DEF AtRest, Alone, Files, Original, Candidate, Restore, RowIs
  <2>5. RowIs(t, {"restore_prepared"}, "cand", "none")
    BY <1>1, <2>1, <2>4 DEF InstalledIsTrue, RowIs
  <2>6. fs[t].target = Candidate /\ mem.inst[t] = "cand" /\ fs[t].target.fp # "before"
        /\ fs[t].target = [tok |-> mem.inst[t], fp |-> AppliedFp(t)]
    BY <2>0, <2>3, <2>4 DEF Alone, Files, Candidate, AppliedFp
  <2>7. mem' = [mem EXCEPT !.caller = "none", !.phase = "none"] /\ pc' = "stage" /\ UNCHANGED row
    <3>1. mem.inst[t] # "none" /\ mem.phase # "error" /\ mem.phase # "abandoned"
      BY <2>2, <2>6
    <3> QED BY <1>0, <2>2, <2>6, <3>1 DEF UndoClassify, Goto
  <2>8. mem'.mode = "undo" /\ mem'.at = t /\ mem'.inst = mem.inst /\ mem'.conflicts = mem.conflicts
    BY <1>1, <1>2, <2>7 DEF MemType
  <2>9. Busy(t)'
    BY <1>0, <2>4, <2>5, <2>7, <2>8 DEF Busy, RowIs
  <2>10. ~(mem'.at < t) /\ Here(t)' /\ pc' \in Replacing
    BY <2>7, <2>8 DEF Targets, Here, AtTarget, Replacing
  <2>11. InstalledIsTrue(t)'
    BY <1>0, <2>2, <2>5, <2>6, <2>7, <2>8, <2>10 DEF InstalledIsTrue, RowIs
  <2> QED BY <1>1, <2>0, <2>8, <2>9, <2>10, <2>11, BusySound
<1> QED BY <1>3, <1>4

(* The recovery at startup judges it rightly, unless a death interrupted   *)
(* its replacement.                                                        *)
LEMMA ProbeSound ==
  ASSUME UntouchedInv, ProbeClassify, NEW t \in Targets, t = mem.at, t \notin env.touched
  PROVE  Sound(t)'
<1>0. /\ pc = "held" /\ mem.caller = "probe" /\ UNCHANGED <<fs, tx, env>> /\ TypeInv /\ Sound(t)
  BY DEF ProbeClassify, UntouchedInv, WriteAheadInv
<1>1. Open /\ Open' /\ Here(t) /\ mem.mode = "recover" /\ pc \in Holding
  BY <1>0 DEF UntouchedInv, Open, CommittedPlaces, Holding, Here, AtTarget, TypeInv, Places
<1>2. /\ fs \in [Targets -> FileType] /\ row \in [Targets -> Row] /\ mem \in MemType /\ row[t] \in Row
  BY <1>0 DEF TypeInv, Shapes
<1> DEFINE matches == mem.phase = "restored" /\ ProbeMatches(t)
           skips == mem' = [mem EXCEPT !.at = t - 1, !.caller = "none", !.phase = "none"] /\ pc' = "recover"
           goes == mem' = [mem EXCEPT !.caller = "none", !.phase = "none"]
           before == fs[t].target.fp = "before"
<1>3. \/ /\ skips /\ Transition(t, "conflict")
         /\ ~matches \/ (~before /\ Uninstalled(t))
      \/ skips /\ UNCHANGED row /\ row[t].state = "restored" /\ matches /\ before
      \/ /\ goes /\ pc' = "mark_restored" /\ UNCHANGED row /\ matches /\ before
         /\ row[t].state = "restore_prepared" \/ Uninstalled(t)
      \/ /\ goes /\ pc' = "mark_restored" /\ matches /\ before
         /\ row[t].state \in {"prepared", "applied"} /\ ~Uninstalled(t)
         /\ Transition(t, "restore_prepared")
      \/ /\ goes /\ pc' = "stage" /\ matches /\ ~before /\ ~Uninstalled(t)
         /\ MayTransition(t, "restore_prepared") /\ Transition(t, "restore_prepared")
      \/ pc' = "refused" /\ UNCHANGED row
  BY <1>0, ProbeClassifyEnds
<1>4. skips => mem'.mode = "recover" /\ ~Here(t)'
  BY <1>1, <1>2 DEF MemType, Here, AtTarget, Replacing, Holding
<1>5. goes => mem'.mode = "recover" /\ mem'.at = t
  BY <1>1, <1>2 DEF MemType
<1>6. pc' = "refused" => ~Here(t)' /\ ~Live'
  BY DEF Here, AtTarget, Replacing, Holding, Live
<1>7. (skips \/ goes \/ pc' = "refused") => ~Live'
  BY <1>4, <1>5, <1>6 DEF Live
<1>8. ASSUME NEW s \in WalStates, Transition(t, s)
      PROVE  row'[t].state = s /\ row'[t].applied = row[t].applied /\ row'[t].restored = row[t].restored
  BY <1>0, <1>8, TransitionRow
<1>9. CASE t \in Unchanged
  <2>1. Idle(t)
    BY <1>0, <1>1, <1>9 DEF Sound
  <2>2. mem.phase = "restored" /\ fs[t] = Alone(Original) /\ row[t].state # "none"
        /\ RowIs(t, {"prepared", "applied", "restore_prepared", "restored"}, "none", "none")
    BY <1>0, <1>1, <2>1 DEF Idle, RowIs
  <2>3. matches /\ before
    BY <2>2 DEF ProbeMatches, RowIs, Alone, Files, Original
  <2>4. CASE pc' = "refused" /\ UNCHANGED row
    BY <1>0, <1>1, <1>6, <1>9, <2>2, <2>4 DEF Sound, Left, Open, Idle, RowIs
  <2>5. CASE skips /\ UNCHANGED row
    BY <1>0, <1>1, <1>4, <1>7, <1>9, <2>2, <2>5 DEF Sound, Left, Open, Idle, RowIs
  <2>6. CASE goes /\ pc' = "mark_restored" /\ (UNCHANGED row \/ Transition(t, "restore_prepared"))
    <3>1. RowIs(t, {"prepared", "applied", "restore_prepared", "restored"}, "none", "none")'
      BY <1>8, <2>2, <2>6 DEF RowIs, WalStates
    <3>2. Idle(t)'
      BY <1>0, <1>5, <1>7, <2>2, <2>6, <3>1 DEF Idle, RowIs, Replacing, Holding
    <3> QED BY <1>1, <1>9, <3>2 DEF Sound, Left, Open
  <2> QED BY <1>3, <2>3, <2>4, <2>5, <2>6
<1>10. CASE t \notin Unchanged
  <2>1. Disposed(t)
    BY <1>0, <1>1, <1>10 DEF Sound, Replaced, Recovering
  <2>2. ASSUME ~Live', ~Here(t)', Quiet(t)' PROVE Sound(t)'
    <3>1. InstalledIsTrue(t)'
      BY <2>2 DEF InstalledIsTrue
    <3> QED BY <1>1, <1>10, <2>2, <3>1, QuietSound
  <2>3. ASSUME goes, pc' = "mark_restored", Marking(t)' PROVE Sound(t)'
    <3>1. InstalledIsTrue(t)'
      BY <1>7, <2>3 DEF InstalledIsTrue
    <3> QED BY <1>1, <1>5, <1>10, <2>3, <3>1, MarkingSound
  <2>4. ASSUME goes, pc' = "stage", Busy(t)' PROVE Sound(t)'
    <3>1. InstalledIsTrue(t)'
      BY <1>7, <2>4 DEF InstalledIsTrue
    <3> QED BY <1>1, <1>5, <1>10, <2>4, <3>1, BusySound DEF Replacing
  <2>5. CASE pc' = "refused" /\ UNCHANGED row
    <3>1. AtRest(t) \/ (t \in env.cut /\ TakenBack(t))
      BY <2>1 DEF Disposed, TakenBack, RowIs
    <3>2. Quiet(t)'
      BY <1>0, <2>5, <3>1, SameFile DEF Quiet
    <3> QED BY <1>6, <2>2, <2>5, <3>2
  <2> USE DEF RowIs, Alone, Files, Original, Candidate, Restore
  <2>6. CASE mem.phase = "restored" /\ RowIs(t, {"none", "prepared", "restored"}, "none", "none")
               /\ fs[t] = Alone(Original)
    <3>1. matches /\ before
      BY <2>6 DEF ProbeMatches
    <3>2. CASE skips /\ UNCHANGED row /\ row[t].state = "restored"
      <4>1. AtRest(t)'
        BY <1>0, <2>6, <3>2 DEF AtRest
      <4> QED BY <1>4, <1>7, <2>2, <3>2, <4>1 DEF Quiet
    <3>3. CASE goes /\ pc' = "mark_restored" /\ UNCHANGED row /\ row[t].state = "prepared"
      BY <1>0, <2>3, <2>6, <3>3 DEF Marking
    <3> QED BY <1>3, <2>5, <2>6, <3>1, <3>2, <3>3 DEF Uninstalled
  <2>7. CASE mem.phase = "restored" /\ RowIs(t, {"prepared", "applied", "restore_prepared"}, "cand", "none")
               /\ fs[t] = Alone(Candidate)
    <3>1. matches /\ ~before /\ ~Uninstalled(t)
      BY <1>10, <2>7 DEF ProbeMatches, Uninstalled
    <3>2. CASE goes /\ pc' = "stage" /\ Transition(t, "restore_prepared")
      <4>1. RowIs(t, {"restore_prepared"}, "cand", "none")'
        BY <1>8, <2>7, <3>2 DEF WalStates
      <4>2. Busy(t)'
        BY <1>0, <1>5, <2>7, <3>2, <4>1 DEF Busy
      <4> QED BY <2>4, <3>2, <4>2
    <3> QED BY <1>3, <2>5, <3>1, <3>2
  <2>8. CASE mem.phase = "restored" /\ RowIs(t, {"restore_prepared", "restored"}, "cand", "rest")
               /\ fs[t] = Alone(Restore)
    <3>1. matches /\ before /\ ~Uninstalled(t)
      BY <2>8 DEF ProbeMatches, Uninstalled
    <3>2. CASE skips /\ UNCHANGED row /\ row[t].state = "restored"
      <4>1. AtRest(t)'
        BY <1>0, <2>8, <3>2 DEF AtRest
      <4> QED BY <1>4, <1>7, <2>2, <3>2, <4>1 DEF Quiet
    <3>3. CASE goes /\ pc' = "mark_restored" /\ UNCHANGED row /\ row[t].state = "restore_prepared"
      BY <1>0, <2>3, <2>8, <3>3 DEF Marking
    <3> QED BY <1>3, <2>5, <2>8, <3>1, <3>2, <3>3
  <2>9. CASE mem.phase = "restored" /\ t \in env.cut /\ RowIs(t, {"prepared"}, "cand", "none")
               /\ fs[t] = Alone(Original)
    <3>1. matches /\ before /\ ~Uninstalled(t)
      BY <2>9 DEF ProbeMatches, Uninstalled
    <3>2. CASE goes /\ pc' = "mark_restored" /\ Transition(t, "restore_prepared")
      <4>1. RowIs(t, {"restore_prepared"}, "cand", "none")'
        BY <1>8, <2>9, <3>2 DEF WalStates
      <4>2. Marking(t)'
        BY <1>0, <2>9, <3>2, <4>1 DEF Marking
      <4> QED BY <2>3, <3>2, <4>2
    <3> QED BY <1>3, <2>5, <2>9, <3>1, <3>2
  <2>10. CASE mem.phase = "restored" /\ t \in env.cut /\ RowIs(t, {"restore_prepared"}, "cand", "rest")
                /\ fs[t] = Alone(Candidate)
    <3>1. matches /\ ~before /\ ~Uninstalled(t)
      BY <1>10, <2>10 DEF ProbeMatches, Uninstalled
    <3>2. CASE goes /\ pc' = "stage" /\ Transition(t, "restore_prepared")
      <4>1. RowIs(t, {"restore_prepared"}, "cand", "rest")'
        BY <1>8, <2>10, <3>2 DEF WalStates
      <4>2. Busy(t)'
        BY <1>0, <1>5, <2>10, <3>2, <4>1 DEF Busy
      <4> QED BY <2>4, <3>2, <4>2
    <3> QED BY <1>3, <2>5, <3>1, <3>2
  <2>11. CASE mem.phase = "abandoned" /\ t \in env.cut /\ RowIs(t, {"restore_prepared"}, "cand", "none")
                /\ fs[t] = Alone(Original)
    <3>1. ~matches
      BY <2>11
    <3>2. CASE skips /\ Transition(t, "conflict")
      <4>1. RowIs(t, {"conflict"}, "cand", "none")'
        BY <1>8, <2>11, <3>2 DEF WalStates
      <4>2. TakenBack(t)' /\ t \in env'.cut
        BY <1>0, <2>11, <4>1 DEF TakenBack
      <4> QED BY <1>4, <1>7, <2>2, <3>2, <4>2 DEF Quiet
    <3> QED BY <1>3, <2>5, <3>1, <3>2
  <2> QED BY <2>1, <2>6, <2>7, <2>8, <2>9, <2>10, <2>11 DEF Disposed, AtRest, TakenBack
<1> QED BY <1>9, <1>10

(* The rows of an untouched target are marked for what its file is.        *)
LEMMA MarkSound ==
  ASSUME UntouchedInv, MarkApplied \/ MarkRestored, NEW t \in Targets, t = mem.at, t \notin env.touched
  PROVE  Sound(t)'
<1> USE DEF Goto
<1>0. /\ pc \in {"mark", "mark_restored"} /\ UNCHANGED <<fs, tx, env>> /\ TypeInv /\ Sound(t)
  BY DEF MarkApplied, MarkRestored, UntouchedInv, WriteAheadInv
<1>1. Open /\ Open' /\ Here(t)
  BY <1>0 DEF UntouchedInv, Open, CommittedPlaces, Here, AtTarget
<1>2. /\ fs \in [Targets -> FileType] /\ row \in [Targets -> Row] /\ mem \in MemType /\ row[t] \in Row
  BY <1>0 DEF TypeInv, Shapes
<1>3. CASE MarkApplied
  <2>0. pc = "mark" /\ mem.mode = "apply" /\ Live
    BY <1>0, <1>3 DEF MarkApplied, TypeInv, Places, Live
  <2>1. row'[t].state = "applied" /\ row'[t].applied = mem.inst[t] /\ row'[t].restored = row[t].restored
    BY <1>2, <1>3 DEF MarkApplied, Row
  <2>2. mem'.mode = "apply" /\ mem'.inst = mem.inst /\ pc' = "step" /\ ~Here(t)'
    BY <1>2, <1>3, <2>0 DEF MarkApplied, MemType, Here, AtTarget, Replacing, Holding
  <2>3. CASE t \in Unchanged
    <3>1. Idle(t)'
      BY <1>0, <1>1, <2>0, <2>1, <2>2, <2>3 DEF Sound, Idle, RowIs
    <3> QED BY <1>1, <2>3, <3>1 DEF Sound, Left, Open
  <2>4. CASE t \notin Unchanged
    <3>1. RowIs(t, {"prepared"}, "cand", "none") /\ fs[t] = Alone(Candidate) /\ InstalledIsTrue(t)
      BY <1>0, <1>1, <2>0, <2>4 DEF Sound, Replaced, Marking
    <3>2. mem.inst[t] = "cand" /\ env.cut = {} /\ fs[t].target = Candidate
      BY <2>0, <3>1 DEF InstalledIsTrue, Alone, Files, Replacing
    <3>3. Quiet(t)'
      BY <1>0, <2>1, <3>1, <3>2 DEF Quiet, AtRest, RowIs
    <3>4. InstalledIsTrue(t)'
      BY <1>0, <2>2, <3>2 DEF InstalledIsTrue
    <3> QED BY <1>1, <2>2, <2>4, <3>3, <3>4, QuietSound
  <2> QED BY <2>3, <2>4
<1>4. CASE MarkRestored
  <2>0. pc = "mark_restored" /\ mem.mode = "recover"
    BY <1>0, <1>4 DEF MarkRestored, TypeInv, Places
  <2>1. CASE MayTransition(t, "restored")
    <3>1. /\ Transition(t, "restored") /\ mem' = [mem EXCEPT !.at = t - 1] /\ pc' = "recover"
      BY <1>4, <2>1 DEF MarkRestored
    <3>2. row'[t].state = "restored" /\ row'[t].applied = row[t].applied /\ row'[t].restored = row[t].restored
      BY <1>0, <3>1, TransitionRow DEF WalStates
    <3>3. ~Here(t)' /\ ~Live'
      BY <1>2, <2>0, <3>1 DEF MemType, Here, AtTarget, Replacing, Holding, Live
    <3>4. CASE t \in Unchanged
      <4>1. Idle(t)'
        BY <1>0, <1>1, <3>2, <3>3, <3>4 DEF Sound, Idle, RowIs
      <4> QED BY <1>1, <3>4, <4>1 DEF Sound, Left, Open
    <3>5. CASE t \notin Unchanged
      <4>1. Marking(t)
        BY <1>0, <1>1, <3>5 DEF Sound, Replaced
      <4>2. AtRest(t)'
        BY <1>0, <2>0, <2>1, <3>2, <3>5, <4>1 DEF Marking, AtRest, RowIs, MayTransition
      <4>3. Quiet(t)' /\ InstalledIsTrue(t)'
        BY <3>3, <4>2 DEF Quiet, InstalledIsTrue
      <4> QED BY <1>1, <3>3, <3>5, <4>3, QuietSound
    <3> QED BY <3>4, <3>5
  <2>2. CASE ~MayTransition(t, "restored")
    <3>1. pc' = "refused" /\ UNCHANGED row
      BY <1>4, <2>2 DEF MarkRestored, Refuse
    <3>2. ~Here(t)' /\ ~Live'
      BY <3>1 DEF Here, AtTarget, Replacing, Holding, Live
    <3>3. CASE t \in Unchanged
      <4>1. Idle(t)'
        BY <1>0, <1>1, <3>1, <3>2, <3>3 DEF Sound, Idle, RowIs
      <4> QED BY <1>1, <3>3, <4>1 DEF Sound, Left, Open
    <3>4. CASE t \notin Unchanged
      <4>1. Marking(t)
        BY <1>0, <1>1, <3>4 DEF Sound, Replaced
      <4>2. AtRest(t)' \/ (t \in env'.cut /\ TakenBack(t)')
        BY <1>0, <2>0, <3>1, <4>1 DEF Marking, AtRest, TakenBack, RowIs
      <4>3. Quiet(t)' /\ InstalledIsTrue(t)'
        BY <3>2, <4>2 DEF Quiet, InstalledIsTrue
      <4> QED BY <1>1, <3>2, <3>4, <4>3, QuietSound
    <3> QED BY <3>3, <3>4
  <2> QED BY <2>1, <2>2
<1> QED BY <1>3, <1>4

-----------------------------------------------------------------------------
(* Where the daemon works on no target, or begins to. *)

(* A row of an untouched target is no conflict, unless a death interrupted *)
(* a replacement.                                                          *)
LEMMA SoundRow ==
  ASSUME NEW t \in Targets, Sound(t)', Open', row'[t].state = "conflict"
  PROVE  t \in env'.cut
<1>1. t \notin Unchanged
  BY DEF Sound, Idle, RowIs
<1>2. Replaced(t)'
  BY <1>1 DEF Sound
<1>3. Quiet(t)' => t \in env'.cut
  BY DEF Quiet, AtRest, Leftover, RowIs
<1>4. CASE Here(t)'
  <2>1. CASE pc' \in Replacing
    BY <1>2, <1>4, <2>1 DEF Replaced, Busy, Replacing, Torn, RowIs
  <2>2. CASE pc' \in {"mark", "mark_restored"}
    BY <1>2, <1>4, <2>2 DEF Replaced, Marking, RowIs
  <2>3. CASE pc' \in Holding
    <3>1. Recovering(t)'
      BY <1>2, <1>4, <2>3 DEF Replaced
    <3>2. pc' = "held" => t \in env'.cut
      BY <3>1 DEF Recovering, Disposed, AtRest, RowIs
    <3>3. pc' = "look" => t \in env'.cut
      BY <3>1 DEF Recovering, Resumed, AtRest, RowIs
    <3>4. pc' \in {"take_back", "taken", "give_back", "given"} => t \in env'.cut
      BY <3>1 DEF Recovering, Resumed
    <3>5. pc' = "hold" => t \in env'.cut
      BY <1>3, <3>1 DEF Recovering
    <3>6. pc' # "drop_held"
      BY <3>1 DEF Recovering
    <3> QED BY <2>3, <3>2, <3>3, <3>4, <3>5, <3>6 DEF Holding
  <2> QED BY <1>4, <2>1, <2>2, <2>3 DEF Here, AtTarget
<1>5. CASE ~Here(t)'
  BY <1>2, <1>3, <1>5 DEF Replaced
<1> QED BY <1>4, <1>5

(* What another program does elsewhere does not matter.                    *)
LEMMA SoundStays ==
  ASSUME NEW t \in Targets, Sound(t), UNCHANGED <<row, tx, pc, mem>>, fs'[t] = fs[t], env'.cut = env.cut
  PROVE  Sound(t)'
<1>1. Left(t)' /\ (Open' <=> Open)
  BY DEF Sound, Left, Open
<1>2. CASE ~Open
  BY <1>1, <1>2 DEF Sound
<1>3. CASE Open /\ t \in Unchanged
  BY <1>1, <1>3 DEF Sound, Idle, RowIs, Here, Live
<1>4. CASE Open /\ t \notin Unchanged
  <2>1. Replaced(t)
    BY <1>4 DEF Sound
  <2>2. Quiet(t) => Quiet(t)'
    BY SameFile DEF Quiet, Ahead
  <2>3. From(t)' = From(t) /\ Into(t)' = Into(t) /\ (Torn(t)' <=> Torn(t))
    BY DEF From, Into, Torn, RowIs
  <2>4. Busy(t) => Busy(t)'
    BY <2>3 DEF Busy, RowIs
  <2>5. Marking(t) => Marking(t)'
    BY DEF Marking, RowIs
  <2>6. (Asked(t) => Asked(t)') /\ (Resumed(t) => Resumed(t)') /\ (Disposed(t) => Disposed(t)')
    BY <2>3, SameFile DEF Asked, Resumed, Disposed, RowIs
  <2>7. Recovering(t) => Recovering(t)'
    BY <2>2, <2>3, <2>6, SameFile DEF Recovering
  <2>8. InstalledIsTrue(t) => InstalledIsTrue(t)'
    BY DEF InstalledIsTrue, Live, Here
  <2> QED BY <1>1, <1>4, <2>1, <2>2, <2>4, <2>5, <2>7, <2>8 DEF Sound, Replaced, Here
<1> QED BY <1>2, <1>3, <1>4

(* A step between the targets.                                             *)
LEMMA Passes ==
  ASSUME NEW t \in Targets, Sound(t), Open, Open', fs'[t] = fs[t], row'[t] = row[t], UNCHANGED env,
         pc \notin AtTarget \union {"recover", "down", "refused", "stopped"}, pc' \notin AtTarget,
         UNCHANGED mem \/ pc' \in {"stopped", "refused"}
  PROVE  Sound(t)'
<1>1. ~Here(t) /\ ~Here(t)' /\ ~Ahead(t)
  BY DEF Here, Ahead
<1>2. Live' => Live /\ UNCHANGED mem
  BY DEF Live
<1> QED BY <1>1, <1>2, Elsewhere

(* The first target of a step is about to be replaced.                     *)
LEMMA PrepareSound ==
  ASSUME UntouchedInv, PrepareMutation, Open, NEW t \in Targets, t \notin env.touched
  PROVE  Sound(t)'
<1> USE DEF Goto
<1>0. /\ pc = "step" /\ UNCHANGED <<fs, tx, env>> /\ TypeInv /\ Sound(t) /\ Open' /\ pc' = "stage"
  BY DEF PrepareMutation, UntouchedInv, WriteAheadInv, Open
<1>1. /\ row \in [Targets -> Row] /\ mem \in MemType /\ row[t] \in Row
  BY <1>0 DEF TypeInv, Shapes
<1>2. tx.current < 20 /\ mem.staged = "none" /\ RowsNamed /\ mem.mode = "apply"
  BY <1>0 DEF UntouchedInv, WriteAheadInv, TypeInv, Places, Shapes, TxType, StagedNamed
<1> DEFINE u == Min(Unwritten)
<1>3. u \in Unwritten
  BY FirstTarget DEF PrepareMutation, Unwritten
<1>4. u \in Targets /\ row[u] = NoRow /\ row' = [row EXCEPT ![u].state = "prepared"] /\ mem' = [mem EXCEPT !.at = u]
  BY <1>2, <1>3 DEF PrepareMutation, Unwritten, RowsNamed
<1> HIDE DEF u
<1>5. /\ mem'.at = u /\ mem'.mode = "apply" /\ mem'.inst = mem.inst /\ mem'.staged = "none"
  BY <1>1, <1>2, <1>4 DEF MemType
<1>6. Live /\ Live' /\ ~Here(t) /\ ~Ahead(t)
  BY <1>0, <1>2, <1>5 DEF Live, Here, Ahead, AtTarget, Replacing, Holding
<1>7. CASE t # u
  <2>1. row'[t] = row[t] /\ ~Here(t)'
    BY <1>1, <1>4, <1>5, <1>7 DEF Here
  <2> QED BY <1>0, <1>5, <1>6, <2>1, Elsewhere
<1>8. CASE t = u
  <2>1. row'[t].state = "prepared" /\ row'[t].applied = "none" /\ row'[t].restored = "none"
    BY <1>1, <1>4, <1>8 DEF NoRow
  <2>2. Here(t)'
    BY <1>0, <1>5, <1>8 DEF Here, AtTarget, Replacing
  <2>3. CASE t \in Unchanged
    <3>1. Idle(t)'
      BY <1>0, <1>5, <1>6, <2>1, <2>3 DEF Sound, Idle, RowIs, Replacing, Holding
    <3> QED BY <1>0, <2>3, <3>1 DEF Sound, Left, Open
  <2>4. CASE t \notin Unchanged
    <3>1. Quiet(t) /\ InstalledIsTrue(t)
      BY <1>0, <1>6, <2>4 DEF Sound, Replaced
    <3>2. env.cut = {}
      BY <1>6, <3>1 DEF InstalledIsTrue
    <3>3. fs[t] = Alone(Original)
      BY <1>4, <1>6, <1>8, <3>1, <3>2 DEF Quiet, AtRest, RowIs, NoRow
    <3>4. mem.inst[t] = "none"
      BY <1>6, <3>1, <3>3 DEF InstalledIsTrue, Alone, Files, Original, Candidate
    <3>5. Busy(t)'
      BY <1>0, <1>5, <2>1, <3>3 DEF Busy, RowIs
    <3>6. InstalledIsTrue(t)'
      BY <1>0, <1>5, <2>2, <3>2, <3>4 DEF InstalledIsTrue, Replacing
    <3> QED BY <1>0, <1>5, <1>8, <2>4, <3>5, <3>6, BusySound DEF Replacing
  <2> QED BY <2>3, <2>4
<1> QED BY <1>7, <1>8

(* A failed step leaves the replacement it had begun.                      *)
LEMMA FailSound ==
  ASSUME UntouchedInv, StepFails, Open, NEW t \in Targets, t \notin env.touched
  PROVE  Sound(t)'
<1>0. UNCHANGED <<fs, row, tx, mem, env>> /\ TypeInv /\ Sound(t) /\ Open' /\ pc' = "compensate"
  BY DEF StepFails, UntouchedInv, WriteAheadInv, Open, Goto
<1>1. CASE pc = "step"
  BY <1>0, <1>1, Passes DEF AtTarget, Replacing, Holding
<1>2. CASE pc = "stage" /\ mem.mode = "apply"
  <2>1. Live /\ Live' /\ ~Here(t)' /\ ~Ahead(t)
    BY <1>0, <1>2 DEF Live, Here, Ahead, AtTarget, Replacing, Holding
  <2>2. CASE t # mem.at
    BY <1>0, <1>2, <2>1, <2>2, Elsewhere DEF Here
  <2>3. CASE t = mem.at /\ t \in Unchanged
    <3>1. Idle(t)'
      BY <1>0, <1>2, <2>1, <2>3 DEF Sound, Idle, RowIs
    <3> QED BY <1>0, <2>3, <3>1 DEF Sound, Left, Open
  <2>4. CASE t = mem.at /\ t \notin Unchanged
    <3>1. Here(t) /\ pc \in Replacing
      BY <1>2, <2>4 DEF Here, AtTarget, Replacing
    <3>2. Busy(t) /\ InstalledIsTrue(t)
      BY <1>0, <2>4, <3>1 DEF Sound, Replaced
    <3>3. RowIs(t, {"prepared"}, "none", "none") /\ fs[t] = Alone(Original)
      BY <1>2, <3>2 DEF Busy
    <3>4. env.cut = {} /\ mem.inst[t] = "none"
      BY <1>2, <2>1, <3>1, <3>2 DEF InstalledIsTrue
    <3>5. Quiet(t)'
      BY <1>0, <3>3 DEF Quiet, AtRest, RowIs
    <3>6. InstalledIsTrue(t)'
      BY <1>0, <1>2, <2>1, <3>3, <3>4 DEF InstalledIsTrue, Alone, Files, Original, Candidate
    <3> QED BY <1>0, <2>1, <2>4, <3>5, <3>6, QuietSound
  <2> QED BY <2>2, <2>3, <2>4
<1> QED BY <1>1, <1>2 DEF StepFails

(* A commit finds every untouched target replaced.                         *)
LEMMA CommitSound ==
  ASSUME UntouchedInv, Commit, Open, NEW t \in Targets, t \notin env.touched
  PROVE  Sound(t)'
<1>0. pc = "step" /\ UNCHANGED <<fs, row, mem, env>> /\ TypeInv /\ Sound(t) /\ row[t].state = "applied"
  BY DEF Commit, UntouchedInv, WriteAheadInv
<1>1. tx'.status = "committed"
  BY <1>0 DEF Commit, TypeInv, Shapes, TxType
<1>2. Live /\ ~Here(t) /\ ~Ahead(t)
  BY <1>0 DEF Live, Here, Ahead, AtTarget, Replacing, Holding, TypeInv, Places
<1>3. CASE t \in Unchanged
  BY <1>0, <1>1, <1>3 DEF Sound, Idle, Left, Open
<1>4. CASE t \notin Unchanged
  <2>1. Quiet(t) /\ env.cut = {}
    BY <1>0, <1>2, <1>4 DEF Sound, Replaced, InstalledIsTrue
  <2>2. fs[t] = Alone(Candidate)
    BY <1>0, <1>2, <2>1 DEF Quiet, AtRest, RowIs
  <2> QED BY <1>0, <1>1, <1>4, <2>2 DEF Sound, Left, Open
<1> QED BY <1>3, <1>4

(* The forward steps.                                                      *)
LEMMA ForwardSound ==
  ASSUME UntouchedInv, Forward, Open, NEW t \in Targets, t \notin env.touched
  PROVE  Sound(t)'
<1>0. TypeInv /\ Sound(t) /\ tx \in TxType
  BY DEF UntouchedInv, WriteAheadInv, TypeInv, Shapes
<1>1. CASE EnterStep \/ SandboxStep \/ Preflight \/ TargetsWritten
  <2>1. /\ UNCHANGED <<fs, row, mem, env>> /\ tx'.status = tx.status
        /\ pc \in {"idle", "step"} /\ pc' \in {"idle", "step", "compensate"}
    BY <1>0, <1>1 DEF EnterStep, SandboxStep, Preflight, TargetsWritten, CompleteStep, Goto, TxType
  <2>2. Open'
    BY <2>1 DEF Open
  <2> QED BY <1>0, <2>1, <2>2, Passes DEF AtTarget, Replacing, Holding
<1>2. CASE PrepareMutation
  BY <1>2, PrepareSound
<1>3. CASE StepFails
  BY <1>3, FailSound
<1>4. CASE MarkApplied
  <2>1. OneTarget /\ pc \in AtTarget
    BY <1>0, <1>4, JudgeAtOne
  <2>2. CASE t = mem.at
    BY <1>4, <2>2, MarkSound
  <2> QED BY <1>0, <2>1, <2>2, OthersSound
<1>5. CASE Commit
  BY <1>5, CommitSound
<1>6. CASE EnterCommittedCleanup
  <2>1. UNCHANGED <<fs, row, mem, env>> /\ tx'.status = tx.status /\ pc = "committed" /\ pc' = "cleanup"
    BY <1>0, <1>6 DEF EnterCommittedCleanup, Goto, TxType
  <2> QED BY <1>0, <2>1, Passes DEF Open, AtTarget, Replacing, Holding
<1>7. CASE FinishCleanup
  BY <1>7 DEF FinishCleanup, Open
<1> QED BY <1>1, <1>2, <1>3, <1>4, <1>5, <1>6, <1>7 DEF Forward

-----------------------------------------------------------------------------
(* The compensation and the recovery. *)

(* The row of a replaced target is prepared for its restoration.           *)
LEMMA PrepareUndoSound ==
  ASSUME UntouchedInv, PrepareUndo, Open, NEW t \in Targets, t \notin env.touched
  PROVE  Sound(t)'
<1>0. /\ pc = "prepare_undo" /\ UNCHANGED <<fs, tx, pc, mem, env>> /\ TypeInv /\ Sound(t) /\ Open'
      /\ mem.mode = "apply"
  BY DEF PrepareUndo, UntouchedInv, WriteAheadInv, Open
<1> DEFINE u == Min(ToPrepare)
<1>1. u \in Targets /\ u \in ToPrepare /\ Transition(u, "restore_prepared")
  BY FirstTarget DEF PrepareUndo, ToPrepare
<1> HIDE DEF u
<1>2. \A v \in Targets \ {u} : row'[v] = row[v]
  BY <1>0, <1>1, TransitionTypes DEF WalStates
<1>3. CASE t # u
  BY <1>0, <1>2, <1>3, Passes DEF AtTarget, Replacing, Holding
<1>4. CASE t = u
  <2>1. row'[t].state = "restore_prepared" /\ row'[t].applied = row[t].applied /\ row'[t].restored = row[t].restored
    BY <1>0, <1>1, <1>4, TransitionRow DEF WalStates
  <2>2. Live /\ Live' /\ ~Here(t) /\ ~Here(t)' /\ ~Ahead(t)
    BY <1>0 DEF Live, Here, Ahead, AtTarget, Replacing, Holding
  <2>3. CASE t \in Unchanged
    <3>1. Idle(t)'
      BY <1>0, <2>1, <2>2, <2>3 DEF Sound, Idle, RowIs
    <3> QED BY <1>0, <2>3, <3>1 DEF Sound, Left, Open
  <2>4. CASE t \notin Unchanged
    <3>1. Quiet(t) /\ InstalledIsTrue(t) /\ env.cut = {}
      BY <1>0, <2>2, <2>4 DEF Sound, Replaced, InstalledIsTrue
    <3>2. AtRest(t)
      BY <2>2, <3>1 DEF Quiet
    <3>3. row[t].applied = "cand" /\ row[t].restored = "none" /\ fs[t] = Alone(Candidate)
      BY <1>1, <1>4, <3>2 DEF AtRest, RowIs, ToPrepare
    <3>4. Quiet(t)'
      BY <1>0, <2>1, <3>3 DEF Quiet, AtRest, RowIs
    <3>5. InstalledIsTrue(t)'
      BY <1>0, <2>2, <3>1 DEF InstalledIsTrue
    <3> QED BY <1>0, <2>2, <2>4, <3>4, <3>5, QuietSound
  <2> QED BY <2>3, <2>4
<1> QED BY <1>3, <1>4

(* The compensation begins with the last target.                           *)
LEMMA UndoPreparedSound ==
  ASSUME UntouchedInv, UndoPrepared, Open, NEW t \in Targets, t \notin env.touched
  PROVE  Sound(t)'
<1>0. /\ pc = "prepare_undo" /\ UNCHANGED <<fs, row, tx, env>> /\ TypeInv /\ Sound(t) /\ Open'
      /\ mem.mode = "apply" /\ pc' = "undo" /\ t \notin ToPrepare /\ mem \in MemType
  BY DEF UndoPrepared, UntouchedInv, WriteAheadInv, Open, Goto, TypeInv, Shapes
<1>1. mem'.mode = "undo" /\ mem'.at = N /\ mem'.inst = mem.inst /\ ~(N < t)
  BY <1>0, PlanAssumption DEF UndoPrepared, MemType, Targets
<1>2. Live /\ Live' /\ ~Here(t) /\ ~Here(t)' /\ ~Ahead(t)
  BY <1>0, <1>1 DEF Live, Here, Ahead, AtTarget, Replacing, Holding
<1>3. row[t].state # "applied" /\ (row[t].state = "prepared" => row[t].applied = "none")
  BY <1>0 DEF ToPrepare
<1>4. CASE t \in Unchanged
  <2>1. Idle(t)'
    BY <1>0, <1>1, <1>2, <1>3, <1>4 DEF Sound, Idle, RowIs
  <2> QED BY <1>0, <1>4, <2>1 DEF Sound, Left, Open
<1>5. CASE t \notin Unchanged
  <2>1. Quiet(t) /\ InstalledIsTrue(t) /\ env.cut = {}
    BY <1>0, <1>2, <1>5 DEF Sound, Replaced, InstalledIsTrue
  <2>2. AtRest(t)
    BY <1>2, <2>1 DEF Quiet
  <2>3. Quiet(t)'
    BY <1>0, <2>2, SameFile DEF Quiet
  <2>4. InstalledIsTrue(t)'
    BY <1>0, <1>1, <1>2, <1>3, <2>1 DEF InstalledIsTrue
  <2> QED BY <1>0, <1>2, <1>5, <2>3, <2>4, QuietSound
<1> QED BY <1>4, <1>5

(* It calls the recovery of each.                                          *)
LEMMA UndoTargetSound ==
  ASSUME UntouchedInv, UndoTarget, Open, NEW t \in Targets, t \notin env.touched
  PROVE  Sound(t)'
<1>0. /\ pc = "undo" /\ UNCHANGED <<fs, row, tx, env>> /\ TypeInv /\ Sound(t) /\ Open'
      /\ mem.mode = "undo" /\ pc' = "hold" /\ mem \in MemType
  BY DEF UndoTarget, UntouchedInv, WriteAheadInv, Open, Goto, CallRecover, TypeInv, Shapes, Places
<1>1. /\ mem'.mode = "undo" /\ mem'.at = mem.at /\ mem'.inst = mem.inst /\ mem'.caller = "undo"
      /\ mem'.probe.before = "before" /\ mem'.probe.applied = AppliedFp(mem.at)
      /\ mem'.probe.backup = "none" /\ mem'.probe.provenance = mem.inst[mem.at]
  BY <1>0 DEF UndoTarget, CallRecover, MemType, NoProbe
<1>2. Live /\ Live' /\ ~Here(t) /\ ~Ahead(t)
  BY <1>0, <1>1 DEF Live, Here, Ahead, AtTarget, Replacing, Holding
<1>3. CASE t # mem.at
  BY <1>0, <1>1, <1>2, <1>3, Elsewhere DEF Here
<1>4. CASE t = mem.at /\ t \in Unchanged
  <2>1. Idle(t)'
    BY <1>0, <1>1, <1>2, <1>4 DEF Sound, Idle, RowIs, Replacing, Holding
  <2> QED BY <1>0, <1>4, <2>1 DEF Sound, Left, Open
<1>5. CASE t = mem.at /\ t \notin Unchanged
  <2>1. Quiet(t) /\ InstalledIsTrue(t) /\ env.cut = {}
    BY <1>0, <1>2, <1>5 DEF Sound, Replaced, InstalledIsTrue
  <2>2. AtRest(t)
    BY <1>2, <2>1 DEF Quiet
  <2>3. Quiet(t)'
    BY <1>0, <2>2, SameFile DEF Quiet
  <2>4. Asked(t)'
    BY <1>1, <1>5 DEF Asked, AppliedFp
  <2>5. Recovering(t)'
    BY <1>0, <1>1, <2>3, <2>4 DEF Recovering
  <2>6. InstalledIsTrue(t)'
    BY <1>0, <1>1, <1>2, <2>1 DEF InstalledIsTrue, Replacing
  <2> QED BY <1>0, <1>1, <1>5, <2>5, <2>6, HoldingSound DEF Holding
<1> QED BY <1>3, <1>4, <1>5

(* The rows of the targets it restored are finished.                       *)
LEMMA FinishRowSound ==
  ASSUME UntouchedInv, FinishRow, Open, NEW t \in Targets, t \notin env.touched
  PROVE  Sound(t)'
<1>0. /\ pc = "finish_rows" /\ UNCHANGED <<fs, tx, env>> /\ TypeInv /\ Sound(t) /\ Open'
      /\ mem.mode = "undo" /\ mem.at = 0 /\ mem.conflicts \subseteq env.touched
  BY DEF FinishRow, UntouchedInv, WriteAheadInv, Open
<1> DEFINE u == Min(Unfinished)
           next == IF u \in mem.conflicts THEN "conflict" ELSE "restored"
<1>1. u \in Targets /\ u \in Unfinished
  BY FirstTarget DEF FinishRow, Unfinished
<1>2. \/ MayTransition(u, next) /\ Transition(u, next) /\ UNCHANGED <<pc, mem>>
      \/ pc' = "stopped" /\ UNCHANGED row
  BY DEF FinishRow, StopUndo, Goto
<1> HIDE DEF u
<1>3. CASE pc' = "stopped" /\ UNCHANGED row
  BY <1>0, <1>3, Passes DEF AtTarget, Replacing, Holding
<1>4. CASE MayTransition(u, next) /\ Transition(u, next) /\ UNCHANGED <<pc, mem>>
  <2>1. next \in WalStates /\ \A v \in Targets \ {u} : row'[v] = row[v]
    BY <1>0, <1>1, <1>4, TransitionTypes DEF WalStates
  <2>2. CASE t # u
    BY <1>0, <1>4, <2>1, <2>2, Passes DEF AtTarget, Replacing, Holding
  <2>3. CASE t = u
    <3>0. next = "restored"
      BY <1>0, <2>3
    <3>1. row'[t].state = "restored" /\ row'[t].applied = row[t].applied /\ row'[t].restored = row[t].restored
      BY <1>0, <1>1, <1>4, <2>1, <2>3, <3>0, TransitionRow
    <3>2. Live /\ Live' /\ ~Here(t) /\ ~Here(t)' /\ ~Ahead(t) /\ mem.at < t
      BY <1>0, <1>4 DEF Live, Here, Ahead, AtTarget, Replacing, Holding, Targets
    <3>3. CASE t \in Unchanged
      <4>1. Idle(t)'
        BY <1>0, <1>4, <3>1, <3>2, <3>3 DEF Sound, Idle, RowIs
      <4> QED BY <1>0, <3>3, <4>1 DEF Sound, Left, Open
    <3>4. CASE t \notin Unchanged
      <4>1. Quiet(t) /\ InstalledIsTrue(t) /\ env.cut = {}
        BY <1>0, <3>2, <3>4 DEF Sound, Replaced, InstalledIsTrue
      <4>2. AtRest(t) /\ fs[t] # Alone(Candidate)
        BY <1>0, <3>2, <4>1 DEF Quiet, InstalledIsTrue
      <4>3. AtRest(t)'
        BY <1>0, <3>1, <4>2 DEF AtRest, RowIs
      <4>4. InstalledIsTrue(t)'
        BY <1>0, <1>4, <3>1, <3>2, <4>1 DEF InstalledIsTrue
      <4> QED BY <1>0, <3>2, <3>4, <4>3, <4>4, QuietSound DEF Quiet
    <3> QED BY <3>3, <3>4
  <2> QED BY <2>2, <2>3
<1> QED BY <1>2, <1>3, <1>4

(* What the outcome of a compensation or a recovery says.                  *)
LEMMA FinishedSound ==
  ASSUME UntouchedInv, FinishCompensated \/ FinishRecovery, Open, NEW t \in Targets, t \notin env.touched
  PROVE  Sound(t)'
<1>0. /\ pc \in {"finish_rows", "recover"} /\ UNCHANGED <<fs, row, mem, env>> /\ TypeInv /\ Sound(t)
      /\ mem.at = 0 /\ t \notin Unfinished
  BY DEF FinishCompensated, FinishRecovery, UntouchedInv, WriteAheadInv
<1>1. tx'.status \in {"restored", "conflict"}
  BY <1>0 DEF FinishCompensated, FinishRecovery, RecoveryFinished, TypeInv, Shapes, TxType
<1>2. ~Here(t) /\ ~Ahead(t) /\ row[t].state \in {"none", "restored", "conflict"}
  BY <1>0 DEF Here, Ahead, AtTarget, Replacing, Holding, Unfinished, Targets
<1>3. CASE t \in Unchanged
  BY <1>0, <1>1, <1>3 DEF Sound, Idle, Left, Open
<1>4. CASE t \notin Unchanged
  <2>1. Quiet(t)
    BY <1>0, <1>2, <1>4 DEF Sound, Replaced
  <2>2. fs[t] \in {Alone(Original), Alone(Restore)}
    BY <1>2, <2>1 DEF Quiet, AtRest, TakenBack, RowIs
  <2> QED BY <1>0, <1>1, <2>2 DEF Sound, Left, Open
<1> QED BY <1>3, <1>4

(* The compensation.                                                       *)
LEMMA CompensateSound ==
  ASSUME UntouchedInv, Compensate, Open, NEW t \in Targets, t \notin env.touched
  PROVE  Sound(t)'
<1>0. TypeInv /\ Sound(t) /\ tx \in TxType
  BY DEF UntouchedInv, WriteAheadInv, TypeInv, Shapes
<1>1. CASE EnterCompensation \/ BeginUndo
  <2>1. /\ UNCHANGED <<fs, row, mem, env>> /\ tx'.status \in {tx.status, "restoring"}
        /\ pc \in {"compensate", "begin_undo"} /\ pc' \in {"begin_undo", "prepare_undo"}
    BY <1>0, <1>1 DEF EnterCompensation, BeginUndo, Goto, TxType
  <2>2. Open'
    BY <2>1 DEF Open
  <2> QED BY <1>0, <2>1, <2>2, Passes DEF AtTarget, Replacing, Holding
<1>2. CASE PrepareUndo
  BY <1>2, PrepareUndoSound
<1>3. CASE UndoPrepared
  BY <1>3, UndoPreparedSound
<1>4. CASE UndoTarget
  BY <1>4, UndoTargetSound
<1>5. CASE UndoClassify
  <2>1. OneTarget /\ pc \in AtTarget
    BY <1>0, <1>5, JudgeAtOne
  <2>2. CASE t = mem.at
    BY <1>5, <2>2, UndoSound
  <2> QED BY <1>0, <2>1, <2>2, OthersSound
<1>6. CASE UndoFinished
  <2>1. /\ UNCHANGED <<fs, row, tx, env>> /\ pc = "undo"
        /\ pc' = "stopped" \/ (pc' = "finish_rows" /\ UNCHANGED mem)
    BY <1>6 DEF UndoFinished, StopUndo, Goto
  <2> QED BY <1>0, <2>1, Passes DEF Open, AtTarget, Replacing, Holding
<1>7. CASE FinishRow
  BY <1>7, FinishRowSound
<1>8. CASE FinishCompensated
  BY <1>8, FinishedSound
<1> QED BY <1>1, <1>2, <1>3, <1>4, <1>5, <1>6, <1>7, <1>8 DEF Compensate

(* The recovery takes up a row.                                            *)
LEMMA ProbeRowSound ==
  ASSUME UntouchedInv, ProbeRow, Open, NEW t \in Targets, t \notin env.touched
  PROVE  Sound(t)'
<1> USE DEF Goto
<1>0. /\ pc = "recover" /\ UNCHANGED <<fs, row, tx, env>> /\ TypeInv /\ Sound(t) /\ Open'
      /\ mem.mode = "recover" /\ mem \in MemType /\ mem.at > 0
  BY DEF ProbeRow, UntouchedInv, WriteAheadInv, Open, TypeInv, Shapes, Places
<1>1. mem.at \in Nat /\ t \in Nat /\ ~Here(t)
  BY <1>0 DEF MemType, Targets, Here, AtTarget, Replacing, Holding
<1> DEFINE passes == /\ row[mem.at].state \in {"none", "conflict"} /\ pc' = "recover"
                     /\ mem' = [mem EXCEPT !.at = mem.at - 1]
           knows == /\ row[mem.at].state \in {"restored", "restore_prepared"} /\ pc' = "held"
                    /\ row[mem.at].state = "restored" \/ mem.at \in Unchanged
                    /\ mem' = [mem EXCEPT !.phase = "restored", !.caller = "probe"]
           redo == /\ row[mem.at].state = "restore_prepared" /\ mem.at \notin Unchanged
                   /\ CallRecover(AppliedFp(mem.at), "before", row[mem.at].applied, row[mem.at].restored, "probe")
           asks == /\ row[mem.at].state \in {"prepared", "applied"}
                   /\ CallRecover("before", AppliedFp(mem.at), "orig",
                                  IF row[mem.at].state = "applied" /\ mem.at \in Unchanged
                                  THEN "orig" ELSE row[mem.at].applied, "probe")
<1>2. passes \/ knows \/ redo \/ asks
  BY <1>0 DEF ProbeRow
<1>3. ASSUME redo \/ asks
      PROVE  /\ pc' = "hold" /\ mem'.mode = "recover" /\ mem'.at = mem.at /\ mem'.caller = "probe"
             /\ redo => /\ mem'.probe.before = AppliedFp(mem.at) /\ mem'.probe.applied = "before"
                        /\ mem'.probe.backup = row[mem.at].applied
                        /\ mem'.probe.provenance = row[mem.at].restored
             /\ asks => /\ mem'.probe.before = "before" /\ mem'.probe.applied = AppliedFp(mem.at)
                        /\ mem'.probe.backup = "orig"
                        /\ mem.at \notin Unchanged => mem'.probe.provenance = row[mem.at].applied
  <2>1. CASE redo
    BY <1>0, <2>1 DEF CallRecover, MemType, NoProbe
  <2>2. CASE asks
    BY <1>0, <2>2 DEF CallRecover, MemType, NoProbe
  <2> QED BY <1>3, <2>1, <2>2
<1>4. passes => mem'.mode = "recover" /\ mem'.at = mem.at - 1
  BY <1>0 DEF MemType
<1>5. knows => mem'.mode = "recover" /\ mem'.at = mem.at /\ mem'.phase = "restored" /\ mem'.caller = "probe"
  BY <1>0 DEF MemType
<1>6. /\ ~Live' /\ mem'.mode = "recover"
      /\ passes => pc' = "recover" /\ mem'.at = mem.at - 1
      /\ ~passes => pc' \in {"hold", "held"} /\ mem'.at = mem.at
  BY <1>2, <1>3, <1>4, <1>5 DEF Live
<1> HIDE DEF passes
<1>7. CASE t # mem.at
  <2>1. ~Here(t)'
    BY <1>6, <1>7 DEF Here, AtTarget, Replacing, Holding
  <2>2. Ahead(t) => Ahead(t)'
    BY <1>0, <1>1, <1>6, <1>7 DEF Ahead, AtTarget, Replacing, Holding
  <2> QED BY <1>0, <1>1, <1>6, <2>1, <2>2, Elsewhere
<1>8. CASE t = mem.at /\ t \in Unchanged
  <2>1. Idle(t)
    BY <1>0, <1>8 DEF Sound
  <2>2. CASE passes
    <3>1. ~Here(t)'
      BY <1>6, <2>2 DEF Here, AtTarget, Replacing, Holding
    <3> QED BY <1>0, <1>6, <1>8, <2>1, <3>1 DEF Sound, Left, Open, Idle, RowIs
  <2>3. CASE knows
    <3>1. Idle(t)'
      BY <1>0, <1>5, <1>6, <1>8, <2>1, <2>3 DEF Idle, RowIs, Replacing, Holding
    <3> QED BY <1>0, <1>8, <3>1 DEF Sound, Left, Open
  <2>4. CASE asks
    <3>1. Idle(t)'
      BY <1>0, <1>3, <1>6, <1>8, <2>1, <2>4 DEF Idle, RowIs, Replacing, Holding
    <3> QED BY <1>0, <1>8, <3>1 DEF Sound, Left, Open
  <2> QED BY <1>2, <1>8, <2>2, <2>3, <2>4
<1>9. CASE t = mem.at /\ t \notin Unchanged
  <2>1. Quiet(t) /\ InstalledIsTrue(t)'
    BY <1>0, <1>1, <1>6, <1>9 DEF Sound, Replaced, InstalledIsTrue
  <2>2. CASE passes
    <3>1. ~Here(t)'
      BY <1>6, <2>2 DEF Here, AtTarget, Replacing, Holding
    <3>2. AtRest(t) \/ (t \in env.cut /\ TakenBack(t))
      BY <1>9, <2>1, <2>2 DEF passes, Quiet, Leftover, Interrupted, Torn, RowIs
    <3>3. Quiet(t)'
      BY <1>0, <3>2, SameFile DEF Quiet
    <3> QED BY <1>0, <1>9, <2>1, <3>1, <3>3, QuietSound
  <2>3. CASE knows
    <3>1. AtRest(t)
      BY <1>9, <2>1, <2>3 DEF Quiet, Leftover, Interrupted, TakenBack, Torn, RowIs
    <3>2. Disposed(t)'
      BY <1>0, <1>5, <2>3, <3>1, SameFile DEF Disposed
    <3>3. Recovering(t)'
      BY <1>5, <2>3, <3>2 DEF Recovering
    <3> QED BY <1>0, <1>5, <1>9, <2>1, <2>3, <3>3, HoldingSound DEF Holding
  <2>4. CASE redo \/ asks
    <3>1. Ahead(t)' /\ pc' = "hold" /\ mem'.at = t
      BY <1>3, <1>9, <2>4 DEF Ahead, AtTarget, Holding
    <3>2. Quiet(t)'
      BY <1>0, <2>1, <3>1, SameFile DEF Quiet
    <3>3. Asked(t)'
      BY <1>0, <1>3, <1>9, <2>4 DEF Asked, AppliedFp
    <3>4. Recovering(t)'
      BY <1>3, <2>4, <3>1, <3>2, <3>3 DEF Recovering
    <3> QED BY <1>0, <1>9, <2>1, <3>1, <3>4, HoldingSound DEF Holding
  <2> QED BY <1>2, <2>2, <2>3, <2>4
<1> QED BY <1>7, <1>8, <1>9

(* A restart begins with the last row.                                     *)
LEMMA RestartSound ==
  ASSUME UntouchedInv, Restart, Open, NEW t \in Targets, t \notin env.touched
  PROVE  Sound(t)'
<1>0. /\ pc \in {"down", "refused", "stopped"} /\ UNCHANGED <<fs, row, env>> /\ TypeInv /\ Sound(t)
      /\ tx' = [tx EXCEPT !.status = "restoring"] /\ pc' = "recover"
      /\ mem' = [Fresh EXCEPT !.mode = "recover", !.at = N]
  BY DEF Restart, UntouchedInv, WriteAheadInv, Open, Goto
<1>1. Open' /\ mem'.mode = "recover" /\ mem'.at = N
  BY <1>0, FreshTypes DEF TypeInv, Shapes, TxType, Open, MemType
<1>2. N > t \/ N = t
  BY PlanAssumption DEF Targets
<1>3. ~Here(t) /\ ~Here(t)' /\ Ahead(t)' /\ ~Live'
  BY <1>0, <1>1, <1>2 DEF Here, Ahead, Live, AtTarget, Replacing, Holding
<1> QED BY <1>0, <1>1, <1>3, Elsewhere

(* The recovery.                                                           *)
LEMMA RecoverSound ==
  ASSUME UntouchedInv, Recover, Open, NEW t \in Targets, t \notin env.touched
  PROVE  Sound(t)'
<1>0. TypeInv /\ Sound(t) /\ tx \in TxType
  BY DEF UntouchedInv, WriteAheadInv, TypeInv, Shapes
<1>1. CASE Restart
  BY <1>1, RestartSound
<1>2. CASE ProbeRow
  BY <1>2, ProbeRowSound
<1>3. CASE ProbeClassify \/ MarkRestored
  <2>1. OneTarget /\ pc \in AtTarget
    BY <1>0, <1>3, JudgeAtOne
  <2>2. CASE t = mem.at
    BY <1>3, <2>2, ProbeSound, MarkSound
  <2> QED BY <1>0, <2>1, <2>2, OthersSound
<1>4. CASE FinishRecovery
  BY <1>4, FinishedSound
<1>5. CASE CleanSandbox
  <2>1. /\ UNCHANGED <<fs, row, env>> /\ pc = "sandbox" /\ tx'.status = tx.status
        /\ pc' = "refused" \/ (pc' = "cleanup" /\ UNCHANGED mem)
    BY <1>0, <1>5 DEF CleanSandbox, Refuse, Goto, TxType
  <2> QED BY <1>0, <2>1, Passes DEF Open, AtTarget, Replacing, Holding
<1> QED BY <1>1, <1>2, <1>3, <1>4, <1>5 DEF Recover

-----------------------------------------------------------------------------
(* Other programs, deaths, and what comes after the outcome. *)

(* A death leaves an untouched target as a recovery can find it.           *)
LEMMA CrashSound ==
  ASSUME UntouchedInv, Crash, Open, NEW t \in Targets, t \notin env.touched
  PROVE  Sound(t)'
<1>0. /\ UNCHANGED <<fs, row, tx>> /\ pc' = "down" /\ TypeInv /\ Sound(t) /\ Open'
      /\ env' = [env EXCEPT !.crashes = @ + 1, !.cut = @ \union Cut]
  BY DEF Crash, UntouchedInv, WriteAheadInv, Open, Goto
<1>1. env'.cut = env.cut \union Cut /\ (Here(t) /\ pc \in InSwap => t \in env'.cut)
  BY <1>0 DEF TypeInv, Shapes, EnvType, Cut, Here
<1>2. ~Here(t)' /\ Ahead(t)' /\ ~Live'
  BY <1>0 DEF Here, Ahead, Live, AtTarget, Replacing, Holding
<1>3. CASE t \in Unchanged
  <2>1. Idle(t)'
    BY <1>0, <1>2, <1>3 DEF Sound, Idle, RowIs
  <2> QED BY <1>0, <1>3, <2>1 DEF Sound, Left, Open
<1>4. CASE t \notin Unchanged
  <2>0. Replaced(t)
    BY <1>0, <1>4 DEF Sound
  <2>1. \/ AtRest(t) \/ Leftover(t)
        \/ t \in env'.cut /\ (TakenBack(t) \/ Interrupted(t))
    <3>1. Quiet(t) => AtRest(t) \/ Leftover(t) \/ (t \in env.cut /\ (TakenBack(t) \/ Interrupted(t)))
      BY DEF Quiet
    <3>2. CASE Here(t) /\ pc \in Replacing
      <4>0. Busy(t)
        BY <2>0, <3>2 DEF Replaced
      <4>1. CASE pc = "stage"
        BY <1>1, <4>0, <4>1 DEF Busy, AtRest, TakenBack, RowIs
      <4>2. CASE pc = "persist"
        BY <1>1, <4>0, <4>2 DEF Busy, Leftover, Interrupted, Torn, RowIs
      <4>3. CASE pc = "final"
        BY <4>0, <4>3 DEF Busy, AtRest, RowIs, Torn, Into
      <4>4. CASE pc \in InSwap
        BY <1>1, <3>2, <4>0, <4>4 DEF Busy, InSwap, Interrupted
      <4> QED BY <3>2, <4>1, <4>2, <4>3, <4>4 DEF Replacing, InSwap
    <3>3. CASE Here(t) /\ pc \in {"mark", "mark_restored"}
      BY <1>1, <2>0, <3>3 DEF Replaced, Marking, AtRest, TakenBack, RowIs
    <3>4. CASE Here(t) /\ pc \in Holding
      <4>0. Recovering(t)
        BY <2>0, <3>4 DEF Replaced
      <4>1. pc # "drop_held"
        BY <4>0 DEF Recovering
      <4>2. pc \in {"take_back", "taken", "give_back", "given"} =>
              t \in env.cut /\ (TakenBack(t) \/ Interrupted(t))
        <5> SUFFICES ASSUME pc \in {"take_back", "taken", "give_back", "given"}
                     PROVE  t \in env.cut /\ (TakenBack(t) \/ Interrupted(t))
          OBVIOUS
        <5>0. t \in env.cut /\ Torn(t)
          BY <4>0 DEF Recovering, Resumed
        <5>1. CASE pc \in {"take_back", "taken", "give_back"}
          BY <4>0, <5>0, <5>1 DEF Recovering, Interrupted
        <5>2. CASE pc = "given" /\ mem.probe.extra
          BY <4>0, <5>0, <5>2 DEF Recovering, Interrupted
        <5>3. CASE pc = "given" /\ ~mem.probe.extra
          <6>1. fs[t] = Alone(From(t))
            BY <4>0, <5>3 DEF Recovering, Alone
          <6> QED BY <5>0, <6>1 DEF Torn, RowIs, From, TakenBack
        <5> QED BY <5>1, <5>2, <5>3
      <4>3. pc = "look" => AtRest(t) \/ (t \in env.cut /\ (TakenBack(t) \/ Interrupted(t)))
        BY <4>0 DEF Recovering, Resumed, Interrupted
      <4>4. pc = "held" => AtRest(t) \/ (t \in env.cut /\ TakenBack(t))
        BY <4>0 DEF Recovering, Disposed, TakenBack, RowIs
      <4>5. pc = "hold" => Quiet(t)
        BY <4>0 DEF Recovering
      <4> QED BY <1>1, <3>1, <3>4, <4>1, <4>2, <4>3, <4>4, <4>5 DEF Holding
    <3>5. CASE ~Here(t)
      BY <1>1, <2>0, <3>1, <3>5 DEF Replaced
    <3> QED BY <3>2, <3>3, <3>4, <3>5 DEF Here, AtTarget
  <2>2. Quiet(t)'
    BY <1>0, <1>2, <2>1, SameFile DEF Quiet
  <2>3. InstalledIsTrue(t)'
    BY <1>2 DEF InstalledIsTrue
  <2> QED BY <1>0, <1>2, <1>4, <2>2, <2>3, QuietSound
<1> QED BY <1>3, <1>4

(* What a change by another program leaves.                                *)
LEMMA ForeignLeaves ==
  ASSUME TypeInv, Foreign
  PROVE  /\ UNCHANGED <<row, tx, pc, mem>> /\ env'.cut = env.cut /\ env.touched \subseteq env'.touched
         /\ \A t \in Targets \ env'.touched : fs'[t] = fs[t]
<1>1. PICK u \in Targets : ForeignChange(u)
  BY DEF Foreign
<1>2. PICK new : fs' = [fs EXCEPT ![u].target = new]
  BY <1>1 DEF ForeignChange
<1>3. env'.touched = env.touched \union {u} /\ env'.cut = env.cut /\ UNCHANGED <<row, tx, pc, mem>>
  BY <1>1 DEF ForeignChange, TypeInv, Shapes, EnvType
<1>4. \A t \in Targets \ {u} : fs'[t] = fs[t]
  BY <1>2 DEF TypeInv, Shapes
<1> QED BY <1>3, <1>4

(* After the outcome only the cleanup is ahead.                            *)
LEMMA ClosedStep ==
  ASSUME UntouchedInv, Next, ~Open
  PROVE  /\ tx'.status = tx.status /\ ~Open' /\ pc' \in CommittedPlaces
         /\ UNCHANGED row \/ \A t \in Targets : row'[t] = NoRow
         /\ UNCHANGED <<fs, env>> \/ Foreign \/ Crash
         /\ UNCHANGED mem \/ mem'.conflicts = {}
<1>0. TypeInv /\ tx \in TxType /\ pc \in CommittedPlaces
  BY DEF UntouchedInv, WriteAheadInv, TypeInv, Shapes
<1>1. Fresh.conflicts = {} /\ [Fresh EXCEPT !.mode = "recover", !.at = N].conflicts = {}
  BY DEF Fresh
<1>2. SUFFICES /\ tx'.status = tx.status /\ pc' \in CommittedPlaces
               /\ UNCHANGED row \/ \A t \in Targets : row'[t] = NoRow
               /\ UNCHANGED <<fs, env>> \/ Foreign \/ Crash
               /\ UNCHANGED mem \/ mem'.conflicts = {}
  BY DEF Open
<1>3. CASE Foreign
  BY <1>0, <1>3, ForeignLeaves
<1>4. CASE Forward
  <2>1. CASE EnterCommittedCleanup
    BY <1>0, <2>1 DEF EnterCommittedCleanup, Goto, TxType, CommittedPlaces
  <2>2. CASE FinishCleanup
    BY <1>0, <2>2 DEF FinishCleanup, Goto, TxType, CommittedPlaces
  <2> QED BY <1>0, <1>4, <2>1, <2>2 DEF Forward, EnterStep, SandboxStep, Preflight, PrepareMutation,
          TargetsWritten, StepFails, MarkApplied, Commit, CommittedPlaces
<1>5. ~Swap /\ ~Hold
  <2>1. pc \notin AtTarget
    BY <1>0 DEF CommittedPlaces, AtTarget, Replacing, Holding
  <2> QED BY <1>0, <2>1, FilesAtOne
<1>6. ~Compensate
  BY <1>0 DEF Compensate, EnterCompensation, BeginUndo, PrepareUndo, UndoPrepared, UndoTarget, UndoClassify,
       UndoFinished, FinishRow, FinishCompensated, CommittedPlaces
<1>7. CASE Recover
  <2>1. CASE Restart
    BY <1>0, <1>1, <2>1 DEF Restart, Open, Goto, CommittedPlaces
  <2>2. CASE CleanSandbox
    BY <1>0, <1>1, <2>2 DEF CleanSandbox, Refuse, Goto, TxType, CommittedPlaces
  <2> QED BY <1>0, <1>7, <2>1, <2>2 DEF Recover, ProbeRow, ProbeClassify, MarkRestored, FinishRecovery,
          CommittedPlaces
<1>8. CASE Crash
  BY <1>1, <1>8 DEF Crash, Goto, CommittedPlaces
<1>9. CASE Done
  BY <1>0, <1>9 DEF Done, vars
<1> QED BY <1>3, <1>4, <1>5, <1>6, <1>7, <1>8, <1>9 DEF Next, Daemon

(* What holds of the untouched targets is inductive.                       *)
LEMMA SoundStep ==
  ASSUME UntouchedInv, Next, NEW t \in Targets, t \notin env'.touched
  PROVE  Sound(t)'
<1>0. TypeInv /\ env \in EnvType
  BY DEF UntouchedInv, WriteAheadInv, TypeInv, Shapes
<1>1. CASE Foreign
  <2>1. t \notin env.touched /\ Sound(t)
    BY <1>0, <1>1, ForeignLeaves DEF UntouchedInv
  <2> QED BY <1>0, <1>1, <2>1, ForeignLeaves, SoundStays
<1>2. CASE ~Open /\ ~Foreign
  <2>1. /\ tx'.status = tx.status /\ ~Open'
        /\ UNCHANGED <<fs, env>> \/ Crash
    BY <1>2, ClosedStep
  <2>2. UNCHANGED fs /\ env'.touched = env.touched
    BY <1>0, <2>1 DEF Crash, EnvType
  <2>3. Left(t)
    BY <2>2 DEF UntouchedInv, Sound
  <2> QED BY <2>1, <2>2, <2>3 DEF Sound, Left
<1>3. CASE Open /\ Crash
  <2>1. env'.touched = env.touched
    BY <1>0, <1>3 DEF Crash, EnvType
  <2> QED BY <1>3, <2>1, CrashSound
<1>4. CASE Open /\ (Forward \/ Swap \/ Hold \/ Compensate \/ Recover)
  <2>1. UNCHANGED env
    <3>1. CASE Swap \/ Hold
      BY <1>0, <3>1, FilesAtOne
    <3>2. CASE Forward
      BY <3>2 DEF Forward, EnterStep, SandboxStep, Preflight, PrepareMutation, TargetsWritten,
         StepFails, MarkApplied, Commit, EnterCommittedCleanup, FinishCleanup
    <3>3. CASE Compensate
      BY <3>3 DEF Compensate, EnterCompensation, BeginUndo, PrepareUndo, UndoPrepared, UndoTarget,
         UndoClassify, UndoFinished, FinishRow, FinishCompensated
    <3>4. CASE Recover
      BY <3>4 DEF Recover, Restart, ProbeRow, ProbeClassify, MarkRestored, FinishRecovery, CleanSandbox
    <3> QED BY <1>4, <3>1, <3>2, <3>3, <3>4
  <2>2. Sound(t)
    BY <2>1 DEF UntouchedInv
  <2>3. CASE Swap \/ Hold
    <3>1. OneTarget /\ pc \in AtTarget
      BY <1>0, <2>3, WorkAtOne, FilesAtOne
    <3>2. CASE t = mem.at
      BY <2>1, <2>3, <3>2, SwapSound, HoldSound
    <3> QED BY <1>0, <1>4, <2>2, <3>1, <3>2, OthersSound
  <2> QED BY <1>4, <2>1, <2>3, ForwardSound, CompensateSound, RecoverSound
<1>5. CASE Done
  <2>1. Sound(t)
    BY <1>5 DEF UntouchedInv, Done, vars
  <2> QED BY <1>5, <2>1, SoundStays DEF Done, vars
<1> QED BY <1>1, <1>2, <1>3, <1>4, <1>5 DEF Next, Daemon

(* Only the compensation notes conflicts, and only of the target it        *)
(* examined.                                                               *)
LEMMA ConflictsNoted ==
  ASSUME TypeInv, Next, ~UndoClassify
  PROVE  mem'.conflicts \subseteq mem.conflicts
<1> USE DEF Goto
<1>0. mem \in MemType
  BY DEF TypeInv, Shapes
<1>1. Fresh.conflicts = {} /\ [Fresh EXCEPT !.mode = "recover", !.at = N].conflicts = {}
  BY DEF Fresh
<1>2. \A t, x : SwapFailed(t, x) => mem'.conflicts = mem.conflicts
  BY <1>0 DEF SwapFailed, MemType
<1>3. \A t : SwapDone(t) => mem'.conflicts = mem.conflicts
  BY <1>0 DEF SwapDone, MemType
<1>4. \A b, a, k, v, c : CallRecover(b, a, k, v, c) => mem'.conflicts = mem.conflicts
  BY <1>0 DEF CallRecover, MemType
<1>5. \A p : Held(p) => mem'.conflicts = mem.conflicts
  BY <1>0 DEF Held, MemType
<1>6. CASE Forward
  BY <1>0, <1>6 DEF Forward, EnterStep, SandboxStep, Preflight, PrepareMutation, TargetsWritten,
     StepFails, MarkApplied, Commit, EnterCommittedCleanup, FinishCleanup, MemType
<1>7. CASE Swap
  <2>1. CASE Stage
    BY <1>0, <1>2, <1>3, <2>1 DEF Stage, MemType
  <2>2. CASE PersistCandidate \/ CandidateRefused
    BY <1>1, <1>2, <2>2 DEF PersistCandidate, CandidateRefused
  <2>3. CASE MoveAside \/ CheckBackup
    BY <1>2, <2>3 DEF MoveAside, CheckBackup
  <2>4. CASE Install \/ CheckInstalled
    BY <1>4, <2>4 DEF Install, CheckInstalled
  <2>5. CASE DropBackup \/ FinalCheck
    BY <1>2, <1>3, <2>5 DEF DropBackup, FinalCheck
  <2> QED BY <1>7, <2>1, <2>2, <2>3, <2>4, <2>5 DEF Swap
<1>8. CASE Hold
  <2>1. CASE HoldCleanTemp \/ HoldDropBackup \/ HoldTakeBack
    BY <1>5, <2>1 DEF HoldCleanTemp, HoldDropBackup, HoldTakeBack
  <2>2. CASE HoldLook
    BY <1>0, <1>5, <2>2 DEF HoldLook, MemType
  <2>3. CASE HoldCheckTaken
    BY <1>0, <1>5, <2>3 DEF HoldCheckTaken, MemType
  <2>4. CASE HoldGiveBack \/ HoldCheckGiven
    BY <1>5, <2>4 DEF HoldGiveBack, HoldCheckGiven, GiveBackFailed
  <2>5. CASE SwapRecovered
    BY <1>2, <2>5 DEF SwapRecovered
  <2> QED BY <1>8, <2>1, <2>2, <2>3, <2>4, <2>5 DEF Hold
<1>9. CASE Compensate
  <2>1. CASE UndoTarget
    BY <1>4, <2>1 DEF UndoTarget
  <2>2. CASE UndoPrepared
    BY <1>0, <2>2 DEF UndoPrepared, MemType
  <2> QED BY <1>1, <1>9, <2>1, <2>2 DEF Compensate, EnterCompensation, BeginUndo, PrepareUndo, UndoFinished,
          FinishRow, FinishCompensated, StopUndo
<1>10. CASE Recover
  <2>1. CASE ProbeRow
    BY <1>0, <1>4, <2>1 DEF ProbeRow, MemType
  <2>2. CASE ProbeClassify
    BY <1>0, <1>1, <2>2 DEF ProbeClassify, Refuse, MemType
  <2>3. CASE MarkRestored
    BY <1>0, <1>1, <2>3 DEF MarkRestored, Refuse, MemType
  <2> QED BY <1>1, <1>10, <2>1, <2>2, <2>3 DEF Recover, Restart, FinishRecovery, CleanSandbox, Refuse
<1>11. CASE Foreign \/ Crash \/ Done
  BY <1>1, <1>11 DEF Foreign, ForeignChange, Crash, Done, vars
<1> QED BY <1>6, <1>7, <1>8, <1>9, <1>10, <1>11 DEF Next, Daemon

(* Where an open transaction goes, and how it is closed.                   *)
LEMMA OpenStep ==
  ASSUME UntouchedInv, Next, Open
  PROVE  /\ ~Open' => UNCHANGED <<row, env>> /\ pc' \in CommittedPlaces
         /\ pc' = "done" => ~Open'
         /\ pc' \in {"compensate", "begin_undo", "prepare_undo"} => mem'.mode = "apply"
         /\ pc' = "finish_rows" => mem'.at = 0 /\ mem'.mode = "undo"
<1> USE DEF Goto
<1>0. TypeInv /\ tx \in TxType /\ mem \in MemType
  BY DEF UntouchedInv, WriteAheadInv, TypeInv, Shapes
<1> DEFINE Controlled ==
         /\ ~Open' => UNCHANGED <<row, env>> /\ pc' \in CommittedPlaces
         /\ pc' = "done" => ~Open'
         /\ pc' \in {"compensate", "begin_undo", "prepare_undo"} => mem'.mode = "apply"
         /\ pc' = "finish_rows" => mem'.at = 0 /\ mem'.mode = "undo"
<1>1. CASE Swap \/ Hold \/ UndoClassify \/ ProbeClassify \/ MarkApplied \/ MarkRestored
  <2>1. OneTarget
    BY <1>0, <1>1, WorkAtOne, JudgeAtOne
  <2> QED BY <2>1 DEF OneTarget, Open, AtTarget, Replacing, Holding
<1>2. CASE Forward /\ ~MarkApplied
  <2>1. CASE EnterStep \/ SandboxStep \/ TargetsWritten
    BY <1>0, <2>1 DEF EnterStep, SandboxStep, TargetsWritten, CompleteStep, Open, TxType
  <2>2. CASE Preflight \/ StepFails
    BY <1>0, <2>2 DEF Preflight, StepFails, CompleteStep, Open, TxType, TypeInv, Places
  <2>3. CASE PrepareMutation \/ EnterCommittedCleanup
    BY <1>0, <2>3 DEF PrepareMutation, EnterCommittedCleanup, Open, TxType
  <2>4. CASE Commit
    BY <1>0, <2>4 DEF Commit, CommittedPlaces, Open, TxType
  <2>5. CASE FinishCleanup
    BY <2>5 DEF FinishCleanup, Open
  <2> QED BY <1>2, <2>1, <2>2, <2>3, <2>4, <2>5 DEF Forward
<1>3. CASE Compensate /\ ~UndoClassify
  <2>1. CASE EnterCompensation \/ BeginUndo \/ PrepareUndo
    BY <1>0, <2>1 DEF EnterCompensation, BeginUndo, PrepareUndo, Open, TxType, UntouchedInv
  <2>2. CASE UndoPrepared \/ UndoTarget
    BY <2>2 DEF UndoPrepared, UndoTarget, CallRecover, Open
  <2>3. CASE UndoFinished
    BY <1>0, <2>3 DEF UndoFinished, StopUndo, Open, TypeInv, Places
  <2>4. CASE FinishRow
    BY <2>4 DEF FinishRow, StopUndo, Open, UntouchedInv
  <2>5. CASE FinishCompensated
    BY <2>5 DEF FinishCompensated, CommittedPlaces
  <2> QED BY <1>3, <2>1, <2>2, <2>3, <2>4, <2>5 DEF Compensate
<1>4. CASE Recover /\ ~ProbeClassify /\ ~MarkRestored
  <2>1. CASE Restart
    BY <1>0, <2>1 DEF Restart, Open, TxType
  <2>2. CASE ProbeRow
    BY <2>2 DEF ProbeRow, CallRecover, Open
  <2>3. CASE FinishRecovery
    BY <2>3 DEF FinishRecovery, CommittedPlaces
  <2>4. CASE CleanSandbox
    BY <1>0, <2>4 DEF CleanSandbox, Refuse, Open, TxType
  <2> QED BY <1>4, <2>1, <2>2, <2>3, <2>4 DEF Recover
<1>5. CASE Foreign \/ Crash \/ Done
  BY <1>5 DEF Foreign, ForeignChange, Crash, Done, vars, Open, UntouchedInv
<1> QED BY <1>1, <1>2, <1>3, <1>4, <1>5 DEF Next, Daemon

(* What other programs changed and where a death interrupted a replacement *)
(* is never forgotten.                                                     *)
LEMMA EnvGrows ==
  ASSUME TypeInv, Next
  PROVE  /\ env.touched \subseteq env'.touched /\ env.cut \subseteq env'.cut
         /\ env.foreigns <= env'.foreigns /\ env.crashes <= env'.crashes
         /\ (env.cut # {} => env.crashes >= 1) => (env'.cut # {} => env'.crashes >= 1)
<1>0. env \in EnvType
  BY DEF TypeInv, Shapes
<1>1. CASE Foreign
  BY <1>0, <1>1 DEF Foreign, ForeignChange, EnvType
<1>2. CASE Crash
  BY <1>0, <1>2 DEF Crash, EnvType
<1>a. SUFFICES UNCHANGED env \/ Foreign \/ Crash
  BY <1>0, <1>1, <1>2 DEF EnvType
<1>3. CASE Swap \/ Hold
  BY <1>3, FilesAtOne
<1>4. CASE Forward
  BY <1>4 DEF Forward, EnterStep, SandboxStep, Preflight, PrepareMutation, TargetsWritten,
     StepFails, MarkApplied, Commit, EnterCommittedCleanup, FinishCleanup
<1>5. CASE Compensate
  BY <1>5 DEF Compensate, EnterCompensation, BeginUndo, PrepareUndo, UndoPrepared, UndoTarget,
     UndoClassify, UndoFinished, FinishRow, FinishCompensated
<1>6. CASE Recover
  BY <1>6 DEF Recover, Restart, ProbeRow, ProbeClassify, MarkRestored, FinishRecovery, CleanSandbox
<1>7. CASE Done
  BY <1>7 DEF Done, vars
<1> QED BY <1>3, <1>4, <1>5, <1>6, <1>7 DEF Next, Daemon

(* The inductive invariant of the untouched targets.                       *)
LEMMA UntouchedStep ==
  ASSUME UntouchedInv, [Next]_vars
  PROVE  UntouchedInv'
<1>0. TypeInv /\ WriteAheadInv'
  BY WriteAheadStep DEF UntouchedInv, WriteAheadInv
<1>1. CASE UNCHANGED vars
  <2>1. \A t \in Targets \ env'.touched : Sound(t)'
    BY <1>1, SoundStays DEF UntouchedInv, vars
  <2> QED BY <1>0, <1>1, <2>1 DEF UntouchedInv, vars, ConflictOnlyIfTouched, Open
<1>2. CASE Next
  <2>1. \A t \in Targets \ env'.touched : Sound(t)'
    BY <1>2, SoundStep
  <2>2. env.touched \subseteq env'.touched /\ env.cut \subseteq env'.cut
    BY <1>0, <1>2, EnvGrows
  <2>3. mem'.conflicts \subseteq env'.touched
    <3>1. CASE UndoClassify
      <4>1. mem.at \in Targets
        BY <1>0, <3>1 DEF UndoClassify, TypeInv, Places, AtTarget, Holding
      <4>2. mem'.conflicts \subseteq mem.conflicts \union {mem.at}
        <5>1. PICK m \in MemType :
                 /\ m.conflicts \subseteq mem.conflicts \union {mem.at}
                 /\ \/ mem' = [m EXCEPT !.at = mem.at - 1, !.caller = "none", !.phase = "none"]
                    \/ mem' = [m EXCEPT !.caller = "none", !.phase = "none"]
                    \/ mem' = Fresh
          <6>1. mem \in MemType
            BY <1>0 DEF TypeInv, Shapes
          <6>2. \A i : [mem EXCEPT !.inst[mem.at] = i].conflicts = mem.conflicts
            BY <6>1 DEF MemType
          <6>3. [mem EXCEPT !.failed = TRUE].conflicts = mem.conflicts
            BY <6>1 DEF MemType
          <6>4. PICK m \in MemType :
                   /\ \/ m = mem \/ m = [mem EXCEPT !.failed = TRUE]
                      \/ m = [mem EXCEPT !.inst[mem.at] = "none"]
                      \/ m.conflicts = mem.conflicts \union {mem.at}
                   /\ \/ mem' = [m EXCEPT !.at = mem.at - 1, !.caller = "none", !.phase = "none"]
                      \/ mem' = [m EXCEPT !.caller = "none", !.phase = "none"]
                      \/ mem' = Fresh
            BY <1>0, <3>1, UndoClassifyEnds
          <6>5. m.conflicts \subseteq mem.conflicts \union {mem.at}
            BY <6>2, <6>3, <6>4
          <6> QED BY <6>4, <6>5
        <5>2. Fresh.conflicts = {}
          BY DEF Fresh
        <5> QED BY <5>1, <5>2 DEF MemType
      <4>3. CASE mem.at \in env.touched
        BY <2>2, <4>2, <4>3 DEF UntouchedInv
      <4>4. CASE mem.at \notin env.touched
        BY <2>2, <3>1, <4>1, <4>4, UndoSound DEF UntouchedInv
      <4> QED BY <4>3, <4>4
    <3>2. CASE ~UndoClassify
      BY <1>0, <1>2, <2>2, <3>2, ConflictsNoted DEF UntouchedInv
    <3> QED BY <3>1, <3>2
  <2>4. /\ ~Open' => pc' \in CommittedPlaces /\ (UNCHANGED row \/ \A t \in Targets : row'[t] = NoRow)
        /\ pc' = "done" => ~Open'
        /\ pc' \in {"compensate", "begin_undo", "prepare_undo"} => mem'.mode = "apply"
        /\ pc' = "finish_rows" => mem'.at = 0 /\ mem'.mode = "undo"
    <3>1. CASE Open
      BY <1>2, <3>1, OpenStep
    <3>2. CASE ~Open
      BY <1>2, <3>2, ClosedStep DEF CommittedPlaces
    <3> QED BY <3>1, <3>2
  <2>5. ConflictOnlyIfTouched'
    <3> SUFFICES ASSUME NEW t \in Targets, row'[t].state = "conflict", t \notin env'.touched PROVE t \in env'.cut
      BY DEF ConflictOnlyIfTouched
    <3>1. CASE Open'
      BY <2>1, <3>1, SoundRow
    <3>2. CASE ~Open'
      BY <2>2, <2>4, <3>2 DEF UntouchedInv, ConflictOnlyIfTouched, NoRow
    <3> QED BY <3>1, <3>2
  <2> QED BY <1>0, <2>1, <2>3, <2>4, <2>5 DEF UntouchedInv
<1> QED BY <1>1, <1>2

(* At the start every file is as the plan found it.                        *)
LEMMA UntouchedInit == Init => UntouchedInv
<1> SUFFICES ASSUME Init PROVE UntouchedInv
  OBVIOUS
<1>0. WriteAheadInv
  BY WriteAheadInit
<1>1. /\ pc = "idle" /\ mem.mode = "apply" /\ mem.conflicts = {} /\ tx.status = "pending" /\ env.cut = {}
      /\ \A t \in Targets : mem.inst[t] = "none"
  BY DEF Init, Fresh
<1>2. \A t \in Targets : fs[t] = Alone(Original) /\ row[t] = NoRow
  BY DEF Init, Alone, Files
<1>3. ASSUME NEW t \in Targets PROVE Sound(t)
  <2>1. RowIs(t, {"none", "prepared", "restored"}, "none", "none") /\ row[t].state = "none" /\ ~Here(t)
    BY <1>1, <1>2 DEF RowIs, NoRow, Here, AtTarget, Replacing, Holding
  <2>2. Idle(t)
    BY <1>1, <1>2, <2>1 DEF Idle, RowIs
  <2>3. Quiet(t)
    BY <1>2, <2>1 DEF Quiet, AtRest
  <2>4. fs[t].target # Candidate
    BY <1>2 DEF Alone, Files, Original, Candidate
  <2>5. InstalledIsTrue(t)
    BY <1>1, <2>1, <2>4 DEF InstalledIsTrue
  <2> QED BY <1>1, <2>1, <2>2, <2>3, <2>5 DEF Sound, Left, Replaced
<1>4. ConflictOnlyIfTouched
  BY <1>2 DEF ConflictOnlyIfTouched, NoRow
<1> QED BY <1>0, <1>1, <1>3, <1>4 DEF UntouchedInv, Open

(* The inductive invariant of the targets no other program changed: at     *)
(* every place of the engine, of a replacement, of its recovery and after  *)
(* a death, the file and the write-ahead row of such a target are one of   *)
(* the few combinations from which the next step goes on.                  *)
THEOREM UntouchedInvariant == Spec => []UntouchedInv
  BY UntouchedInit, UntouchedStep, PTL DEF Spec

(* Conflicts are not invented: neither a compensation nor any number of    *)
(* interrupted recoveries marks the row of a target as a conflict, unless  *)
(* another program changed it or a death cut its own replacement           *)
(* (classify_recovery, classify_compensation_snapshot).                    *)
THEOREM ConflictNeverInvented == Spec => []ConflictOnlyIfTouched
<1>1. UntouchedInv => ConflictOnlyIfTouched
  BY DEF UntouchedInv
<1> QED BY <1>1, UntouchedInvariant, PTL

(* The outcome the journal keeps is true of the files: a committed target  *)
(* has its intended state, a restored one its former state, and nothing    *)
(* stays under the private names, for every target that no other program   *)
(* changed and wherever the daemon died (commit_native_success,            *)
(* finish_native_recovery).                                                *)
THEOREM OutcomeAlwaysMatchesFiles == Spec => []OutcomeMatchesFiles
<1>1. UntouchedInv => OutcomeMatchesFiles
  <2> SUFFICES ASSUME UntouchedInv, NEW t \in Targets \ env.touched
               PROVE  /\ tx.status = "committed" => fs[t].target.fp = AppliedFp(t)
                      /\ tx.status = "restored" => fs[t].target.fp = "before"
                      /\ tx.current = 20 => fs[t].backup = NoObject /\ fs[t].temp = NoObject
    BY DEF OutcomeMatchesFiles
  <2>1. Left(t) /\ tx.status \in Statuses
    BY DEF UntouchedInv, Sound, WriteAheadInv, TypeInv, Shapes, TxType
  <2>2. tx.current = 20 => ~Open
    BY DEF UntouchedInv, WriteAheadInv, TypeInv, Places
  <2>3. \A o : /\ Alone(o).target = o /\ Alone(o).backup = NoObject /\ Alone(o).temp = NoObject
    BY DEF Alone, Files
  <2>4. tx.status = "committed" => fs[t].target.fp = AppliedFp(t)
    BY <2>1, <2>3 DEF Left, Original, Candidate, AppliedFp
  <2>5. tx.status = "restored" => fs[t].target.fp = "before"
    BY <2>1, <2>3 DEF Left, Original, Restore
  <2>6. ~Open => fs[t].backup = NoObject /\ fs[t].temp = NoObject
    BY <2>1, <2>3 DEF Left, Open, Statuses
  <2> QED BY <2>2, <2>4, <2>5, <2>6
<1> QED BY <1>1, UntouchedInvariant, PTL
-----------------------------------------------------------------------------
(* Foreign objects, while the faults are few.  Nothing another program     *)
(* wrote is destroyed, because whatever stands where the daemon unlinks    *)
(* was put there by the daemon.                                            *)

(* What the daemon itself puts under a target name.                        *)
Own == {Original, [tok |-> "cand", fp |-> "applied"],
        [tok |-> "rest", fp |-> "before"], [tok |-> "rest2", fp |-> "before"]}

(* From the rename of the target to the backup name until the unlinking    *)
(* of the backup, and from the creation of the staged file on.             *)
Moving == {"moved", "install", "check", "drop"}
Exchanging == Moving \union {"persist", "move"}

(* Where recover_interrupted_replace_held has begun to move the names.     *)
Returning == {"take_back", "taken", "give_back", "given"}

(* Other programs made at least n changes.                                 *)
Changed(n) == env.foreigns >= n

(* Rows and memory name objects of the daemon only.                        *)
NamesOwn ==
  /\ \A t \in Targets : /\ row[t].applied \in {"none", "cand"}
                        /\ row[t].restored \in {"none", "orig", "rest", "rest2"}
                        /\ mem.inst[t] \in {"none", "cand"}
  /\ mem.mode = "apply" => mem.staged \in {"none", "cand"}

(* So do the arguments of recover_interrupted_replace_held.                *)
ProbesOwn(p) ==
  /\ p.before \in {"before", "applied"} /\ p.applied \in {"before", "applied"}
  /\ p.provenance # "none" /\ p.before # p.applied =>
       [tok |-> p.provenance, fp |-> p.applied] \in Own

ProbeOwn == pc \in Holding \ {"held"} => ProbesOwn(mem.probe)

(* After a death inside a replacement only recoveries are at work, on rows *)
(* that can still be marked as a conflict.                                 *)
AfterCut ==
  env.cut # {} =>
    /\ pc \in {"down", "refused", "recover", "mark_restored", "sandbox", "cleanup", "done"}
                \union Replacing \union Holding
    /\ pc \in Replacing \union Holding => mem.mode = "recover"
    /\ pc \in Replacing \union Holding /\ ~(pc = "held" /\ mem.phase = "restored") =>
         row[mem.at].state \in {"prepared", "applied", "restore_prepared"}

(* The recovery of a replacement some daemon died in.                      *)
Resuming == env.cut # {} /\ mem.caller = "probe"

(* A foreign object stays under the temporary name only when the row of    *)
(* its target is a conflict, or is about to be one.                        *)
Aside(t) ==
  pc # "done" /\ fs[t].temp.fp = "foreign" =>
    /\ env.cut # {}
    /\ \/ row[t].state = "conflict"
       \/ mem.at = t /\ Resuming /\ (pc = "taken" \/ (pc = "held" /\ mem.phase = "error"))

(* A backup outlives its replacement only after foreign changes: one more  *)
(* when the target is an object of the daemon again.                       *)
Loose(t) ==
  fs[t].backup # NoObject => Changed(1) /\ (fs[t].target \in Own => Changed(2))

Leavings(t) ==
  \/ mem.at = t /\ pc \in Moving
  \/ env.cut # {} /\ ~(mem.at = t /\ pc \in Holding /\ mem.caller = "swap")
  \/ Loose(t)

(* Inside a replacement: every name has the object it should, or another   *)
(* program has been there.                                                 *)
Exchange(t) ==
  LET f == fs[t] IN
  /\ pc \in Exchanging => Staged(t) \in Own
  /\ pc \in {"persist", "move", "moved", "install"} => f.temp = Staged(t)
  /\ pc \in {"persist", "move"} => (f.target # Expected(t) => Changed(1))
  /\ pc = "moved" =>
       (f.backup # Expected(t) => Changed(1) /\ (f.target # NoObject => Changed(2)))
  /\ pc \in {"moved", "install"} =>
       (f.target # NoObject => Changed(1) /\ (f.target \in Own => Changed(2)))
  /\ pc \in {"install", "check", "drop"} => f.backup = Expected(t)
  /\ pc \in {"check", "drop"} =>
       (f.target # Staged(t) => Changed(1) /\ (f.target \in Own => Changed(2)))

(* Inside the recovery of one: an installed object is taken back, and a    *)
(* backup given back, only after foreign changes or a death.               *)
GivingBack(t) ==
  LET f == fs[t]
      p == mem.probe IN
  /\ pc = "take_back" => Resuming \/ (Changed(2) /\ f.target.fp # "foreign")
  /\ pc = "taken" => Resuming \/ Changed(2)
  /\ pc \in {"give_back", "given"} /\ p.extra => Resuming \/ Changed(2)
  /\ pc = "given" =>
       /\ f.backup = NoObject
       /\ Resuming \/ (Changed(1) /\ (f.target # [tok |-> p.held, fp |-> p.before] => Changed(2)))

Kept(t) ==
  /\ Aside(t) /\ Leavings(t)
  /\ mem.at = t => Exchange(t) /\ GivingBack(t)

(* What holds, next to WriteAheadInv, while the faults are few.            *)
ControlInv == NamesOwn /\ ProbeOwn /\ AfterCut

ForeignInv == ControlInv /\ \A t \in Targets : Kept(t)

(* A replacement is cut by a death only.                                   *)
CutCounted == env.cut # {} => env.crashes >= 1

(* What stood under a name of a file and was foreign stands under a name   *)
(* of another one.                                                         *)
Stays(o, g) ==
  o.fp = "foreign" =>
    \/ g.target.fp = "foreign" /\ g.target.tok = o.tok
    \/ g.backup.fp = "foreign" /\ g.backup.tok = o.tok
    \/ g.temp.fp = "foreign" /\ g.temp.tok = o.tok

Lossless(f, g) == Stays(f.target, g) /\ Stays(f.backup, g) /\ Stays(f.temp, g)

(* Then none of its foreign objects is lost.                               *)
LEMMA LosslessKeeps ==
  ASSUME NEW f \in FileType, NEW g \in FileType, Lossless(f, g)
  PROVE  ForeignObjects(f) \subseteq ForeignObjects(g)
<1>1. /\ f["target"] = f.target /\ f["backup"] = f.backup /\ f["temp"] = f.temp
      /\ g["target"] = g.target /\ g["backup"] = g.backup /\ g["temp"] = g.temp
  BY DEF FileType
<1>2. SUFFICES ASSUME NEW n \in Names, f[n].fp = "foreign"
               PROVE  \E m \in Names : g[m].fp = "foreign" /\ g[m].tok = f[n].tok
  BY DEF ForeignObjects
<1>3. n \in {"target", "backup", "temp"}
  BY DEF Names
<1>4. Stays(f[n], g)
  BY <1>1, <1>3 DEF Lossless
<1> QED BY <1>1, <1>2, <1>4 DEF Stays, Names

(* A file that stays loses nothing.                                        *)
LEMMA SameLossless ==
  ASSUME NEW f
  PROVE  Lossless(f, f)
  BY DEF Lossless, Stays

(* The objects of the daemon are told apart by their tokens, and none of   *)
(* them is foreign, absent or made by another program.                     *)
LEMMA OwnObjects ==
  ASSUME NEW o \in Own
  PROVE  /\ o.fp \in {"before", "applied"} /\ o.tok \in {"orig", "cand", "rest", "rest2"}
         /\ o # NoObject
         /\ \A p \in Own : p.tok = o.tok => p = o
<1>1. /\ o.fp \in {"before", "applied"} /\ o.tok \in {"orig", "cand", "rest", "rest2"}
  BY DEF Own, Original
<1>2. o # NoObject
  BY <1>1 DEF NoObject
<1>3. ASSUME NEW p \in Own, p.tok = o.tok PROVE p = o
  BY <1>3 DEF Own, Original
<1> QED BY <1>1, <1>2, <1>3

-----------------------------------------------------------------------------
(* Foreign objects: rows, memory and control. *)

(* The work is not over before the last place.                             *)
LEMMA NotOver ==
  ASSUME TypeInv, pc # "done"
  PROVE  tx.current < 20
<1>1. tx.current \in 4 .. 20 /\ tx.current # 20
  BY DEF TypeInv, Shapes, Places, TxType
<1> QED BY <1>1

(* A fresh memory names nothing.                                           *)
LEMMA FreshOwn ==
  ASSUME NamesOwn, mem' = Fresh \/ mem' = [Fresh EXCEPT !.mode = "recover", !.at = N], UNCHANGED row
  PROVE  NamesOwn'
<1>0. Fresh.inst = [t \in Targets |-> "none"] /\ Fresh.staged = "none"
  BY DEF Fresh
<1>1. mem'.inst = [t \in Targets |-> "none"] /\ mem'.staged = "none"
  <2>1. CASE mem' = Fresh
    BY <1>0, <2>1
  <2>2. CASE mem' = [Fresh EXCEPT !.mode = "recover", !.at = N]
    BY <1>0, <2>2, FreshTypes DEF MemType
  <2> QED BY <2>1, <2>2
<1>2. \A t \in Targets : mem'.inst[t] = "none"
  BY <1>1
<1> QED BY <1>1, <1>2 DEF NamesOwn

(* What a failed replacement leaves.                                       *)
LEMMA FailLeaves ==
  ASSUME TypeInv, NamesOwn, NEW t \in Targets, NEW installed \in Tokens, SwapFailed(t, installed),
         mem.mode = "apply" => installed \in {"none", "cand"}
  PROVE  /\ NamesOwn' /\ mem'.mode = mem.mode
         /\ pc' \in {"compensate", "undo", "recover"}
         /\ mem.mode = "recover" => pc' = "recover" /\ row'[t].state = "conflict"
<1> USE DEF TypeInv, Shapes
<1>1. CASE mem.mode = "apply"
  <2>1. /\ mem' = [mem EXCEPT !.inst[t] = installed, !.staged = "none", !.probe = NoProbe,
                             !.caller = "none", !.phase = "none"]
        /\ pc' = "compensate" /\ UNCHANGED row
    BY <1>1 DEF SwapFailed, Goto
  <2>2. /\ mem'.mode = mem.mode /\ mem'.staged = "none" /\ mem'.inst[t] = installed
        /\ \A u \in Targets \ {t} : mem'.inst[u] = mem.inst[u]
    BY <2>1 DEF MemType
  <2> QED BY <1>1, <2>1, <2>2 DEF NamesOwn
<1>2. CASE mem.mode = "undo"
  <2>1. /\ mem' = [mem EXCEPT !.failed = TRUE, !.at = t - 1, !.staged = "none",
                             !.probe = NoProbe, !.caller = "none", !.phase = "none"]
        /\ pc' = "undo" /\ UNCHANGED row
    BY <1>2 DEF SwapFailed, Goto
  <2>2. mem'.mode = mem.mode /\ mem'.inst = mem.inst
    BY <2>1 DEF MemType
  <2> QED BY <1>2, <2>1, <2>2 DEF NamesOwn
<1>3. CASE mem.mode = "recover"
  <2>1. /\ mem' = [mem EXCEPT !.at = t - 1, !.staged = "none", !.probe = NoProbe,
                             !.caller = "none", !.phase = "none"]
        /\ pc' = "recover" /\ Transition(t, "conflict")
    BY <1>3 DEF SwapFailed, Goto
  <2>2. mem'.mode = mem.mode /\ mem'.inst = mem.inst
    BY <2>1 DEF MemType
  <2>3. /\ row'[t].state = "conflict"
        /\ \A u \in Targets : row'[u].applied = row[u].applied /\ row'[u].restored = row[u].restored
    BY <2>1, TransitionRow, TransitionTypes DEF WalStates
  <2> QED BY <1>3, <2>1, <2>2, <2>3 DEF NamesOwn
<1> QED BY <1>1, <1>2, <1>3 DEF MemType

(* What a replacement that is done leaves.                                 *)
LEMMA DoneLeaves ==
  ASSUME TypeInv, NamesOwn, NEW t \in Targets, SwapDone(t), UNCHANGED row
  PROVE  /\ NamesOwn' /\ mem'.mode = mem.mode
         /\ pc' \in {"mark", "undo", "mark_restored"}
         /\ mem.mode = "recover" => pc' = "mark_restored"
<1> USE DEF TypeInv, Shapes
<1>0. pc' = CASE mem.mode = "apply" -> "mark"
              [] mem.mode = "undo" -> "undo"
              [] mem.mode = "recover" -> "mark_restored"
  BY DEF SwapDone, Goto
<1>1. CASE mem.mode = "apply"
  <2>1. mem' = [mem EXCEPT !.inst[t] = mem.staged] /\ pc' = "mark"
    BY <1>0, <1>1 DEF SwapDone
  <2>2. /\ mem'.mode = mem.mode /\ mem'.staged = mem.staged /\ mem'.inst[t] = mem.staged
        /\ \A u \in Targets \ {t} : mem'.inst[u] = mem.inst[u]
    BY <2>1 DEF MemType
  <2> QED BY <1>1, <2>1, <2>2 DEF NamesOwn
<1>2. CASE mem.mode = "undo"
  <2>1. mem' = [mem EXCEPT !.inst[t] = "none", !.at = t - 1, !.staged = "none"] /\ pc' = "undo"
    BY <1>0, <1>2 DEF SwapDone
  <2>2. /\ mem'.mode = mem.mode /\ mem'.inst[t] = "none"
        /\ \A u \in Targets \ {t} : mem'.inst[u] = mem.inst[u]
    BY <2>1 DEF MemType
  <2> QED BY <1>2, <2>1, <2>2 DEF NamesOwn
<1>3. CASE mem.mode = "recover"
  <2>1. mem' = [mem EXCEPT !.staged = "none"] /\ pc' = "mark_restored"
    BY <1>0, <1>3 DEF SwapDone
  <2>2. mem'.mode = mem.mode /\ mem'.inst = mem.inst
    BY <2>1 DEF MemType
  <2> QED BY <1>3, <2>1, <2>2 DEF NamesOwn
<1> QED BY <1>1, <1>2, <1>3 DEF MemType

(* What a call of recover_interrupted_replace_held leaves.                 *)
LEMMA CallLeaves ==
  ASSUME TypeInv, NamesOwn, NEW b \in Fingerprints, NEW a \in Fingerprints, NEW k \in Tokens,
         NEW v \in Tokens, NEW c \in {"swap", "undo", "probe"}, CallRecover(b, a, k, v, c),
         UNCHANGED row, b \in {"before", "applied"}, a \in {"before", "applied"},
         v # "none" /\ b # a => [tok |-> v, fp |-> a] \in Own
  PROVE  /\ NamesOwn' /\ mem'.mode = mem.mode /\ mem'.at = mem.at /\ mem'.caller = c
         /\ pc' = "hold" /\ ProbeOwn' /\ mem'.phase = "none"
<1> USE DEF TypeInv, Shapes
<1> DEFINE p == [NoProbe EXCEPT !.before = b, !.applied = a, !.backup = k, !.provenance = v]
<1>1. p.before = b /\ p.applied = a /\ p.provenance = v
  BY DEF NoProbe
<1>2. mem' = [mem EXCEPT !.probe = p, !.caller = c, !.phase = "none"] /\ pc' = "hold"
  BY DEF CallRecover, Goto
<1> HIDE DEF p
<1>3. /\ mem'.mode = mem.mode /\ mem'.at = mem.at /\ mem'.caller = c /\ mem'.phase = "none"
      /\ mem'.probe = p /\ mem'.inst = mem.inst /\ mem'.staged = mem.staged
  BY <1>2 DEF MemType
<1>4. ProbesOwn(mem'.probe)
  BY <1>1, <1>3 DEF ProbesOwn
<1>5. ProbeOwn'
  BY <1>4 DEF ProbeOwn, ProbesOwn
<1> QED BY <1>2, <1>3, <1>5 DEF NamesOwn

(* What the answer of that recovery leaves.                                *)
LEMMA AnswerLeaves ==
  ASSUME TypeInv, NamesOwn, NEW p \in {"restored", "abandoned", "error"}, Held(p), UNCHANGED row
  PROVE  /\ NamesOwn' /\ mem'.mode = mem.mode /\ mem'.at = mem.at /\ mem'.caller = mem.caller
         /\ mem'.phase = p /\ pc' = "held"
<1>1. mem' = [mem EXCEPT !.phase = p, !.probe = NoProbe] /\ pc' = "held"
  BY DEF Held, Goto
<1>2. /\ mem'.mode = mem.mode /\ mem'.at = mem.at /\ mem'.caller = mem.caller /\ mem'.phase = p
      /\ mem'.inst = mem.inst /\ mem'.staged = mem.staged
  BY <1>1 DEF TypeInv, Shapes, MemType
<1> QED BY <1>1, <1>2 DEF NamesOwn

-----------------------------------------------------------------------------
(* Foreign objects: the target the daemon works on. *)

(* What the invariant says where the daemon works.                         *)
LEMMA AtWork ==
  ASSUME WriteAheadInv, ForeignInv, NEW t \in Targets, t = mem.at, pc \in Replacing \union Holding
  PROVE  /\ TypeInv /\ StagedNamed /\ NamesOwn /\ ProbeOwn /\ Exchange(t) /\ GivingBack(t)
         /\ pc \notin {"taken", "held"} => fs[t].temp.fp # "foreign"
         /\ pc = "taken" /\ fs[t].temp.fp = "foreign" => Resuming
         /\ \/ pc \in Moving
            \/ env.cut # {} /\ ~(pc \in Holding /\ mem.caller = "swap")
            \/ Loose(t)
         /\ env.cut # {} => mem.mode = "recover"
         /\ pc \in Holding /\ env.cut # {} /\ mem.caller # "swap" => Resuming
<1>1. TypeInv /\ NamesOwn /\ ProbeOwn /\ AfterCut /\ Kept(t)
  BY DEF WriteAheadInv, ForeignInv, ControlInv
<1>2. pc # "done" /\ "conflict" \notin {"prepared", "applied", "restore_prepared"}
  BY DEF Replacing, Holding
<1>3. StagedNamed
  BY <1>1, <1>2, NotOver DEF WriteAheadInv
<1>4. Exchange(t) /\ GivingBack(t) /\ Aside(t) /\ Leavings(t)
  BY <1>1 DEF Kept
<1>5. env.cut # {} => mem.mode = "recover" /\ (pc # "held" => row[t].state # "conflict")
  BY <1>1, <1>2 DEF AfterCut
<1>6. pc \notin {"taken", "held"} => fs[t].temp.fp # "foreign"
  BY <1>2, <1>4, <1>5 DEF Aside
<1>7. pc = "taken" /\ fs[t].temp.fp = "foreign" => Resuming
  BY <1>2, <1>4, <1>5 DEF Aside
<1>8. pc \in Holding /\ env.cut # {} /\ mem.caller # "swap" => Resuming
  BY <1>1, <1>5 DEF Resuming, TypeInv, Places
<1> QED BY <1>1, <1>3, <1>4, <1>5, <1>6, <1>7, <1>8 DEF Leavings

(* Where the daemon neither replaces the file nor recovers a replacement.  *)
LEMMA RestKept ==
  ASSUME NEW t \in Targets, pc' \notin Exchanging \union Holding, env' = env,
         fs'[t].temp.fp = "foreign" => env.cut # {} /\ row'[t].state = "conflict",
         env.cut # {} \/ Loose(t)'
  PROVE  Kept(t)'
<1>1. Aside(t)'
  BY DEF Aside
<1>2. Leavings(t)'
  BY DEF Leavings, Exchanging
<1>3. Exchange(t)' /\ GivingBack(t)'
  BY DEF Exchange, GivingBack, Exchanging, Moving, Holding
<1> QED BY <1>1, <1>2, <1>3 DEF Kept

(* A replacement that fails.                                               *)
LEMMA FailKept ==
  ASSUME WriteAheadInv, ForeignInv, NEW t \in Targets, t = mem.at, pc \in Replacing \union Holding,
         NEW installed \in {"none", mem.staged}, SwapFailed(t, installed), UNCHANGED <<tx, env>>,
         fs'[t].temp.fp = "foreign" => env.cut # {},
         env.cut # {} \/ Loose(t)'
  PROVE  ControlInv' /\ Kept(t)'
<1>0. /\ TypeInv /\ NamesOwn /\ (env.cut # {} => mem.mode = "recover")
      /\ "none" \in Tokens /\ mem.staged \in Tokens
  BY AtWork, SwapValues DEF Tokens
<1>1. mem.mode = "apply" => installed \in {"none", "cand"}
  BY <1>0 DEF NamesOwn
<1>2. /\ NamesOwn' /\ mem'.mode = mem.mode
      /\ pc' \in {"compensate", "undo", "recover"}
      /\ mem.mode = "recover" => pc' = "recover" /\ row'[t].state = "conflict"
  BY <1>0, <1>1, FailLeaves
<1>3. ProbeOwn'
  BY <1>2 DEF ProbeOwn, Holding
<1>4. AfterCut'
  BY <1>0, <1>2 DEF AfterCut, Replacing, Holding
<1>5. Kept(t)'
  BY <1>0, <1>2, RestKept DEF Exchanging, Moving, Holding
<1> QED BY <1>2, <1>3, <1>4, <1>5 DEF ControlInv

(* A replacement that is done.                                             *)
LEMMA DoneKept ==
  ASSUME WriteAheadInv, ForeignInv, NEW t \in Targets, t = mem.at, pc \in {"stage", "final"},
         SwapDone(t), UNCHANGED <<fs, row, tx, env>>
  PROVE  ControlInv' /\ Kept(t)'
<1>0. pc \in Replacing /\ pc \notin Moving /\ pc \notin Holding /\ pc \notin {"taken", "held"}
  BY DEF Replacing, Moving, Holding
<1>1. /\ TypeInv /\ NamesOwn /\ (env.cut # {} => mem.mode = "recover")
      /\ fs[t].temp.fp # "foreign" /\ (env.cut # {} \/ Loose(t))
  BY <1>0, AtWork
<1>2. /\ NamesOwn' /\ mem'.mode = mem.mode
      /\ pc' \in {"mark", "undo", "mark_restored"}
      /\ mem.mode = "recover" => pc' = "mark_restored"
  BY <1>1, DoneLeaves
<1>3. ProbeOwn'
  BY <1>2 DEF ProbeOwn, Holding
<1>4. AfterCut'
  BY <1>1, <1>2 DEF AfterCut, Replacing, Holding
<1>5. Kept(t)'
  <2>1. env.cut # {} \/ Loose(t)'
    BY <1>1 DEF Loose, Changed
  <2> QED BY <1>1, <1>2, <2>1, RestKept DEF Exchanging, Moving, Holding
<1> QED BY <1>2, <1>3, <1>4, <1>5 DEF ControlInv

(* A step inside a replacement, or inside the recovery of one, that leaves *)
(* the memory and the state of the row alone.                              *)
LEMMA WithinControl ==
  ASSUME ForeignInv, UNCHANGED <<mem, row, env>>,
         \/ pc \in Replacing /\ pc' \in Replacing
         \/ pc \in Holding \ {"held"} /\ pc' \in Holding \ {"held"}
  PROVE  ControlInv'
<1> USE DEF ForeignInv, ControlInv
<1>1. NamesOwn'
  BY DEF NamesOwn
<1>2. ProbeOwn'
  BY DEF ProbeOwn, Replacing, Holding
<1>3. AfterCut'
  <2>1. pc \in Replacing \union Holding /\ pc' \in Replacing \union Holding
        /\ pc # "held" /\ pc' # "held"
    BY DEF Replacing, Holding
  <2> QED BY <2>1 DEF AfterCut
<1> QED BY <1>1, <1>2, <1>3

(* A recovery that answers.                                                *)
LEMMA AnswerKept ==
  ASSUME WriteAheadInv, ForeignInv, NEW t \in Targets, t = mem.at, pc \in Holding \ {"held"},
         NEW p \in {"restored", "abandoned", "error"}, Held(p), UNCHANGED <<row, tx, env>>,
         fs'[t].temp.fp = "foreign" => Resuming /\ p = "error",
         (env.cut # {} /\ mem.caller # "swap") \/ Loose(t)'
  PROVE  ControlInv' /\ Kept(t)'
<1>0. TypeInv /\ NamesOwn /\ AfterCut
  BY AtWork DEF ForeignInv, ControlInv
<1>2. /\ NamesOwn' /\ mem'.mode = mem.mode /\ mem'.at = mem.at /\ mem'.caller = mem.caller
      /\ mem'.phase = p /\ pc' = "held"
  BY <1>0, AnswerLeaves
<1>3. ProbeOwn'
  BY <1>2 DEF ProbeOwn
<1>4. AfterCut'
  BY <1>0, <1>2 DEF AfterCut, Holding
<1>5. Aside(t)'
  BY <1>2 DEF Aside, Resuming
<1>6. Leavings(t)'
  BY <1>2 DEF Leavings
<1>7. Exchange(t)' /\ GivingBack(t)'
  BY <1>2 DEF Exchange, GivingBack, Exchanging, Moving
<1> QED BY <1>2, <1>3, <1>4, <1>5, <1>6, <1>7 DEF ControlInv, Kept

(* A backup that stays, under a target that stays, stays what it was.      *)
LEMMA LooseStays ==
  ASSUME NEW t \in Targets, Loose(t), fs'[t].target = fs[t].target, fs'[t].backup = fs[t].backup,
         env' = env
  PROVE  Loose(t)'
  BY DEF Loose, Changed

(* The staging of a file.                                                  *)
LEMMA StageKept ==
  ASSUME WriteAheadInv, ForeignInv, Stage, NEW t \in Targets, t = mem.at
  PROVE  ControlInv' /\ Kept(t)' /\ Lossless(fs[t], fs'[t])
<1>0. /\ pc = "stage" /\ pc \in Replacing /\ pc \notin Moving /\ pc \notin Holding
      /\ pc \notin {"taken", "held"} /\ UNCHANGED <<tx, env>>
  BY DEF Stage, Replacing, Moving, Holding
<1>1. /\ TypeInv /\ NamesOwn /\ ProbeOwn /\ AfterCut /\ (env.cut # {} => mem.mode = "recover")
      /\ fs[t].temp.fp # "foreign" /\ (env.cut # {} \/ Loose(t))
  BY <1>0, AtWork DEF ForeignInv, ControlInv
<1>2. CASE SwapFailed(t, "none") /\ UNCHANGED fs
  <2>1. env.cut # {} \/ Loose(t)'
    BY <1>0, <1>1, <1>2, LooseStays
  <2> QED BY <1>0, <1>1, <1>2, <2>1, FailKept, SameLossless
<1>3. CASE SwapDone(t) /\ UNCHANGED <<fs, row>>
  BY <1>0, <1>3, DoneKept, SameLossless
<1>4. CASE /\ fs[t].target = Expected(t) /\ fs[t].target.fp # DesiredFp(t) /\ fs[t].temp = NoObject
           /\ fs' = [fs EXCEPT ![t].temp = [tok |-> NewToken(t), fp |-> DesiredFp(t)]]
           /\ mem' = [mem EXCEPT !.staged = NewToken(t)]
           /\ pc' = "persist" /\ UNCHANGED row
  <2> DEFINE s == [tok |-> NewToken(t), fp |-> DesiredFp(t)]
  <2>0. fs' = [fs EXCEPT ![t].temp = s] /\ s = [tok |-> NewToken(t), fp |-> DesiredFp(t)]
    BY <1>4
  <2> HIDE DEF s
  <2>1. /\ fs'[t].target = fs[t].target /\ fs'[t].backup = fs[t].backup /\ fs'[t].temp = s
    BY <1>1, <2>0 DEF TypeInv, Shapes, FileType
  <2>2. /\ mem'.mode = mem.mode /\ mem'.at = mem.at /\ mem'.inst = mem.inst
        /\ mem'.staged = NewToken(t) /\ mem'.probe = mem.probe /\ mem'.caller = mem.caller
    BY <1>1, <1>4 DEF TypeInv, Shapes, MemType
  <2>3. Staged(t)' = s /\ Expected(t)' = Expected(t)
    BY <1>4, <2>0, <2>2 DEF Staged, Expected, DesiredFp
  <2>4. s \in Own /\ (mem.mode = "apply" => NewToken(t) = "cand")
    <3>1. CASE mem.mode = "apply"
      <4>1. Expected(t) = Original /\ NewToken(t) = "cand" /\ DesiredFp(t) = AppliedFp(t)
        BY <3>1 DEF Expected, NewToken, DesiredFp
      <4>2. AppliedFp(t) = "applied"
        BY <1>4, <4>1 DEF AppliedFp, Original
      <4> QED BY <2>0, <4>1, <4>2 DEF Own
    <3>2. CASE mem.mode # "apply"
      <4>1. NewToken(t) \in {"rest", "rest2"} /\ DesiredFp(t) = "before"
        BY <1>1, <3>2 DEF NewToken, DesiredFp
      <4> QED BY <2>0, <3>2, <4>1 DEF Own
    <3> QED BY <3>1, <3>2
  <2>5. NamesOwn'
    BY <1>1, <1>4, <2>2, <2>4 DEF NamesOwn
  <2>6. ProbeOwn'
    BY <1>4 DEF ProbeOwn, Holding
  <2>7. AfterCut'
    BY <1>0, <1>1, <1>4, <2>2 DEF AfterCut, Replacing, Holding
  <2>8. s.fp # "foreign"
    BY <2>4, OwnObjects
  <2>9. Aside(t)'
    BY <2>1, <2>8 DEF Aside
  <2>10. Leavings(t)'
    <3>1. env.cut # {} \/ Loose(t)'
      BY <1>0, <1>1, <2>1, LooseStays
    <3> QED BY <1>0, <1>4, <3>1 DEF Leavings, Holding
  <2>11. Exchange(t)'
    BY <1>4, <2>1, <2>3, <2>4 DEF Exchange, Exchanging, Moving
  <2>12. GivingBack(t)'
    BY <1>4 DEF GivingBack
  <2>13. Lossless(fs[t], fs'[t])
    BY <1>1, <2>1 DEF Lossless, Stays
  <2> QED BY <2>5, <2>6, <2>7, <2>9, <2>10, <2>11, <2>12, <2>13 DEF ControlInv, Kept
<1> QED BY <1>0, <1>2, <1>3, <1>4 DEF Stage, Goto

(* The candidate is recorded, or the replacement ends before anything      *)
(* moved.                                                                  *)
LEMMA PersistKept ==
  ASSUME WriteAheadInv, ForeignInv, PersistCandidate \/ CandidateRefused, NEW t \in Targets, t = mem.at
  PROVE  ControlInv' /\ Kept(t)' /\ Lossless(fs[t], fs'[t])
<1>0. /\ pc = "persist" /\ pc \in Replacing /\ pc \notin Moving /\ pc \notin Holding
      /\ pc \notin {"taken", "held"} /\ UNCHANGED <<tx, env>>
  BY DEF PersistCandidate, CandidateRefused, Replacing, Moving, Holding
<1>1. /\ TypeInv /\ NamesOwn /\ ProbeOwn /\ AfterCut /\ (env.cut # {} => mem.mode = "recover")
      /\ StagedNamed /\ Exchange(t)
      /\ fs[t].temp.fp # "foreign" /\ (env.cut # {} \/ Loose(t))
  BY <1>0, AtWork DEF ForeignInv, ControlInv
<1>2. ASSUME DropTemp(t)
      PROVE  /\ Lossless(fs[t], fs'[t]) /\ fs'[t].temp = NoObject /\ fs'[t].temp.fp # "foreign"
             /\ env.cut # {} \/ Loose(t)'
  <2>1. fs'[t].target = fs[t].target /\ fs'[t].backup = fs[t].backup /\ fs'[t].temp = NoObject
    BY <1>1, <1>2 DEF DropTemp, TypeInv, Shapes, FileType
  <2> QED BY <1>0, <1>1, <2>1, LooseStays DEF Lossless, Stays, NoObject
<1>3. CASE DropTemp(t) /\ SwapFailed(t, "none")
  BY <1>0, <1>2, <1>3, FailKept
<1>4. CASE DropTemp(t) /\ pc' = "refused" /\ mem' = Fresh /\ UNCHANGED row
  <2>1. NamesOwn'
    BY <1>1, <1>4, FreshOwn
  <2>2. ProbeOwn' /\ AfterCut'
    BY <1>4 DEF ProbeOwn, AfterCut, Replacing, Holding
  <2>3. Kept(t)'
    BY <1>0, <1>2, <1>4, RestKept DEF Exchanging, Moving, Holding
  <2> QED BY <1>2, <1>4, <2>1, <2>2, <2>3 DEF ControlInv
<1>5. CASE /\ row' = IF mem.mode = "apply" THEN [row EXCEPT ![t].applied = mem.staged]
                     ELSE [row EXCEPT ![t].restored = mem.staged]
           /\ pc' = "move" /\ UNCHANGED <<fs, mem>>
  <2>1. mem.mode = "apply" => mem.staged = "cand"
    BY <1>0, <1>1 DEF StagedNamed
  <2>2. mem.mode # "apply" => mem.staged \in {"rest", "rest2"}
    BY <1>0, <1>1 DEF StagedNamed
  <2>3. /\ row'[t].state = row[t].state
        /\ row'[t].applied = IF mem.mode = "apply" THEN mem.staged ELSE row[t].applied
        /\ row'[t].restored = IF mem.mode = "apply" THEN row[t].restored ELSE mem.staged
        /\ \A u \in Targets \ {t} : row'[u] = row[u]
    BY <1>1, <1>5 DEF TypeInv, Shapes, Row
  <2>4. NamesOwn'
    BY <1>1, <1>5, <2>1, <2>2, <2>3 DEF NamesOwn
  <2>5. ProbeOwn'
    BY <1>5 DEF ProbeOwn, Holding
  <2>6. AfterCut'
    BY <1>0, <1>1, <1>5, <2>3 DEF AfterCut, Replacing, Holding
  <2>7. Staged(t)' = Staged(t) /\ Expected(t)' = Expected(t)
    <3>1. mem.mode \in {"apply", "undo", "recover"}
      BY <1>1 DEF TypeInv, Shapes, MemType
    <3> QED BY <1>5, <2>3, <3>1 DEF Staged, Expected, DesiredFp
  <2>8. Aside(t)'
    BY <1>1, <1>5 DEF Aside
  <2>9. Leavings(t)'
    <3>1. env.cut # {} \/ Loose(t)'
      BY <1>0, <1>1, <1>5, LooseStays
    <3> QED BY <1>0, <1>5, <3>1 DEF Leavings, Holding
  <2>10. Exchange(t)'
    BY <1>0, <1>1, <1>5, <2>7 DEF Exchange, Exchanging, Moving, Changed
  <2>11. GivingBack(t)'
    BY <1>5 DEF GivingBack
  <2> QED BY <1>5, <2>4, <2>5, <2>6, <2>8, <2>9, <2>10, <2>11, SameLossless DEF ControlInv, Kept
<1> QED BY <1>3, <1>4, <1>5 DEF PersistCandidate, CandidateRefused, Goto

(* The target is moved aside.                                              *)
LEMMA MoveKept ==
  ASSUME WriteAheadInv, ForeignInv, MoveAside, NEW t \in Targets, t = mem.at
  PROVE  ControlInv' /\ Kept(t)' /\ Lossless(fs[t], fs'[t])
<1>0. /\ pc = "move" /\ pc \in Replacing /\ pc \notin Moving /\ pc \notin Holding
      /\ pc \notin {"taken", "held"} /\ UNCHANGED <<tx, env>>
  BY DEF MoveAside, Replacing, Moving, Holding
<1>1. /\ TypeInv /\ Exchange(t) /\ fs[t].temp.fp # "foreign" /\ (env.cut # {} \/ Loose(t))
  BY <1>0, AtWork
<1>2. CASE DropTemp(t) /\ SwapFailed(t, mem.staged)
  <2>1. fs'[t].target = fs[t].target /\ fs'[t].backup = fs[t].backup /\ fs'[t].temp = NoObject
    BY <1>1, <1>2 DEF DropTemp, TypeInv, Shapes, FileType
  <2>2. Lossless(fs[t], fs'[t]) /\ fs'[t].temp.fp # "foreign"
    BY <1>1, <2>1 DEF Lossless, Stays, NoObject
  <2>3. env.cut # {} \/ Loose(t)'
    BY <1>0, <1>1, <2>1, LooseStays
  <2> QED BY <1>0, <1>2, <2>2, <2>3, FailKept
<1>3. CASE /\ fs[t].target # NoObject /\ fs[t].backup = NoObject
           /\ fs' = [fs EXCEPT ![t].target = NoObject, ![t].backup = fs[t].target]
           /\ pc' = "moved" /\ UNCHANGED <<row, mem>>
  <2>1. fs'[t].target = NoObject /\ fs'[t].backup = fs[t].target /\ fs'[t].temp = fs[t].temp
    BY <1>1, <1>3 DEF TypeInv, Shapes, FileType
  <2>2. ControlInv'
    BY <1>0, <1>3, WithinControl DEF Replacing
  <2>3. Staged(t)' = Staged(t) /\ Expected(t)' = Expected(t)
    BY <1>3 DEF Staged, Expected, DesiredFp
  <2>4. Aside(t)'
    BY <1>1, <2>1 DEF Aside
  <2>5. Leavings(t)'
    BY <1>3 DEF Leavings, Moving
  <2>6. Exchange(t)'
    BY <1>0, <1>1, <1>3, <2>1, <2>3 DEF Exchange, Exchanging, Moving, Changed
  <2>7. GivingBack(t)'
    BY <1>3 DEF GivingBack
  <2>8. Lossless(fs[t], fs'[t])
    BY <1>3, <2>1 DEF Lossless, Stays, NoObject
  <2> QED BY <2>2, <2>4, <2>5, <2>6, <2>7, <2>8 DEF Kept
<1> QED BY <1>0, <1>2, <1>3 DEF MoveAside, Goto

(* The moved object is checked, and put back when it is another one.       *)
LEMMA CheckBackupKept ==
  ASSUME WriteAheadInv, ForeignInv, CheckBackup, NEW t \in Targets, t = mem.at
  PROVE  ControlInv' /\ Kept(t)' /\ Lossless(fs[t], fs'[t])
<1>0. /\ pc = "moved" /\ pc \in Replacing /\ pc \notin Holding
      /\ pc \notin {"taken", "held"} /\ UNCHANGED <<tx, env>>
  BY DEF CheckBackup, Replacing, Holding
<1>1. TypeInv /\ Exchange(t) /\ fs[t].temp.fp # "foreign"
  BY <1>0, AtWork
<1>2. CASE fs[t].backup # Expected(t)
  <2> DEFINE free == fs[t].target = NoObject
             g == [target |-> IF free THEN fs[t].backup ELSE fs[t].target,
                   backup |-> IF free THEN NoObject ELSE fs[t].backup,
                   temp |-> NoObject]
  <2>1. fs' = [fs EXCEPT ![t] = g] /\ SwapFailed(t, mem.staged)
    BY <1>2 DEF CheckBackup
  <2>2. fs'[t] = g
    BY <1>1, <2>1 DEF TypeInv, Shapes
  <2>3. Lossless(fs[t], fs'[t]) /\ fs'[t].temp.fp # "foreign"
    BY <1>1, <2>2 DEF Lossless, Stays, NoObject
  <2>4. Loose(t)'
    BY <1>0, <1>1, <1>2, <2>2 DEF Exchange, Loose, Changed
  <2> QED BY <1>0, <2>1, <2>3, <2>4, FailKept
<1>3. CASE fs[t].backup = Expected(t)
  <2>1. pc' = "install" /\ UNCHANGED <<fs, row, mem>>
    BY <1>3 DEF CheckBackup, Goto
  <2>2. ControlInv'
    BY <1>0, <2>1, WithinControl DEF Replacing
  <2>3. Staged(t)' = Staged(t) /\ Expected(t)' = Expected(t)
    BY <2>1 DEF Staged, Expected, DesiredFp
  <2>4. Aside(t)' /\ Leavings(t)'
    BY <1>1, <2>1 DEF Aside, Leavings, Moving
  <2>5. Exchange(t)'
    BY <1>0, <1>1, <1>3, <2>1, <2>3 DEF Exchange, Exchanging, Moving, Changed
  <2>6. GivingBack(t)'
    BY <2>1 DEF GivingBack
  <2> QED BY <2>1, <2>2, <2>4, <2>5, <2>6, SameLossless DEF Kept
<1> QED BY <1>2, <1>3

(* A replacement that calls recover_interrupted_replace_held.              *)
LEMMA CallKept ==
  ASSUME WriteAheadInv, ForeignInv, NEW t \in Targets, t = mem.at, pc \in {"install", "check"},
         NEW v \in {"none", mem.staged},
         CallRecover(Expected(t).fp, DesiredFp(t), "none", v, "swap"),
         UNCHANGED <<fs, row, tx, env>>, Loose(t)
  PROVE  ControlInv' /\ Kept(t)' /\ Lossless(fs[t], fs'[t])
<1>0. pc \in Replacing /\ pc \notin {"taken", "held"} /\ pc \in Exchanging
  BY DEF Replacing, Exchanging, Moving
<1>1. /\ TypeInv /\ NamesOwn /\ AfterCut /\ Exchange(t) /\ fs[t].temp.fp # "foreign"
      /\ (env.cut # {} => mem.mode = "recover")
  BY <1>0, AtWork DEF ForeignInv, ControlInv
<1>2. /\ "none" \in Tokens /\ v \in Tokens
      /\ DesiredFp(t) \in Fingerprints /\ DesiredFp(t) \in {"before", "applied"}
  BY <1>1, SwapValues DEF Tokens
<1>3. Expected(t).fp \in {"before", "applied"} /\ Expected(t).fp \in Fingerprints
  <2>1. mem.mode \in {"apply", "undo", "recover"} /\ AppliedFp(t) \in {"before", "applied"}
    BY <1>1 DEF TypeInv, Shapes, MemType, AppliedFp
  <2> QED BY <2>1 DEF Expected, Original, Fingerprints
<1>4. v # "none" => [tok |-> v, fp |-> DesiredFp(t)] \in Own
  BY <1>0, <1>1 DEF Exchange, Staged
<1>5. /\ NamesOwn' /\ mem'.mode = mem.mode /\ mem'.at = mem.at /\ mem'.caller = "swap"
      /\ pc' = "hold" /\ ProbeOwn'
  BY <1>1, <1>2, <1>3, <1>4, CallLeaves
<1>6. AfterCut'
  BY <1>0, <1>1, <1>5 DEF AfterCut, Holding
<1>7. Aside(t)'
  BY <1>1 DEF Aside
<1>8. Leavings(t)'
  BY LooseStays DEF Leavings
<1>9. Exchange(t)' /\ GivingBack(t)'
  BY <1>5 DEF Exchange, GivingBack, Exchanging, Moving
<1> QED BY <1>5, <1>6, <1>7, <1>8, <1>9, SameLossless DEF ControlInv, Kept

(* The staged object is installed, unless the name is taken again.         *)
LEMMA InstallKept ==
  ASSUME WriteAheadInv, ForeignInv, Install, NEW t \in Targets, t = mem.at
  PROVE  ControlInv' /\ Kept(t)' /\ Lossless(fs[t], fs'[t])
<1>0. /\ pc = "install" /\ pc \in Replacing /\ pc \notin Holding
      /\ pc \notin {"taken", "held"} /\ UNCHANGED <<row, tx, env>>
  BY DEF Install, Replacing, Holding
<1>1. TypeInv /\ Exchange(t) /\ fs[t].temp.fp # "foreign"
  BY <1>0, AtWork
<1>2. CASE fs[t].target # NoObject
  <2>1. Loose(t)
    BY <1>0, <1>1, <1>2 DEF Exchange, Loose
  <2>2. CallRecover(Expected(t).fp, DesiredFp(t), "none", "none", "swap") /\ UNCHANGED fs
    BY <1>2 DEF Install
  <2> QED BY <1>0, <2>1, <2>2, CallKept
<1>3. CASE fs[t].target = NoObject
  <2>1. /\ fs' = [fs EXCEPT ![t].target = fs[t].temp, ![t].temp = NoObject]
        /\ pc' = "check" /\ UNCHANGED mem
    BY <1>3 DEF Install, Goto
  <2>2. fs'[t].target = fs[t].temp /\ fs'[t].backup = fs[t].backup /\ fs'[t].temp = NoObject
    BY <1>1, <2>1 DEF TypeInv, Shapes, FileType
  <2>3. ControlInv'
    BY <1>0, <2>1, WithinControl DEF Replacing
  <2>4. Staged(t)' = Staged(t) /\ Expected(t)' = Expected(t)
    BY <1>0, <2>1 DEF Staged, Expected, DesiredFp
  <2>5. Aside(t)' /\ Leavings(t)'
    BY <2>1, <2>2 DEF Aside, Leavings, Moving, NoObject
  <2>6. Exchange(t)'
    BY <1>0, <1>1, <2>1, <2>2, <2>4 DEF Exchange, Exchanging, Moving, Changed
  <2>7. GivingBack(t)'
    BY <2>1 DEF GivingBack
  <2>8. Lossless(fs[t], fs'[t])
    BY <1>1, <1>3, <2>2 DEF Lossless, Stays, NoObject
  <2> QED BY <2>3, <2>5, <2>6, <2>7, <2>8 DEF Kept
<1> QED BY <1>2, <1>3

(* The installed object is checked.                                        *)
LEMMA CheckInstalledKept ==
  ASSUME WriteAheadInv, ForeignInv, CheckInstalled, NEW t \in Targets, t = mem.at
  PROVE  ControlInv' /\ Kept(t)' /\ Lossless(fs[t], fs'[t])
<1>0. /\ pc = "check" /\ pc \in Replacing /\ pc \notin Holding
      /\ pc \notin {"taken", "held"} /\ UNCHANGED <<fs, row, tx, env>>
  BY DEF CheckInstalled, Replacing, Holding
<1>1. TypeInv /\ Exchange(t) /\ fs[t].temp.fp # "foreign"
  BY <1>0, AtWork
<1>2. CASE fs[t].target # Staged(t)
  <2>1. Loose(t)
    BY <1>0, <1>1, <1>2 DEF Exchange, Loose
  <2>2. CallRecover(Expected(t).fp, DesiredFp(t), "none", mem.staged, "swap")
    BY <1>2 DEF CheckInstalled
  <2> QED BY <1>0, <2>1, <2>2, CallKept
<1>3. CASE fs[t].target = Staged(t)
  <2>1. pc' = "drop" /\ UNCHANGED mem
    BY <1>3 DEF CheckInstalled, Goto
  <2>2. ControlInv'
    BY <1>0, <2>1, WithinControl DEF Replacing
  <2>3. Staged(t)' = Staged(t) /\ Expected(t)' = Expected(t)
    BY <1>0, <2>1 DEF Staged, Expected, DesiredFp
  <2>4. Aside(t)' /\ Leavings(t)'
    BY <1>0, <1>1, <2>1 DEF Aside, Leavings, Moving
  <2>5. Exchange(t)'
    BY <1>0, <1>1, <2>1, <2>3 DEF Exchange, Exchanging, Moving, Changed
  <2>6. GivingBack(t)'
    BY <2>1 DEF GivingBack
  <2> QED BY <1>0, <2>2, <2>4, <2>5, <2>6, SameLossless DEF Kept
<1> QED BY <1>2, <1>3

(* The backup is unlinked: it is the object the replacement expected.      *)
LEMMA DropBackupKept ==
  ASSUME WriteAheadInv, ForeignInv, DropBackup, NEW t \in Targets, t = mem.at
  PROVE  ControlInv' /\ Kept(t)' /\ Lossless(fs[t], fs'[t])
<1>0. /\ pc = "drop" /\ pc \in Replacing /\ pc \notin Holding
      /\ pc \notin {"taken", "held"} /\ UNCHANGED <<tx, env>>
  BY DEF DropBackup, Replacing, Holding
<1>1. TypeInv /\ Exchange(t) /\ fs[t].temp.fp # "foreign"
  BY <1>0, AtWork
<1>2. CASE ~(fs[t].target = Staged(t) /\ fs[t].backup = Expected(t))
  <2>1. SwapFailed(t, mem.staged) /\ UNCHANGED fs
    BY <1>2 DEF DropBackup
  <2>2. Loose(t)
    BY <1>0, <1>1, <1>2 DEF Exchange, Loose
  <2>3. Loose(t)'
    BY <1>0, <2>1, <2>2, LooseStays
  <2> QED BY <1>0, <1>1, <2>1, <2>3, FailKept, SameLossless
<1>3. CASE fs[t].target = Staged(t) /\ fs[t].backup = Expected(t)
  <2>1. fs' = [fs EXCEPT ![t].backup = NoObject] /\ pc' = "final" /\ UNCHANGED <<row, mem>>
    BY <1>3 DEF DropBackup, Goto
  <2>2. fs'[t].target = fs[t].target /\ fs'[t].backup = NoObject /\ fs'[t].temp = fs[t].temp
    BY <1>1, <2>1 DEF TypeInv, Shapes, FileType
  <2>3. ControlInv'
    BY <1>0, <2>1, WithinControl DEF Replacing
  <2>4. Kept(t)'
    BY <1>0, <1>1, <2>1, <2>2, RestKept DEF Exchanging, Moving, Holding, Loose
  <2>5. Expected(t).fp # "foreign"
    <3>1. mem.mode \in {"apply", "undo", "recover"} /\ AppliedFp(t) # "foreign"
      BY <1>1 DEF TypeInv, Shapes, MemType, AppliedFp
    <3> QED BY <3>1 DEF Expected, Original
  <2>6. Lossless(fs[t], fs'[t])
    BY <1>1, <1>3, <2>2, <2>5 DEF Lossless, Stays
  <2> QED BY <2>3, <2>4, <2>6
<1> QED BY <1>2, <1>3

(* The last look at the installed object.                                  *)
LEMMA FinalCheckKept ==
  ASSUME WriteAheadInv, ForeignInv, FinalCheck, NEW t \in Targets, t = mem.at
  PROVE  ControlInv' /\ Kept(t)' /\ Lossless(fs[t], fs'[t])
<1>0. /\ pc = "final" /\ pc \in Replacing /\ pc \notin Moving /\ pc \notin Holding
      /\ pc \notin {"taken", "held"} /\ UNCHANGED <<fs, tx, env>>
  BY DEF FinalCheck, Replacing, Moving, Holding
<1>1. fs[t].temp.fp # "foreign" /\ (env.cut # {} \/ Loose(t))
  BY <1>0, AtWork
<1>2. CASE SwapDone(t) /\ UNCHANGED row
  BY <1>0, <1>2, DoneKept, SameLossless
<1>3. CASE SwapFailed(t, mem.staged)
  <2>1. env.cut # {} \/ Loose(t)'
    BY <1>0, <1>1, LooseStays
  <2> QED BY <1>0, <1>1, <1>3, <2>1, FailKept, SameLossless
<1> QED BY <1>2, <1>3 DEF FinalCheck

(* A step inside the recovery of a replacement that notes in the memory    *)
(* what it has seen.                                                       *)
LEMMA NotedControl ==
  ASSUME WriteAheadInv, ForeignInv, UNCHANGED <<row, env>>, pc \in Holding \ {"held"},
         pc' \in Holding \ {"held"}, NEW p, mem' = [mem EXCEPT !.probe = p],
         p.before = mem.probe.before, p.applied = mem.probe.applied,
         p.provenance = mem.probe.provenance
  PROVE  ControlInv' /\ mem'.at = mem.at /\ mem'.caller = mem.caller /\ mem'.probe = p
<1> USE DEF ForeignInv, ControlInv
<1>1. /\ mem'.mode = mem.mode /\ mem'.inst = mem.inst /\ mem'.staged = mem.staged
      /\ mem'.at = mem.at /\ mem'.caller = mem.caller /\ mem'.probe = p
  BY DEF WriteAheadInv, TypeInv, Shapes, MemType
<1>2. NamesOwn'
  BY <1>1 DEF NamesOwn
<1>3. ProbeOwn'
  <2>1. ProbesOwn(mem.probe)
    BY DEF ProbeOwn
  <2>2. ProbesOwn(p)
    BY <2>1 DEF ProbesOwn
  <2> QED BY <1>1, <2>2 DEF ProbeOwn, ProbesOwn
<1>4. AfterCut'
  <2>1. pc \in Replacing \union Holding /\ pc' \in Replacing \union Holding
        /\ pc # "held" /\ pc' # "held"
    BY DEF Replacing, Holding
  <2> QED BY <1>1, <2>1 DEF AfterCut
<1> QED BY <1>1, <1>2, <1>3, <1>4

(* A leftover of the temporary name is unlinked: it is not foreign.        *)
LEMMA CleanTempKept ==
  ASSUME WriteAheadInv, ForeignInv, HoldCleanTemp, NEW t \in Targets, t = mem.at
  PROVE  ControlInv' /\ Kept(t)' /\ Lossless(fs[t], fs'[t])
<1>0. /\ pc = "hold" /\ pc \in Holding \ {"held"} /\ pc \notin Moving
      /\ pc \notin {"taken", "held"} /\ UNCHANGED <<row, tx, mem, env>> /\ pc' = "look"
  BY DEF HoldCleanTemp, Goto, Holding, Moving
<1>1. /\ TypeInv /\ fs[t].temp.fp # "foreign"
      /\ (env.cut # {} /\ ~(pc \in Holding /\ mem.caller = "swap")) \/ Loose(t)
  BY <1>0, AtWork
<1>2. fs'[t].target = fs[t].target /\ fs'[t].backup = fs[t].backup /\ fs'[t].temp = NoObject
  BY <1>1 DEF HoldCleanTemp, DropTemp, TypeInv, Shapes, FileType
<1>3. ControlInv'
  BY <1>0, WithinControl DEF Holding
<1>4. Aside(t)'
  BY <1>2 DEF Aside, NoObject
<1>5. Leavings(t)'
  BY <1>0, <1>1, <1>2, LooseStays DEF Leavings
<1>6. Exchange(t)' /\ GivingBack(t)'
  BY <1>0 DEF Exchange, GivingBack, Exchanging, Moving
<1>7. Lossless(fs[t], fs'[t])
  BY <1>1, <1>2 DEF Lossless, Stays
<1> QED BY <1>3, <1>4, <1>5, <1>6, <1>7 DEF Kept

(* Where the look at the names sends the recovery.                         *)
LEMMA LookTakesBack ==
  ASSUME HoldLook, pc' = "take_back", NEW t \in Targets, t = mem.at
  PROVE  /\ fs[t].backup # NoObject
         /\ fs[t].target.fp # mem.probe.before /\ fs[t].target.fp = mem.probe.applied
         /\ mem.probe.provenance # "none" /\ fs[t].target.tok = mem.probe.provenance
<1> DEFINE p == mem.probe
           target == fs[t].target
           backup == fs[t].backup
<1> USE DEF Goto, Held
<1>1. CASE backup = NoObject
  <2>1. CASE target.fp = p.before
    BY <1>1, <2>1 DEF HoldLook
  <2>2. CASE target.fp # p.before /\ target.fp = p.applied
    BY <1>1, <2>2 DEF HoldLook
  <2>3. CASE target.fp \notin {p.before, p.applied}
    BY <1>1, <2>3 DEF HoldLook
  <2> QED BY <2>1, <2>2, <2>3
<1>2. CASE backup # NoObject /\ ((p.backup # "none" /\ backup.tok # p.backup) \/ backup.fp # p.before)
  BY <1>2 DEF HoldLook
<1>3. CASE backup # NoObject /\ backup.fp = p.before /\ p.backup \in {"none", backup.tok}
  <2>0. CASE target = NoObject
    BY <1>3, <2>0 DEF HoldLook
  <2>1. CASE target # NoObject /\ target.fp = p.before
    BY <1>3, <2>1 DEF HoldLook
  <2>2. CASE target # NoObject /\ target.fp # p.before /\ target.fp = p.applied
    <3>1. AcceptsApplied(target.tok)
      BY <1>3, <2>2 DEF HoldLook
    <3> QED BY <1>3, <2>2, <3>1 DEF AcceptsApplied
  <2>3. CASE target # NoObject /\ target.fp \notin {p.before, p.applied}
    BY <1>3, <2>3 DEF HoldLook
  <2> QED BY <2>0, <2>1, <2>2, <2>3
<1> QED BY <1>1, <1>2, <1>3

(* The look itself.  An object of the daemon under the target name and a   *)
(* backup next to it take two foreign changes, or a death.                 *)
LEMMA LookKept ==
  ASSUME WriteAheadInv, ForeignInv, HoldLook, NEW t \in Targets, t = mem.at
  PROVE  ControlInv' /\ Kept(t)' /\ Lossless(fs[t], fs'[t])
<1>0. /\ pc = "look" /\ pc \in Holding \ {"held"} /\ pc \in Holding /\ pc \notin Moving
      /\ pc \notin {"taken", "held"} /\ UNCHANGED <<fs, row, tx, env>>
  BY DEF HoldLook, Holding, Moving
<1>1. /\ TypeInv /\ ProbeOwn /\ StagedNamed /\ fs[t].temp.fp # "foreign"
      /\ (env.cut # {} /\ mem.caller # "swap") \/ Loose(t)
      /\ env.cut # {} /\ mem.caller # "swap" => Resuming
  BY <1>0, AtWork
<1>2. ASSUME NEW p \in {"restored", "abandoned", "error"}, Held(p)
      PROVE  ControlInv' /\ Kept(t)' /\ Lossless(fs[t], fs'[t])
  <2>1. (env.cut # {} /\ mem.caller # "swap") \/ Loose(t)'
    BY <1>0, <1>1, LooseStays
  <2> QED BY <1>0, <1>1, <1>2, <2>1, AnswerKept, SameLossless
<1>3. CASE /\ mem' = [mem EXCEPT !.probe.seen = fs[mem.at].target.tok,
                                 !.probe.held = fs[mem.at].backup.tok]
           /\ pc' \in {"give_back", "drop_held", "take_back"}
  <2> DEFINE p == [mem.probe EXCEPT !.seen = fs[t].target.tok, !.held = fs[t].backup.tok]
  <2>0. mem \in MemType /\ mem.probe \in ProbeType
    BY <1>1 DEF TypeInv, Shapes, MemType
  <2>1. mem' = [mem EXCEPT !.probe = p]
    BY <1>3, <2>0 DEF MemType, ProbeType
  <2>2. /\ p.before = mem.probe.before /\ p.applied = mem.probe.applied
        /\ p.provenance = mem.probe.provenance /\ p.extra = mem.probe.extra
    BY <2>0 DEF ProbeType
  <2> HIDE DEF p
  <2>3. ControlInv' /\ mem'.at = mem.at /\ mem'.caller = mem.caller /\ mem'.probe = p
    BY <1>0, <1>3, <2>1, <2>2, NotedControl DEF Holding
  <2>4. Aside(t)'
    BY <1>0, <1>1 DEF Aside
  <2>5. Leavings(t)'
    BY <1>0, <1>1, <2>3, LooseStays DEF Leavings
  <2>6. Exchange(t)'
    BY <1>3 DEF Exchange, Exchanging, Moving
  <2>7. ~mem'.probe.extra
    BY <1>0, <1>1, <2>2, <2>3 DEF StagedNamed
  <2>8. pc' = "take_back" => Resuming' \/ (Changed(2)' /\ fs'[t].target.fp # "foreign")
    <3> SUFFICES ASSUME pc' = "take_back"
                 PROVE  Resuming' \/ (Changed(2)' /\ fs'[t].target.fp # "foreign")
      OBVIOUS
    <3>1. /\ fs[t].backup # NoObject
          /\ fs[t].target.fp # mem.probe.before /\ fs[t].target.fp = mem.probe.applied
          /\ mem.probe.provenance # "none" /\ fs[t].target.tok = mem.probe.provenance
      BY LookTakesBack
    <3>2. ProbesOwn(mem.probe)
      BY <1>0, <1>1 DEF ProbeOwn
    <3>3. fs[t].target = [tok |-> mem.probe.provenance, fp |-> mem.probe.applied]
      <4>1. fs[t].target \in Object
        BY <1>1, SwapValues
      <4> QED BY <3>1, <4>1 DEF Object
    <3>4. fs[t].target \in Own /\ fs[t].target.fp # "foreign"
      BY <3>1, <3>2, <3>3, OwnObjects DEF ProbesOwn
    <3>5. CASE Loose(t)
      BY <1>0, <3>1, <3>4, <3>5 DEF Loose, Changed
    <3>6. CASE Resuming
      BY <1>0, <2>3, <3>6 DEF Resuming
    <3> QED BY <1>1, <3>5, <3>6
  <2>9. GivingBack(t)'
    BY <1>3, <2>7, <2>8 DEF GivingBack
  <2> QED BY <1>0, <2>3, <2>4, <2>5, <2>6, <2>9, SameLossless DEF Kept
<1> QED BY <1>2, <1>3, LookEnds

(* A leftover backup is unlinked: its fingerprint is one of the daemon's.  *)
LEMMA DropHeldKept ==
  ASSUME WriteAheadInv, ForeignInv, HoldDropBackup, NEW t \in Targets, t = mem.at
  PROVE  ControlInv' /\ Kept(t)' /\ Lossless(fs[t], fs'[t])
<1> DEFINE p == mem.probe
           exact == /\ fs[t].target = [tok |-> p.seen, fp |-> p.before]
                    /\ fs[t].backup = [tok |-> p.held, fp |-> p.before]
<1>0. /\ pc = "drop_held" /\ pc \in Holding \ {"held"} /\ pc \in Holding /\ pc \notin Moving
      /\ pc \notin {"taken", "held"} /\ UNCHANGED <<row, tx, env>>
  BY DEF HoldDropBackup, Holding, Moving
<1>1. /\ TypeInv /\ ProbeOwn /\ fs[t].temp.fp # "foreign"
      /\ (env.cut # {} /\ mem.caller # "swap") \/ Loose(t)
  BY <1>0, AtWork
<1>2. CASE exact
  <2>1. fs' = [fs EXCEPT ![t].backup = NoObject] /\ Held("restored")
    BY <1>2 DEF HoldDropBackup
  <2>2. fs'[t].target = fs[t].target /\ fs'[t].backup = NoObject /\ fs'[t].temp = fs[t].temp
    BY <1>1, <2>1 DEF TypeInv, Shapes, FileType
  <2>3. fs[t].backup.fp # "foreign"
    BY <1>0, <1>1, <1>2 DEF ProbeOwn, ProbesOwn
  <2>4. Lossless(fs[t], fs'[t])
    BY <2>2, <2>3 DEF Lossless, Stays
  <2>5. Loose(t)'
    BY <2>2 DEF Loose
  <2> QED BY <1>0, <1>1, <2>1, <2>2, <2>4, <2>5, AnswerKept
<1>3. CASE ~exact
  <2>1. UNCHANGED fs /\ Held("error")
    BY <1>3 DEF HoldDropBackup
  <2>2. (env.cut # {} /\ mem.caller # "swap") \/ Loose(t)'
    BY <1>0, <1>1, <2>1, LooseStays
  <2> QED BY <1>0, <1>1, <2>1, <2>2, AnswerKept, SameLossless
<1> QED BY <1>2, <1>3

(* The installed object is moved to the temporary name.                    *)
LEMMA TakeBackKept ==
  ASSUME WriteAheadInv, ForeignInv, HoldTakeBack, NEW t \in Targets, t = mem.at
  PROVE  ControlInv' /\ Kept(t)' /\ Lossless(fs[t], fs'[t])
<1>0. /\ pc = "take_back" /\ pc \in Holding \ {"held"} /\ pc \in Holding /\ pc \notin Moving
      /\ pc \notin {"taken", "held"} /\ UNCHANGED <<row, tx, env>>
  BY DEF HoldTakeBack, Holding, Moving
<1>1. /\ TypeInv /\ GivingBack(t) /\ fs[t].temp.fp # "foreign"
      /\ (env.cut # {} /\ mem.caller # "swap") \/ Loose(t)
  BY <1>0, AtWork
<1>2. CASE Held("error") /\ UNCHANGED fs
  <2>2. (env.cut # {} /\ mem.caller # "swap") \/ Loose(t)'
    BY <1>0, <1>1, <1>2, LooseStays
  <2> QED BY <1>0, <1>1, <1>2, <2>2, AnswerKept, SameLossless
<1>3. CASE /\ fs[t].target # NoObject /\ fs[t].temp = NoObject
           /\ fs' = [fs EXCEPT ![t].target = NoObject, ![t].temp = fs[t].target]
           /\ pc' = "taken" /\ UNCHANGED mem
  <2>1. fs'[t].target = NoObject /\ fs'[t].backup = fs[t].backup /\ fs'[t].temp = fs[t].target
    BY <1>1, <1>3 DEF TypeInv, Shapes, FileType
  <2>2. ControlInv'
    BY <1>0, <1>3, WithinControl DEF Holding
  <2>3. Resuming \/ (Changed(2) /\ fs[t].target.fp # "foreign")
    BY <1>0, <1>1 DEF GivingBack
  <2>4. Aside(t)'
    BY <1>0, <1>3, <2>1, <2>3 DEF Aside, Resuming
  <2>5. Leavings(t)'
    <3>1. Loose(t) => Loose(t)'
      <4>1. NoObject \notin Own
        BY OwnObjects
      <4> QED BY <1>0, <2>1, <4>1 DEF Loose, Changed
    <3> QED BY <1>0, <1>1, <1>3, <3>1 DEF Leavings
  <2>6. Exchange(t)'
    BY <1>3 DEF Exchange, Exchanging, Moving
  <2>7. GivingBack(t)'
    BY <1>0, <1>3, <2>3 DEF GivingBack, Resuming, Changed
  <2>8. Lossless(fs[t], fs'[t])
    BY <1>1, <2>1 DEF Lossless, Stays
  <2> QED BY <2>2, <2>4, <2>5, <2>6, <2>7, <2>8 DEF Kept
<1> QED BY <1>2, <1>3 DEF HoldTakeBack, Goto

(* What was taken is checked; another object goes back to the target name. *)
LEMMA CheckTakenKept ==
  ASSUME WriteAheadInv, ForeignInv, HoldCheckTaken, NEW t \in Targets, t = mem.at
  PROVE  ControlInv' /\ Kept(t)' /\ Lossless(fs[t], fs'[t])
<1>0. /\ pc = "taken" /\ pc \in Holding \ {"held"} /\ pc \in Holding /\ pc \notin Moving
      /\ UNCHANGED <<row, tx, env>>
  BY DEF HoldCheckTaken, Holding, Moving
<1>1. /\ TypeInv /\ ProbeOwn /\ GivingBack(t) /\ (fs[t].temp.fp = "foreign" => Resuming)
      /\ (env.cut # {} /\ mem.caller # "swap") \/ Loose(t)
      /\ fs[t] \in FileType
  BY <1>0, AtWork, SwapValues
<1>2. Resuming \/ Changed(2)
  BY <1>0, <1>1 DEF GivingBack
<1>3. CASE fs[t].temp # [tok |-> mem.probe.seen, fp |-> mem.probe.applied]
  <2>1. Held("error") /\ fs' = [fs EXCEPT ![t] = PutBackTemp(t, fs[t])]
    BY <1>3 DEF HoldCheckTaken
  <2>2. fs'[t] = PutBackTemp(t, fs[t])
    BY <1>1, <2>1 DEF TypeInv, Shapes
  <2>3. /\ fs'[t].backup = fs[t].backup
        /\ \/ fs[t].target = NoObject /\ fs'[t].target = fs[t].temp /\ fs'[t].temp = NoObject
           \/ fs'[t] = fs[t]
    BY <1>1, <2>2 DEF PutBackTemp, FileType
  <2>4. fs'[t].temp.fp = "foreign" => Resuming
    BY <1>1, <2>3 DEF NoObject
  <2>5. Lossless(fs[t], fs'[t])
    BY <2>3 DEF Lossless, Stays, NoObject
  <2>6. (env.cut # {} /\ mem.caller # "swap") \/ Loose(t)'
    <3>1. CASE Resuming
      BY <3>1 DEF Resuming
    <3>2. CASE Changed(2)
      <4>1. Changed(1)' /\ Changed(2)'
        BY <1>0, <1>1, <3>2 DEF Changed, TypeInv, Shapes, EnvType
      <4> QED BY <4>1 DEF Loose
    <3> QED BY <1>2, <3>1, <3>2
  <2> QED BY <1>0, <2>1, <2>4, <2>5, <2>6, AnswerKept
<1>4. CASE fs[t].temp = [tok |-> mem.probe.seen, fp |-> mem.probe.applied]
  <2> DEFINE p == [mem.probe EXCEPT !.extra = TRUE]
  <2>0. mem \in MemType /\ mem.probe \in ProbeType
    BY <1>1 DEF TypeInv, Shapes, MemType
  <2>1. /\ mem' = [mem EXCEPT !.probe = p] /\ pc' = "give_back" /\ UNCHANGED fs
    BY <1>4, <2>0 DEF HoldCheckTaken, Goto, MemType, ProbeType
  <2>2. /\ p.before = mem.probe.before /\ p.applied = mem.probe.applied
        /\ p.provenance = mem.probe.provenance
    BY <2>0 DEF ProbeType
  <2> HIDE DEF p
  <2>3. ControlInv' /\ mem'.at = mem.at /\ mem'.caller = mem.caller
    BY <1>0, <2>1, <2>2, NotedControl DEF Holding
  <2>4. fs[t].temp.fp # "foreign"
    BY <1>0, <1>1, <1>4 DEF ProbeOwn, ProbesOwn
  <2>5. Aside(t)'
    BY <2>1, <2>4 DEF Aside
  <2>6. Leavings(t)'
    BY <1>0, <1>1, <2>1, <2>3, LooseStays DEF Leavings
  <2>7. Exchange(t)'
    BY <2>1 DEF Exchange, Exchanging, Moving
  <2>8. GivingBack(t)'
    BY <1>0, <1>2, <2>1, <2>3 DEF GivingBack, Resuming, Changed
  <2> QED BY <2>1, <2>3, <2>5, <2>6, <2>7, <2>8, SameLossless DEF Kept
<1> QED BY <1>3, <1>4

(* What the error path of restore_backup makes of the file.                *)
LEMMA PutBackNames ==
  ASSUME NEW t \in Targets, NEW f \in FileType
  PROVE  /\ PutBackTemp(t, f).backup = f.backup
         /\ \/ /\ f.target = NoObject
               /\ PutBackTemp(t, f).target = f.temp /\ PutBackTemp(t, f).temp = NoObject
            \/ PutBackTemp(t, f) = f
  BY DEF PutBackTemp, FileType

(* The backup goes back to the target name.                                *)
LEMMA GiveBackKept ==
  ASSUME WriteAheadInv, ForeignInv, HoldGiveBack, NEW t \in Targets, t = mem.at
  PROVE  ControlInv' /\ Kept(t)' /\ Lossless(fs[t], fs'[t])
<1> DEFINE p == mem.probe
           given == [tok |-> p.held, fp |-> p.before]
           free == fs[t].target = NoObject /\ fs[t].backup = given
<1>0. /\ pc = "give_back" /\ pc \in Holding \ {"held"} /\ pc \in Holding /\ pc \notin Moving
      /\ pc \notin {"taken", "held"} /\ UNCHANGED <<row, tx, env>>
  BY DEF HoldGiveBack, Holding, Moving
<1>1. /\ TypeInv /\ ProbeOwn /\ GivingBack(t) /\ fs[t].temp.fp # "foreign"
      /\ (env.cut # {} /\ mem.caller # "swap") \/ Loose(t)
      /\ env.cut # {} /\ mem.caller # "swap" => Resuming
      /\ fs[t] \in FileType
  BY <1>0, AtWork, SwapValues
<1>2. p.extra => Resuming \/ Changed(2)
  BY <1>0, <1>1 DEF GivingBack
<1>3. CASE ~free
  <2> DEFINE g == IF p.extra THEN PutBackTemp(t, fs[t]) ELSE fs[t]
  <2>1. Held("error") /\ fs' = [fs EXCEPT ![t] = g]
    BY <1>3 DEF HoldGiveBack, GiveBackFailed
  <2>2. fs'[t] = g
    BY <1>1, <2>1 DEF TypeInv, Shapes
  <2>3. /\ fs'[t].backup = fs[t].backup
        /\ \/ fs[t].target = NoObject /\ fs'[t].target = fs[t].temp /\ fs'[t].temp = NoObject /\ p.extra
           \/ fs'[t] = fs[t]
    BY <1>1, <2>2, PutBackNames
  <2>4. fs'[t].temp.fp # "foreign"
    BY <1>1, <2>3 DEF NoObject
  <2>5. Lossless(fs[t], fs'[t])
    BY <2>3 DEF Lossless, Stays, NoObject
  <2>6. (env.cut # {} /\ mem.caller # "swap") \/ Loose(t)'
    <3>1. CASE Resuming
      BY <3>1 DEF Resuming
    <3>2. CASE Changed(2)
      <4>1. Changed(1)' /\ Changed(2)'
        BY <1>0, <1>1, <3>2 DEF Changed, TypeInv, Shapes, EnvType
      <4> QED BY <4>1 DEF Loose
    <3>3. CASE fs'[t] = fs[t]
      BY <1>0, <1>1, <3>3, LooseStays
    <3> QED BY <1>2, <2>3, <3>1, <3>2, <3>3
  <2> QED BY <1>0, <2>1, <2>4, <2>5, <2>6, AnswerKept
<1>4. CASE free
  <2>1. /\ fs' = [fs EXCEPT ![t].target = fs[t].backup, ![t].backup = NoObject]
        /\ pc' = "given" /\ UNCHANGED mem
    BY <1>4 DEF HoldGiveBack, Goto
  <2>2. fs'[t].target = fs[t].backup /\ fs'[t].backup = NoObject /\ fs'[t].temp = fs[t].temp
    BY <1>1, <2>1 DEF TypeInv, Shapes, FileType
  <2>3. ControlInv'
    BY <1>0, <2>1, WithinControl DEF Holding
  <2>4. Aside(t)'
    BY <1>1, <2>2 DEF Aside
  <2>5. Leavings(t)'
    BY <2>2 DEF Leavings, Loose
  <2>6. Exchange(t)'
    BY <2>1 DEF Exchange, Exchanging, Moving
  <2>7. Resuming \/ Changed(1)
    <3>1. ProbesOwn(p)
      BY <1>0, <1>1 DEF ProbeOwn
    <3>2. fs[t].backup # NoObject
      BY <1>4, <3>1 DEF ProbesOwn, NoObject
    <3> QED BY <1>1, <3>2 DEF Loose
  <2>8. GivingBack(t)'
    BY <1>0, <1>2, <1>4, <2>1, <2>2, <2>7 DEF GivingBack, Resuming, Changed
  <2>9. Lossless(fs[t], fs'[t])
    BY <1>4, <2>2 DEF Lossless, Stays, NoObject
  <2> QED BY <2>3, <2>4, <2>5, <2>6, <2>8, <2>9 DEF Kept
<1> QED BY <1>3, <1>4

(* What was given back is checked; another object goes to the backup name, *)
(* which is free.                                                          *)
LEMMA CheckGivenKept ==
  ASSUME WriteAheadInv, ForeignInv, HoldCheckGiven, NEW t \in Targets, t = mem.at
  PROVE  ControlInv' /\ Kept(t)' /\ Lossless(fs[t], fs'[t])
<1> DEFINE p == mem.probe
           f == fs[t]
           moved == IF f.target # NoObject
                    THEN [f EXCEPT !.backup = f.target, !.target = NoObject] ELSE f
           exact == f.target = [tok |-> p.held, fp |-> p.before]
<1>0. /\ pc = "given" /\ pc \in Holding \ {"held"} /\ pc \in Holding /\ pc \notin Moving
      /\ pc \notin {"taken", "held"} /\ UNCHANGED <<row, tx, env>>
  BY DEF HoldCheckGiven, Holding, Moving
<1>1. /\ TypeInv /\ GivingBack(t) /\ f.temp.fp # "foreign" /\ f \in FileType /\ NoObject \in Object
      /\ f.target \in Object
  BY <1>0, AtWork, SwapValues
<1>2. /\ f.backup = NoObject
      /\ Resuming \/ (Changed(1) /\ (~exact => Changed(2)))
  BY <1>0, <1>1 DEF GivingBack
<1>3. CASE exact
  <2>1. Held("restored") /\ IF p.extra THEN DropTemp(t) ELSE UNCHANGED fs
    BY <1>3 DEF HoldCheckGiven
  <2>2. /\ fs'[t].target = f.target /\ fs'[t].backup = f.backup
        /\ fs'[t].temp \in {f.temp, NoObject}
    BY <1>1, <2>1 DEF DropTemp, TypeInv, Shapes, FileType
  <2>3. Lossless(f, fs'[t]) /\ fs'[t].temp.fp # "foreign" /\ Loose(t)'
    BY <1>1, <1>2, <2>2 DEF Lossless, Stays, Loose, NoObject
  <2> QED BY <1>0, <2>1, <2>3, AnswerKept
<1>4. CASE ~exact
  <2> DEFINE g == IF p.extra THEN PutBackTemp(t, moved) ELSE moved
  <2>1. Held("error") /\ fs' = [fs EXCEPT ![t] = g]
    BY <1>4 DEF HoldCheckGiven, GiveBackFailed
  <2>2. fs'[t] = g
    BY <1>1, <2>1 DEF TypeInv, Shapes
  <2>3. moved \in FileType /\ moved.temp = f.temp /\ moved.target = NoObject
        /\ moved.backup = f.target
    <3>1. CASE f.target # NoObject
      BY <1>1, <3>1 DEF FileType
    <3>2. CASE f.target = NoObject
      BY <1>1, <1>2, <3>2
    <3> QED BY <3>1, <3>2
  <2> HIDE DEF moved
  <2>4. /\ fs'[t].backup = f.target
        /\ fs'[t].temp \in {f.temp, NoObject}
    BY <2>2, <2>3, PutBackNames
  <2>5. Lossless(f, fs'[t]) /\ fs'[t].temp.fp # "foreign"
    BY <1>1, <1>2, <2>4 DEF Lossless, Stays, NoObject
  <2>6. (env.cut # {} /\ mem.caller # "swap") \/ Loose(t)'
    <3>1. CASE Resuming
      BY <3>1 DEF Resuming
    <3>2. CASE Changed(1) /\ Changed(2)
      <4>1. Changed(1)' /\ Changed(2)'
        BY <1>0, <3>2 DEF Changed
      <4> QED BY <4>1 DEF Loose
    <3> QED BY <1>2, <1>4, <3>1, <3>2
  <2> QED BY <1>0, <2>1, <2>5, <2>6, AnswerKept
<1> QED BY <1>3, <1>4

(* The replacement hears of the answer and fails.                          *)
LEMMA SwapRecoveredKept ==
  ASSUME WriteAheadInv, ForeignInv, SwapRecovered, NEW t \in Targets, t = mem.at
  PROVE  ControlInv' /\ Kept(t)' /\ Lossless(fs[t], fs'[t])
<1>0. /\ pc = "held" /\ pc \in Holding /\ pc \notin Moving /\ mem.caller = "swap"
      /\ UNCHANGED <<fs, tx, env>> /\ SwapFailed(t, mem.staged)
  BY DEF SwapRecovered, Holding, Moving
<1>1. Loose(t) /\ Aside(t)
  BY <1>0, AtWork DEF ForeignInv, Kept
<1>2. fs'[t].temp.fp = "foreign" => env.cut # {}
  BY <1>0, <1>1 DEF Aside
<1>3. Loose(t)'
  BY <1>0, <1>1, LooseStays
<1> QED BY <1>0, <1>2, <1>3, FailKept, SameLossless

(* Every step of a replacement and of its recovery.                        *)
LEMMA WorkKept ==
  ASSUME WriteAheadInv, ForeignInv, Swap \/ Hold, NEW t \in Targets, t = mem.at
  PROVE  ControlInv' /\ Kept(t)' /\ Lossless(fs[t], fs'[t])
<1>1. CASE Swap
  BY <1>1, StageKept, PersistKept, MoveKept, CheckBackupKept, InstallKept, CheckInstalledKept,
     DropBackupKept, FinalCheckKept DEF Swap
<1>2. CASE Hold
  BY <1>2, CleanTempKept, LookKept, DropHeldKept, TakeBackKept, CheckTakenKept, GiveBackKept,
     CheckGivenKept, SwapRecoveredKept DEF Hold
<1> QED BY <1>1, <1>2

-----------------------------------------------------------------------------
(* Foreign objects: everywhere else. *)

(* A step at one target leaves what is said of the others.                 *)
LEMMA OthersKept ==
  ASSUME TypeInv, OneTarget, pc \in AtTarget, NEW u \in Targets, u # mem.at, Kept(u)
  PROVE  Kept(u)'
<1>0. /\ fs'[u] = fs[u] /\ row'[u] = row[u] /\ env' = env /\ pc # "done"
  BY DEF OneTarget, AtTarget, Replacing, Holding
<1>1. pc' \in Moving \union Exchanging \union Holding => mem'.at # u
  BY DEF OneTarget, Moving, Exchanging, Holding
<1>2. Aside(u)'
  BY <1>0 DEF Kept, Aside
<1>3. Leavings(u)'
  BY <1>0, <1>1 DEF Kept, Leavings, Loose, Changed
<1>4. mem'.at = u => Exchange(u)' /\ GivingBack(u)'
  BY <1>1 DEF Exchange, GivingBack, Exchanging, Moving, Holding
<1> QED BY <1>2, <1>3, <1>4 DEF Kept

(* A row that is a conflict stays one.                                     *)
ConflictsStay == \A t \in Targets : row[t].state = "conflict" => row'[t].state = "conflict"

(* transition_native_wal has no way out of a conflict.                     *)
LEMMA TransitionStays ==
  ASSUME TypeInv, NEW t \in Targets, NEW s \in WalStates, MayTransition(t, s), Transition(t, s)
  PROVE  /\ ConflictsStay
         /\ \A u \in Targets : row'[u].applied = row[u].applied /\ row'[u].restored = row[u].restored
<1>1. row[t].state = "conflict" => s = "conflict"
  BY DEF MayTransition, Advance
<1>2. /\ row'[t].state = s /\ row'[t].applied = row[t].applied /\ row'[t].restored = row[t].restored
      /\ \A u \in Targets \ {t} : row'[u] = row[u]
  BY TransitionRow, TransitionTypes
<1> QED BY <1>1, <1>2 DEF ConflictsStay

(* A step that touches no file, from a place outside the replacements to   *)
(* one where no name has been moved.                                       *)
LEMMA StillKept ==
  ASSUME ForeignInv, UNCHANGED <<fs, env>>, NEW t \in Targets,
         pc \notin Exchanging \union (Holding \ {"held"}) \union {"done"},
         pc' \notin Exchanging \union Returning,
         pc' \in Holding => mem'.caller # "swap",
         ConflictsStay \/ pc' = "done",
         pc = "held" /\ mem.phase = "error" /\ Resuming => row'[mem.at].state = "conflict"
  PROVE  Kept(t)'
<1>0. Kept(t)
  BY DEF ForeignInv
<1>1. Aside(t)'
  <2> SUFFICES ASSUME pc' # "done", fs'[t].temp.fp = "foreign"
               PROVE  env'.cut # {} /\ row'[t].state = "conflict"
    BY DEF Aside
  <2>1. /\ env.cut # {}
        /\ \/ row[t].state = "conflict"
           \/ mem.at = t /\ Resuming /\ (pc = "taken" \/ (pc = "held" /\ mem.phase = "error"))
    BY <1>0 DEF Kept, Aside
  <2>2. pc # "taken"
    BY DEF Holding
  <2> QED BY <2>1, <2>2 DEF ConflictsStay
<1>2. Leavings(t)'
  <2>1. env.cut # {} \/ Loose(t)
    BY <1>0 DEF Kept, Leavings, Exchanging
  <2>2. Loose(t) => Loose(t)'
    BY LooseStays
  <2> QED BY <2>1, <2>2 DEF Leavings
<1>3. Exchange(t)' /\ GivingBack(t)'
  BY DEF Exchange, GivingBack, Exchanging, Moving, Returning
<1> QED BY <1>1, <1>2, <1>3 DEF Kept

(* The places a replacement or its recovery cannot be in.                  *)
Apart == Labels \ (Exchanging \union Holding \union {"done"})

(* The forward steps.                                                      *)
LEMMA ForwardControl ==
  ASSUME WriteAheadInv, ForeignInv, Forward
  PROVE  /\ ControlInv' /\ UNCHANGED <<fs, env>> /\ pc \in Apart
         /\ pc' \notin Exchanging \union Holding
         /\ ConflictsStay \/ pc' = "done"
<1> USE DEF Goto
<1>0. /\ TypeInv /\ NamesOwn /\ ProbeOwn /\ AfterCut /\ row \in [Targets -> Row] /\ mem \in MemType
  BY DEF WriteAheadInv, TypeInv, Shapes, ForeignInv, ControlInv
<1>1. CASE EnterStep \/ SandboxStep \/ Preflight \/ TargetsWritten \/ StepFails \/ Commit \/ EnterCommittedCleanup
  <2>1. /\ UNCHANGED <<fs, row, mem, env>> /\ pc \in {"idle", "step", "stage", "committed"}
        /\ pc' \in {"step", "idle", "compensate", "committed", "cleanup"}
        /\ pc = "stage" => mem.mode = "apply"
    BY <1>1 DEF EnterStep, SandboxStep, Preflight, TargetsWritten, StepFails, Commit, EnterCommittedCleanup,
       CompleteStep
  <2>2. env.cut = {}
    BY <1>0, <2>1 DEF AfterCut, Replacing, Holding
  <2>3. NamesOwn' /\ ProbeOwn' /\ AfterCut'
    BY <1>0, <2>1, <2>2 DEF NamesOwn, ProbeOwn, AfterCut, Holding
  <2> QED BY <2>1, <2>3 DEF ControlInv, ConflictsStay, Apart, Labels, Exchanging, Moving, Holding
<1>2. CASE PrepareMutation
  <2>0. Unwritten \in SUBSET Targets /\ Unwritten # {}
    BY <1>2 DEF PrepareMutation, Unwritten
  <2>1. PICK t \in Targets :
          /\ row[t].state = "none" /\ row' = [row EXCEPT ![t].state = "prepared"]
          /\ mem' = [mem EXCEPT !.at = t]
    BY <1>2, <2>0, FirstTarget DEF PrepareMutation, Unwritten
  <2>2. /\ UNCHANGED <<fs, env>> /\ pc = "step" /\ pc' = "stage"
    BY <1>2 DEF PrepareMutation
  <2>3. /\ \A u \in Targets : row'[u].applied = row[u].applied /\ row'[u].restored = row[u].restored
        /\ ConflictsStay
    BY <1>0, <2>1 DEF Row, ConflictsStay
  <2>4. mem'.mode = mem.mode /\ mem'.inst = mem.inst /\ mem'.staged = mem.staged
    BY <1>0, <2>1 DEF MemType
  <2>5. env.cut = {}
    BY <1>0, <2>2 DEF AfterCut, Replacing, Holding
  <2>6. NamesOwn' /\ ProbeOwn' /\ AfterCut'
    BY <1>0, <2>2, <2>3, <2>4, <2>5 DEF NamesOwn, ProbeOwn, AfterCut, Holding
  <2> QED BY <2>2, <2>3, <2>6 DEF ControlInv, Apart, Labels, Exchanging, Moving, Holding
<1>3. CASE MarkApplied
  <2> DEFINE t == mem.at
  <2>0. t \in Targets
    BY <1>0, <1>3 DEF MarkApplied, TypeInv, Places, AtTarget
  <2>1. /\ MayTransition(t, "applied") /\ UNCHANGED <<fs, env>> /\ pc = "mark" /\ pc' = "step"
        /\ row' = [row EXCEPT ![t].state = "applied", ![t].applied = mem.inst[t]]
        /\ mem' = [mem EXCEPT !.staged = "none"]
    BY <1>3 DEF MarkApplied
  <2>2. row[t].state # "conflict"
    BY <2>1 DEF MayTransition, Advance
  <2>3. /\ row'[t].applied = mem.inst[t] /\ row'[t].restored = row[t].restored
        /\ \A u \in Targets \ {t} : row'[u] = row[u]
    BY <1>0, <2>0, <2>1 DEF Row
  <2>4. mem'.mode = mem.mode /\ mem'.inst = mem.inst /\ mem'.staged = "none"
    BY <1>0, <2>1 DEF MemType
  <2>5. env.cut = {}
    BY <1>0, <2>1 DEF AfterCut, Replacing, Holding
  <2>6. NamesOwn'
    BY <1>0, <2>0, <2>3, <2>4 DEF NamesOwn
  <2>7. ProbeOwn' /\ AfterCut'
    BY <2>1, <2>5 DEF ProbeOwn, AfterCut, Holding
  <2>8. ConflictsStay
    BY <2>2, <2>3 DEF ConflictsStay
  <2> QED BY <2>1, <2>6, <2>7, <2>8 DEF ControlInv, Apart, Labels, Exchanging, Moving, Holding
<1>4. CASE FinishCleanup
  <2>1. /\ UNCHANGED <<fs, env, mem>> /\ pc = "cleanup" /\ pc' = "done"
        /\ row' = row \/ row' = [t \in Targets |-> NoRow]
    BY <1>4 DEF FinishCleanup
  <2>2. \A t \in Targets : row'[t] = row[t] \/ (row'[t].applied = "none" /\ row'[t].restored = "none")
    BY <2>1 DEF NoRow
  <2>3. NamesOwn'
    BY <1>0, <2>1, <2>2 DEF NamesOwn
  <2>4. ProbeOwn' /\ AfterCut'
    BY <2>1 DEF ProbeOwn, AfterCut, Replacing, Holding
  <2> QED BY <2>1, <2>3, <2>4 DEF ControlInv, Apart, Labels, Exchanging, Moving, Holding
<1> QED BY <1>1, <1>2, <1>3, <1>4 DEF Forward

(* The steps of a compensation.                                            *)
LEMMA CompensateControl ==
  ASSUME WriteAheadInv, ForeignInv, Compensate
  PROVE  /\ ControlInv' /\ UNCHANGED <<fs, env>> /\ pc \in Apart \union {"held"}
         /\ pc' \notin Exchanging \union Returning
         /\ pc' \in Holding => mem'.caller # "swap"
         /\ ConflictsStay /\ env.cut = {}
<1> USE DEF Goto
<1>0. /\ TypeInv /\ NamesOwn /\ ProbeOwn /\ AfterCut /\ row \in [Targets -> Row] /\ mem \in MemType
  BY DEF WriteAheadInv, TypeInv, Shapes, ForeignInv, ControlInv
<1>1. /\ UNCHANGED <<fs, env>>
      /\ pc \in {"compensate", "begin_undo", "prepare_undo", "undo", "finish_rows", "held"}
      /\ pc = "held" => mem.caller = "undo"
  BY DEF Compensate, EnterCompensation, BeginUndo, PrepareUndo, UndoPrepared, UndoTarget,
     UndoClassify, UndoFinished, FinishRow, FinishCompensated
<1>2. env.cut = {}
  <2>1. pc = "held" => mem.mode = "undo"
    BY <1>0, <1>1 DEF TypeInv, Places, Holding
  <2> QED BY <1>0, <1>1, <2>1 DEF AfterCut, Replacing, Holding
<1>3. AfterCut' /\ pc \in Apart \union {"held"}
  BY <1>1, <1>2 DEF AfterCut, Apart, Labels, Exchanging, Moving, Holding
<1>4. SUFFICES /\ NamesOwn' /\ ProbeOwn' /\ ConflictsStay
               /\ pc' \notin Exchanging \union Returning
               /\ pc' \in Holding => mem'.caller # "swap"
  BY <1>1, <1>2, <1>3 DEF ControlInv
<1>5. CASE EnterCompensation \/ BeginUndo \/ FinishCompensated
  <2>1. UNCHANGED <<row, mem>> /\ pc' \in {"begin_undo", "prepare_undo", "cleanup"}
    BY <1>5 DEF EnterCompensation, BeginUndo, FinishCompensated
  <2> QED BY <1>0, <2>1 DEF NamesOwn, ProbeOwn, ConflictsStay, Exchanging, Moving, Returning, Holding
<1>6. CASE PrepareUndo
  <2>0. ToPrepare \in SUBSET Targets /\ ToPrepare # {}
    BY <1>6 DEF PrepareUndo, ToPrepare
  <2>1. PICK t \in Targets : MayTransition(t, "restore_prepared") /\ Transition(t, "restore_prepared")
    BY <1>6, <2>0, FirstTarget DEF PrepareUndo
  <2>2. UNCHANGED mem /\ pc' = "prepare_undo"
    BY <1>6 DEF PrepareUndo
  <2>3. /\ ConflictsStay
        /\ \A u \in Targets : row'[u].applied = row[u].applied /\ row'[u].restored = row[u].restored
    BY <1>0, <2>1, TransitionStays DEF WalStates
  <2> QED BY <1>0, <2>2, <2>3 DEF NamesOwn, ProbeOwn, Exchanging, Moving, Returning, Holding
<1>7. CASE UndoPrepared
  <2>1. mem' = [mem EXCEPT !.mode = "undo", !.at = N] /\ UNCHANGED row /\ pc' = "undo"
    BY <1>7 DEF UndoPrepared
  <2>2. mem'.mode = "undo" /\ mem'.inst = mem.inst
    BY <1>0, <2>1 DEF MemType
  <2> QED BY <1>0, <2>1, <2>2 DEF NamesOwn, ProbeOwn, ConflictsStay, Exchanging, Moving, Returning, Holding
<1>8. CASE UndoTarget
  <2> DEFINE t == mem.at
  <2>0. t \in Targets
    BY <1>0, <1>8, PlanAssumption DEF UndoTarget, MemType, Targets
  <2>1. CallRecover("before", AppliedFp(t), "none", mem.inst[t], "undo") /\ UNCHANGED row
    BY <1>8 DEF UndoTarget
  <2>2. /\ AppliedFp(t) \in {"before", "applied"} /\ AppliedFp(t) \in Fingerprints
        /\ "before" \in Fingerprints /\ "none" \in Tokens /\ mem.inst[t] \in Tokens
    BY <1>0, <2>0, SwapValues DEF AppliedFp, Fingerprints, Tokens, OwnTokens
  <2>3. mem.inst[t] # "none" /\ "before" # AppliedFp(t) => [tok |-> mem.inst[t], fp |-> AppliedFp(t)] \in Own
    BY <1>0, <2>0, <2>2 DEF NamesOwn, Own
  <2> HIDE DEF t
  <2>4. NamesOwn' /\ mem'.caller = "undo" /\ pc' = "hold" /\ ProbeOwn'
    BY <1>0, <2>1, <2>2, <2>3, CallLeaves
  <2> QED BY <2>1, <2>4 DEF ConflictsStay, Exchanging, Moving, Returning
<1>9. CASE UndoClassify
  <2> DEFINE t == mem.at
  <2>0. t \in Targets
    BY <1>0, <1>9 DEF UndoClassify, TypeInv, Places, AtTarget, Holding
  <2>1. PICK m \in MemType :
           /\ m.mode = "undo"
           /\ \A u \in Targets \ {t} : m.inst[u] = mem.inst[u]
           /\ m.inst[t] = mem.inst[t] \/ m.inst[t] = "none"
           /\ \/ /\ mem' = [m EXCEPT !.at = t - 1, !.caller = "none", !.phase = "none"] /\ pc' = "undo"
                 /\ UNCHANGED row \/ row' = [row EXCEPT ![t].restored = "orig"]
              \/ mem' = [m EXCEPT !.caller = "none", !.phase = "none"] /\ pc' = "stage" /\ UNCHANGED row
              \/ mem' = Fresh /\ pc' = "stopped" /\ UNCHANGED row
    <3>1. [mem EXCEPT !.failed = TRUE].inst[t] = mem.inst[t] /\ [mem EXCEPT !.inst[t] = "none"].inst[t] = "none"
      BY <1>0, <2>0 DEF MemType
    <3> QED BY <1>0, <1>9, <3>1, UndoClassifyEnds
  <2>2. /\ ConflictsStay
        /\ \A u \in Targets : /\ row'[u].applied = row[u].applied
                              /\ row'[u].restored \in {row[u].restored, "orig"}
    BY <1>0, <2>0, <2>1 DEF ConflictsStay, Row
  <2>3. CASE mem' = Fresh /\ pc' = "stopped" /\ UNCHANGED row
    BY <1>0, <2>2, <2>3, FreshOwn DEF ProbeOwn, Exchanging, Moving, Returning, Holding
  <2>4. CASE \/ mem' = [m EXCEPT !.at = t - 1, !.caller = "none", !.phase = "none"] /\ pc' = "undo"
             \/ mem' = [m EXCEPT !.caller = "none", !.phase = "none"] /\ pc' = "stage"
    <3>1. mem'.mode = m.mode /\ mem'.inst = m.inst /\ pc' \in {"undo", "stage"}
      BY <2>4 DEF MemType
    <3>2. \A u \in Targets : mem'.inst[u] \in {mem.inst[u], "none"}
      BY <2>1, <3>1
    <3>3. NamesOwn'
      BY <1>0, <2>1, <2>2, <3>1, <3>2 DEF NamesOwn
    <3> QED BY <2>2, <3>1, <3>3 DEF ProbeOwn, Exchanging, Moving, Returning, Holding
  <2> QED BY <2>1, <2>3, <2>4
<1>10. CASE UndoFinished
  <2>1. CASE mem' = Fresh /\ pc' = "stopped" /\ UNCHANGED row
    BY <1>0, <2>1, FreshOwn DEF ConflictsStay, ProbeOwn, Exchanging, Moving, Returning, Holding
  <2>2. CASE pc' = "finish_rows" /\ UNCHANGED <<mem, row>>
    BY <1>0, <2>2 DEF NamesOwn, ConflictsStay, ProbeOwn, Exchanging, Moving, Returning, Holding
  <2> QED BY <1>10, <2>1, <2>2 DEF UndoFinished, StopUndo
<1>11. CASE FinishRow
  <2>0. Unfinished \in SUBSET Targets /\ Unfinished # {}
    BY <1>11 DEF FinishRow, Unfinished
  <2>1. CASE mem' = Fresh /\ pc' = "stopped" /\ UNCHANGED row
    BY <1>0, <2>1, FreshOwn DEF ConflictsStay, ProbeOwn, Exchanging, Moving, Returning, Holding
  <2>2. CASE /\ \E t \in Targets, s \in {"conflict", "restored"} : MayTransition(t, s) /\ Transition(t, s)
             /\ UNCHANGED <<pc, mem>>
    <3>1. PICK t \in Targets, s \in {"conflict", "restored"} : MayTransition(t, s) /\ Transition(t, s)
      BY <2>2
    <3>2. /\ ConflictsStay
          /\ \A u \in Targets : row'[u].applied = row[u].applied /\ row'[u].restored = row[u].restored
      BY <1>0, <3>1, TransitionStays DEF WalStates
    <3>3. pc' = "finish_rows"
      BY <1>11, <2>2 DEF FinishRow
    <3> QED BY <1>0, <2>2, <3>2, <3>3 DEF NamesOwn, ProbeOwn, Exchanging, Moving, Returning, Holding
  <2>3. Min(Unfinished) \in Targets
    BY <2>0, FirstTarget
  <2> QED BY <1>11, <2>1, <2>2, <2>3 DEF FinishRow, StopUndo
<1> QED BY <1>5, <1>6, <1>7, <1>8, <1>9, <1>10, <1>11 DEF Compensate

(* The steps of a recovery.                                                *)
LEMMA RecoverControl ==
  ASSUME WriteAheadInv, ForeignInv, Recover
  PROVE  /\ ControlInv' /\ UNCHANGED <<fs, env>> /\ pc \in Apart \union {"held"}
         /\ pc' \notin Exchanging \union Returning
         /\ pc' \in Holding => mem'.caller # "swap"
         /\ ConflictsStay
         /\ pc = "held" /\ mem.phase = "error" /\ Resuming => row'[mem.at].state = "conflict"
<1> USE DEF Goto
<1>0. /\ TypeInv /\ NamesOwn /\ ProbeOwn /\ AfterCut /\ row \in [Targets -> Row] /\ mem \in MemType
  BY DEF WriteAheadInv, TypeInv, Shapes, ForeignInv, ControlInv
<1>1. /\ UNCHANGED <<fs, env>>
      /\ pc \in {"down", "refused", "stopped", "recover", "mark_restored", "sandbox", "held"}
  BY DEF Recover, Restart, ProbeRow, ProbeClassify, MarkRestored, FinishRecovery, CleanSandbox
<1>2. pc \in Apart \union {"held"}
  BY <1>1 DEF Apart, Labels, Exchanging, Moving, Holding
<1>3. SUFFICES /\ NamesOwn' /\ ProbeOwn' /\ AfterCut' /\ ConflictsStay
               /\ pc' \notin Exchanging \union Returning
               /\ pc' \in Holding => mem'.caller # "swap"
               /\ pc = "held" /\ mem.phase = "error" /\ Resuming => row'[mem.at].state = "conflict"
  BY <1>1, <1>2 DEF ControlInv
<1>4. ASSUME pc' \in {"recover", "sandbox", "cleanup", "refused", "mark_restored"}
      PROVE  ProbeOwn' /\ AfterCut' /\ pc' \notin Exchanging \union Returning \union Holding
  BY <1>4 DEF ProbeOwn, AfterCut, Replacing, Exchanging, Moving, Returning, Holding
<1>5. CASE Restart
  <2>1. /\ mem' = [Fresh EXCEPT !.mode = "recover", !.at = N] /\ UNCHANGED row /\ pc # "held"
        /\ pc' \in {"recover", "sandbox", "cleanup"}
    BY <1>5 DEF Restart
  <2>2. NamesOwn' /\ ConflictsStay
    BY <1>0, <2>1, FreshOwn DEF ConflictsStay
  <2> QED BY <1>4, <2>1, <2>2
<1>6. CASE FinishRecovery \/ CleanSandbox
  <2>1. /\ mem' \in {mem, Fresh} /\ UNCHANGED row /\ pc # "held"
        /\ pc' \in {"sandbox", "cleanup", "refused"}
    BY <1>6 DEF FinishRecovery, CleanSandbox, Refuse
  <2>2. NamesOwn' /\ ConflictsStay
    BY <1>0, <2>1, FreshOwn DEF ConflictsStay, NamesOwn
  <2> QED BY <1>4, <2>1, <2>2
<1>7. CASE MarkRestored
  <2> DEFINE t == mem.at
  <2>0. t \in Targets /\ pc = "mark_restored"
    BY <1>0, <1>7 DEF MarkRestored, TypeInv, Places, AtTarget
  <2>1. CASE mem' = Fresh /\ pc' = "refused" /\ UNCHANGED row
    BY <1>0, <1>4, <2>0, <2>1, FreshOwn DEF ConflictsStay
  <2>2. CASE /\ MayTransition(t, "restored") /\ Transition(t, "restored")
             /\ mem' = [mem EXCEPT !.at = t - 1] /\ pc' = "recover"
    <3>1. /\ ConflictsStay
          /\ \A u \in Targets : row'[u].applied = row[u].applied /\ row'[u].restored = row[u].restored
      BY <1>0, <2>0, <2>2, TransitionStays DEF WalStates
    <3>2. mem'.mode = mem.mode /\ mem'.inst = mem.inst /\ mem'.staged = mem.staged
      BY <1>0, <2>2 DEF MemType
    <3>3. NamesOwn'
      BY <1>0, <3>1, <3>2 DEF NamesOwn
    <3> QED BY <1>4, <2>0, <2>2, <3>1, <3>3
  <2> QED BY <1>7, <2>1, <2>2 DEF MarkRestored, Refuse
<1>8. CASE ProbeRow
  <2> DEFINE t == mem.at
             r == row[t]
  <2>0. t \in Targets /\ pc = "recover" /\ UNCHANGED row /\ mem.mode = "recover" /\ ConflictsStay
    BY <1>0, <1>8, PlanAssumption DEF ProbeRow, MemType, Targets, TypeInv, Places, ConflictsStay
  <2>1. CASE mem' = [mem EXCEPT !.at = t - 1] /\ UNCHANGED pc
    <3>1. mem'.mode = mem.mode /\ mem'.inst = mem.inst /\ mem'.staged = mem.staged
      BY <1>0, <2>1 DEF MemType
    <3> QED BY <1>0, <1>4, <2>0, <2>1, <3>1 DEF NamesOwn
  <2>2. CASE mem' = [mem EXCEPT !.phase = "restored", !.caller = "probe"] /\ pc' = "held"
    <3>1. /\ mem'.mode = mem.mode /\ mem'.inst = mem.inst /\ mem'.staged = mem.staged
          /\ mem'.phase = "restored" /\ mem'.caller = "probe"
      BY <1>0, <2>2 DEF MemType
    <3>2. NamesOwn' /\ ProbeOwn' /\ AfterCut'
      BY <1>0, <2>0, <2>2, <3>1 DEF NamesOwn, ProbeOwn, AfterCut, Holding
    <3> QED BY <2>0, <2>2, <3>1, <3>2 DEF Exchanging, Moving, Returning
  <2>3. ASSUME NEW b \in {"before", "applied"}, NEW a \in {"before", "applied"}, NEW k \in Tokens,
               NEW v \in Tokens, CallRecover(b, a, k, v, "probe"),
               v # "none" /\ b # a => [tok |-> v, fp |-> a] \in Own,
               r.state \in {"prepared", "applied", "restore_prepared"}
        PROVE  /\ NamesOwn' /\ ProbeOwn' /\ AfterCut' /\ pc' = "hold" /\ mem'.caller = "probe"
    <3>1. b \in Fingerprints /\ a \in Fingerprints
      BY DEF Fingerprints
    <3>2. /\ NamesOwn' /\ mem'.mode = mem.mode /\ mem'.at = mem.at /\ mem'.caller = "probe"
          /\ pc' = "hold" /\ ProbeOwn'
      BY <1>0, <2>0, <2>3, <3>1, CallLeaves
    <3>3. AfterCut'
      BY <2>0, <2>3, <3>2 DEF AfterCut, Holding
    <3> QED BY <3>2, <3>3
  <2>4. /\ AppliedFp(t) \in {"before", "applied"} /\ (t \notin Unchanged => AppliedFp(t) = "applied")
        /\ (t \in Unchanged => AppliedFp(t) = "before")
        /\ "orig" \in Tokens /\ r.applied \in Tokens /\ r.restored \in Tokens
        /\ r.applied \in {"none", "cand"} /\ r.restored \in {"none", "orig", "rest", "rest2"}
    BY <1>0, <2>0, SwapValues DEF AppliedFp, Tokens, OwnTokens, NamesOwn
  <2>5. CASE /\ r.state = "restore_prepared" /\ t \notin Unchanged
             /\ CallRecover(AppliedFp(t), "before", r.applied, r.restored, "probe")
    <3>1. r.restored # "none" => [tok |-> r.restored, fp |-> "before"] \in Own
      BY <2>4 DEF Own, Original
    <3>2. NamesOwn' /\ ProbeOwn' /\ AfterCut' /\ pc' = "hold" /\ mem'.caller = "probe"
      BY <2>3, <2>4, <2>5, <3>1
    <3> QED BY <2>0, <3>2 DEF Exchanging, Moving, Returning
  <2>6. CASE /\ r.state \in {"prepared", "applied"}
             /\ CallRecover("before", AppliedFp(t), "orig",
                            IF r.state = "applied" /\ t \in Unchanged THEN "orig" ELSE r.applied, "probe")
    <3> DEFINE v == IF r.state = "applied" /\ t \in Unchanged THEN "orig" ELSE r.applied
    <3>1. v \in Tokens /\ (v # "none" /\ "before" # AppliedFp(t) => [tok |-> v, fp |-> AppliedFp(t)] \in Own)
      BY <2>4 DEF Own
    <3>2. CallRecover("before", AppliedFp(t), "orig", v, "probe")
      BY <2>6
    <3> HIDE DEF v
    <3>3. NamesOwn' /\ ProbeOwn' /\ AfterCut' /\ pc' = "hold" /\ mem'.caller = "probe"
      BY <2>3, <2>4, <2>6, <3>1, <3>2
    <3> QED BY <2>0, <3>3 DEF Exchanging, Moving, Returning
  <2> QED BY <1>8, <2>1, <2>2, <2>5, <2>6 DEF ProbeRow
<1>9. CASE ProbeClassify
  <2> DEFINE t == mem.at
  <2>0. t \in Targets /\ pc = "held" /\ mem.mode = "recover" /\ mem.caller = "probe"
    BY <1>0, <1>9 DEF ProbeClassify, TypeInv, Places, AtTarget, Holding
  <2>1. CASE mem' = Fresh /\ pc' = "refused" /\ UNCHANGED row
    <3>1. mem.phase = "error" /\ Resuming => FALSE
      <4> SUFFICES ASSUME mem.phase = "error", Resuming PROVE FALSE
        OBVIOUS
      <4>1. row[t].state \in {"prepared", "applied", "restore_prepared"}
        BY <1>0, <2>0 DEF AfterCut, Resuming, Holding
      <4>2. MayTransition(t, "conflict")
        BY <4>1 DEF MayTransition, Advance
      <4>3. Transition(t, "conflict") /\ pc' = "recover"
        BY <1>9, <4>2 DEF ProbeClassify
      <4> QED BY <2>1, <4>3
    <3> QED BY <1>0, <1>4, <2>1, <3>1, FreshOwn DEF ConflictsStay
  <2>2. ASSUME NEW s \in WalStates, MayTransition(t, s), Transition(t, s)
        PROVE  /\ ConflictsStay /\ row'[t].state = s
               /\ \A u \in Targets : row'[u].applied = row[u].applied /\ row'[u].restored = row[u].restored
    BY <1>0, <2>0, <2>2, TransitionStays, TransitionRow
  <2>3. CASE /\ mem' = [mem EXCEPT !.at = t - 1, !.caller = "none", !.phase = "none"]
             /\ pc' = "recover"
             /\ \/ MayTransition(t, "conflict") /\ Transition(t, "conflict")
                \/ UNCHANGED row /\ mem.phase = "restored"
    <3>1. /\ mem'.mode = mem.mode /\ mem'.inst = mem.inst /\ mem'.staged = mem.staged
      BY <1>0, <2>3 DEF MemType
    <3>2. /\ ConflictsStay
          /\ \A u \in Targets : row'[u].applied = row[u].applied /\ row'[u].restored = row[u].restored
          /\ mem.phase = "error" => row'[t].state = "conflict"
      BY <2>2, <2>3 DEF WalStates, ConflictsStay
    <3>3. NamesOwn'
      BY <1>0, <3>1, <3>2 DEF NamesOwn
    <3> QED BY <1>4, <2>3, <3>2, <3>3
  <2>4. CASE /\ mem' = [mem EXCEPT !.caller = "none", !.phase = "none"]
             /\ pc' \in {"mark_restored", "stage"} /\ mem.phase = "restored"
             /\ \/ UNCHANGED row /\ pc' = "mark_restored"
                \/ MayTransition(t, "restore_prepared") /\ Transition(t, "restore_prepared")
    <3>1. /\ mem'.mode = mem.mode /\ mem'.inst = mem.inst /\ mem'.staged = mem.staged /\ mem'.at = mem.at
      BY <1>0, <2>4 DEF MemType
    <3>2. /\ ConflictsStay
          /\ \A u \in Targets : row'[u].applied = row[u].applied /\ row'[u].restored = row[u].restored
          /\ pc' = "stage" => row'[t].state = "restore_prepared"
      BY <2>2, <2>4 DEF WalStates, ConflictsStay
    <3>3. NamesOwn'
      BY <1>0, <3>1, <3>2 DEF NamesOwn
    <3>4. pc' = "stage" => ProbeOwn' /\ AfterCut' /\ pc' \notin Exchanging \union Returning \union Holding
      BY <2>0, <3>1, <3>2 DEF ProbeOwn, AfterCut, Replacing, Exchanging, Moving, Returning, Holding
    <3> QED BY <1>4, <2>4, <3>2, <3>3, <3>4
  <2> HIDE DEF t
  <2>5. t = mem.at
    BY DEF t
  <2> QED BY <1>0, <1>9, <2>1, <2>3, <2>4, <2>5, ProbeClassifyEnds
<1> QED BY <1>5, <1>6, <1>7, <1>8, <1>9 DEF Recover

(* A change by another program.  It uses up one of the changes that are    *)
(* counted, and what it leaves under the name is an object of the daemon   *)
(* only when one was there.                                                *)
LEMMA ForeignChangeKept ==
  ASSUME WriteAheadInv, ForeignInv, NEW u \in Targets, ForeignChange(u), FewFaults'
  PROVE  ControlInv' /\ \A t \in Targets : Kept(t)'
<1>0. /\ UNCHANGED <<row, tx, pc, mem>> /\ env \in EnvType /\ fs \in [Targets -> FileType]
      /\ TypeInv /\ NamesOwn /\ ProbeOwn /\ AfterCut /\ \A t \in Targets : Kept(t)
  BY DEF ForeignChange, WriteAheadInv, TypeInv, Shapes, ForeignInv, ControlInv
<1>1. /\ env'.foreigns = env.foreigns + 1 /\ env'.cut = env.cut /\ env.foreigns \in Nat
      /\ env.foreigns < MaxForeign
  BY <1>0 DEF ForeignChange, EnvType
<1>2. PICK new \in (Written(u) \union {NoObject}) \ {fs[u].target} : fs' = [fs EXCEPT ![u].target = new]
  BY DEF ForeignChange
<1>3. /\ fs'[u].target = new /\ fs'[u].backup = fs[u].backup /\ fs'[u].temp = fs[u].temp
      /\ \A t \in Targets \ {u} : fs'[t] = fs[t]
  BY <1>0, <1>2 DEF FileType
<1>4. ControlInv'
  <2>1. NamesOwn' /\ ProbeOwn'
    BY <1>0 DEF NamesOwn, ProbeOwn, ProbesOwn
  <2>2. AfterCut'
    BY <1>0, <1>1 DEF AfterCut
  <2> QED BY <2>1, <2>2 DEF ControlInv
<1>5. /\ Changed(1)' /\ (Changed(1) => Changed(2)') /\ ~Changed(2)
      /\ Resuming' = Resuming
  BY <1>0, <1>1 DEF Changed, Resuming, FewFaults
<1>6. new \in Own => new.tok = fs[u].target.tok /\ fs[u].target # NoObject
  <2> SUFFICES ASSUME new \in Own PROVE new.tok = fs[u].target.tok /\ fs[u].target # NoObject
    OBVIOUS
  <2>1. new.tok \in {"orig", "cand", "rest", "rest2"} /\ new # NoObject
    BY OwnObjects
  <2>2. PICK k \in {Alien} \union ({fs[u].target.tok} \ {"none"}), f \in {"before", "foreign"} \union {AppliedFp(u)} :
          new = [tok |-> k, fp |-> f]
    BY <1>2, <2>1 DEF Written
  <2>3. Alien \notin OwnTokens
    BY <1>0, <1>1, AlienIsNew
  <2>4. k = fs[u].target.tok /\ k # "none" /\ new.tok = k
    BY <2>1, <2>2, <2>3 DEF OwnTokens
  <2> QED BY <2>4 DEF NoObject
<1>7. ASSUME NEW t \in Targets PROVE Aside(t)' /\ Leavings(t)'
  <2>1. Aside(t)'
    <3>1. fs'[t].temp = fs[t].temp
      BY <1>3
    <3> QED BY <1>0, <1>1, <1>5, <3>1 DEF Kept, Aside
  <2>2. Loose(t) => Loose(t)'
    <3>1. fs'[t].backup = fs[t].backup
      BY <1>3
    <3> QED BY <1>5, <3>1 DEF Loose
  <2> QED BY <1>0, <1>1, <2>1, <2>2 DEF Kept, Leavings
<1>8. \A t \in Targets : Staged(t)' = Staged(t) /\ Expected(t)' = Expected(t)
  BY <1>0 DEF Staged, Expected, DesiredFp
<1>9. ASSUME mem.at = u PROVE Exchange(u)' /\ GivingBack(u)'
  <2>0. Exchange(u) /\ GivingBack(u)
    BY <1>0, <1>9 DEF Kept
  <2>1. pc \in {"moved", "install"} => (new # NoObject => Changed(1)' /\ (new \in Own => Changed(2)'))
    BY <1>5, <1>6, <2>0 DEF Exchange
  <2>2. pc \in {"check", "drop"} => (new # Staged(u) => Changed(1)' /\ (new \in Own => Changed(2)'))
    <3> SUFFICES ASSUME pc \in {"check", "drop"}, new \in Own PROVE Changed(2)'
      BY <1>5
    <3>1. CASE fs[u].target = Staged(u)
      <4>1. Staged(u) \in Own
        BY <2>0 DEF Exchange, Exchanging, Moving
      <4>2. new = Staged(u)
        BY <1>6, <3>1, <4>1, OwnObjects
      <4> QED BY <1>2, <3>1, <4>2
    <3>2. CASE fs[u].target # Staged(u)
      BY <1>5, <2>0, <3>2 DEF Exchange
    <3> QED BY <3>1, <3>2
  <2>3. pc = "moved" => (fs[u].backup # Expected(u) => Changed(1)' /\ Changed(2)')
    BY <1>5, <2>0 DEF Exchange
  <2>4. Exchange(u)'
    BY <1>0, <1>3, <1>5, <1>8, <2>0, <2>1, <2>2, <2>3 DEF Exchange
  <2>5. GivingBack(u)'
    BY <1>0, <1>3, <1>5, <2>0 DEF GivingBack
  <2> QED BY <2>4, <2>5
<1>10. ASSUME NEW t \in Targets, t # u, mem.at = t PROVE Exchange(t)' /\ GivingBack(t)'
  <2>0. Exchange(t) /\ GivingBack(t) /\ fs'[t] = fs[t]
    BY <1>0, <1>3, <1>10 DEF Kept
  <2>1. Changed(2)' \/ ~Changed(1)
    BY <1>5
  <2>2. Exchange(t)'
    BY <1>0, <1>5, <1>8, <2>0 DEF Exchange
  <2>3. GivingBack(t)'
    BY <1>0, <1>5, <2>0 DEF GivingBack
  <2> QED BY <2>2, <2>3
<1>11. ASSUME NEW t \in Targets PROVE Kept(t)'
  BY <1>0, <1>7, <1>9, <1>10 DEF Kept
<1> QED BY <1>4, <1>11

(* A death of the daemon, the first one if a replacement is cut.           *)
LEMMA CrashKept ==
  ASSUME WriteAheadInv, ForeignInv, CutCounted, Crash, FewFaults'
  PROVE  ControlInv' /\ (\A t \in Targets : Kept(t)') /\ UNCHANGED fs
<1>0. /\ UNCHANGED <<fs, row, tx>> /\ env \in EnvType /\ pc # "done" /\ pc' = "down" /\ mem' = Fresh
      /\ NamesOwn /\ \A t \in Targets : Kept(t)
  BY DEF Crash, Goto, WriteAheadInv, TypeInv, Shapes, ForeignInv, ControlInv
<1>1. /\ env'.foreigns = env.foreigns /\ env'.crashes = env.crashes + 1
      /\ env'.cut = env.cut \union Cut /\ (pc \in InSwap => env'.cut # {})
  BY <1>0 DEF Crash, EnvType, Cut
<1>a. env.cut = {}
  BY <1>0, <1>1 DEF CutCounted, FewFaults, EnvType
<1>2. ControlInv'
  <2>1. NamesOwn'
    BY <1>0, FreshOwn
  <2>2. ProbeOwn' /\ AfterCut'
    BY <1>0 DEF ProbeOwn, AfterCut, Replacing, Holding
  <2> QED BY <2>1, <2>2 DEF ControlInv
<1>3. ASSUME NEW t \in Targets PROVE Kept(t)'
  <2>1. Aside(t)'
    BY <1>0, <1>a DEF Kept, Aside
  <2>2. Leavings(t)'
    <3>1. CASE pc \in Moving
      BY <1>0, <1>1, <3>1 DEF Leavings, Moving, InSwap, Holding
    <3>2. CASE pc \notin Moving
      <4>1. Loose(t)
        BY <1>0, <1>a, <3>2 DEF Kept, Leavings
      <4> QED BY <1>0, <1>1, <4>1 DEF Leavings, Loose, Changed
    <3> QED BY <3>1, <3>2
  <2>3. Exchange(t)' /\ GivingBack(t)'
    BY <1>0 DEF Exchange, GivingBack, Exchanging, Moving
  <2> QED BY <2>1, <2>2, <2>3 DEF Kept
<1> QED BY <1>0, <1>2, <1>3

(* Every step keeps the invariant while the faults are few, and every step *)
(* of the daemon keeps what other programs wrote.                          *)
LEMMA ForeignStep ==
  ASSUME WriteAheadInv, ForeignInv, CutCounted, [Next]_vars
  PROVE  /\ FewFaults' => ForeignInv'
         /\ env'.foreigns = env.foreigns => \A t \in Targets : Lossless(fs[t], fs'[t])
<1>0. TypeInv /\ \A t \in Targets : Kept(t)
  BY DEF WriteAheadInv, ForeignInv
<1>1. CASE Swap \/ Hold
  <2>1. /\ mem.at \in Targets /\ pc \in AtTarget /\ OneTarget
        /\ \A u \in Targets \ {mem.at} : fs'[u] = fs[u]
    BY <1>0, <1>1, FilesAtOne, WorkAtOne
  <2>2. ASSUME NEW t \in Targets PROVE ControlInv' /\ Kept(t)' /\ Lossless(fs[t], fs'[t])
    <3>1. CASE t = mem.at
      BY <1>1, <3>1, WorkKept
    <3>2. CASE t # mem.at
      <4>1. Kept(t)' /\ Lossless(fs[t], fs'[t])
        BY <1>0, <2>1, <3>2, OthersKept, SameLossless
      <4>2. PICK s \in Targets : s = mem.at
        BY <2>1
      <4>3. ControlInv'
        BY <1>1, <4>2, WorkKept
      <4> QED BY <4>1, <4>3
    <3> QED BY <3>1, <3>2
  <2> QED BY <2>1, <2>2 DEF ForeignInv
<1>2. ASSUME Forward \/ Compensate \/ Recover
      PROVE  ControlInv' /\ UNCHANGED fs /\ \A t \in Targets : Kept(t)'
  <2>1. /\ ControlInv' /\ UNCHANGED <<fs, env>> /\ pc \in Apart \union {"held"}
        /\ pc' \notin Exchanging \union Returning
        /\ pc' \in Holding => mem'.caller # "swap"
        /\ ConflictsStay \/ pc' = "done"
        /\ pc = "held" /\ mem.phase = "error" /\ Resuming => row'[mem.at].state = "conflict"
    <3>1. CASE Forward
      BY <3>1, ForwardControl DEF Apart, Holding, Returning
    <3>2. CASE Compensate
      BY <3>2, CompensateControl DEF Resuming
    <3>3. CASE Recover
      BY <3>3, RecoverControl
    <3> QED BY <1>2, <3>1, <3>2, <3>3
  <2>2. pc \notin Exchanging \union (Holding \ {"held"}) \union {"done"}
    BY <2>1 DEF Apart, Exchanging, Moving
  <2>3. ASSUME NEW t \in Targets PROVE Kept(t)'
    BY <2>1, <2>2, StillKept
  <2> QED BY <2>1, <2>3
<1>3. CASE Forward \/ Compensate \/ Recover
  BY <1>2, <1>3, SameLossless DEF ForeignInv
<1>4. CASE Foreign
  <2>1. PICK u \in Targets : ForeignChange(u)
    BY <1>4 DEF Foreign
  <2>2. env'.foreigns # env.foreigns
    BY <1>0, <2>1 DEF ForeignChange, TypeInv, Shapes, EnvType
  <2> QED BY <2>1, <2>2, ForeignChangeKept DEF ForeignInv
<1>5. CASE Crash
  <2>1. UNCHANGED fs
    BY <1>5 DEF Crash
  <2>2. FewFaults' => ForeignInv'
    BY <1>5, CrashKept DEF ForeignInv
  <2> QED BY <2>1, <2>2, SameLossless
<1>6. CASE UNCHANGED vars
  <2>1. /\ ControlInv'
    BY <1>6 DEF vars, ForeignInv, ControlInv, NamesOwn, ProbeOwn, ProbesOwn, AfterCut
  <2>2. ASSUME NEW t \in Targets PROVE Kept(t)'
    <3>1. Aside(t)' /\ Leavings(t)'
      BY <1>0, <1>6 DEF vars, Kept, Aside, Resuming, Leavings, Loose, Changed
    <3>2. Staged(t)' = Staged(t) /\ Expected(t)' = Expected(t)
      BY <1>6 DEF vars, Staged, Expected, DesiredFp
    <3>3. mem.at = t => Exchange(t)' /\ GivingBack(t)'
      BY <1>0, <1>6, <3>2 DEF vars, Kept, Exchange, GivingBack, Resuming, Changed
    <3> QED BY <1>6, <3>1, <3>3 DEF vars, Kept
  <2> QED BY <1>6, <2>1, <2>2, SameLossless DEF vars, ForeignInv
<1> QED BY <1>1, <1>3, <1>4, <1>5, <1>6 DEF Next, Daemon, Done

(* It holds at first.                                                      *)
LEMMA ForeignInit == Init => ForeignInv
<1> SUFFICES ASSUME Init PROVE ForeignInv
  OBVIOUS
<1>0. /\ pc = "idle" /\ mem = Fresh /\ env.cut = {}
      /\ \A t \in Targets : /\ fs[t].target = Original /\ fs[t].backup = NoObject /\ fs[t].temp = NoObject
                            /\ row[t] = NoRow
  BY DEF Init
<1>1. NamesOwn
  <2>1. Fresh.inst = [t \in Targets |-> "none"] /\ Fresh.staged = "none"
    BY DEF Fresh
  <2>2. \A t \in Targets : mem.inst[t] = "none"
    BY <1>0, <2>1
  <2> QED BY <1>0, <2>1, <2>2 DEF NamesOwn, NoRow
<1>2. ProbeOwn /\ AfterCut
  BY <1>0 DEF ProbeOwn, AfterCut, Holding
<1>3. ASSUME NEW t \in Targets PROVE Kept(t)
  BY <1>0 DEF Kept, Aside, Leavings, Loose, Exchange, GivingBack, Exchanging, Moving, NoObject
<1> QED BY <1>1, <1>2, <1>3 DEF ForeignInv, ControlInv


-----------------------------------------------------------------------------
(* Foreign objects, whatever happened before.                              *)

(* Where the staged file has the temporary name.                           *)
StagedPlaces == {"persist", "move", "moved", "install"}

(* What the daemon unlinks, or moves another object over, is not foreign,  *)
(* except where cleanup_recovery_temp unlinks the temporary name.          *)
Harmless ==
  /\ pc \in Holding \ {"held"} =>
       mem.probe.before \in {"before", "applied"} /\ mem.probe.applied \in {"before", "applied"}
  /\ pc \in StagedPlaces => fs[mem.at].temp.fp # "foreign"
  /\ pc \in {"give_back", "given"} /\ mem.probe.extra => fs[mem.at].temp.fp # "foreign"
  /\ pc = "given" => fs[mem.at].backup = NoObject

(* It says nothing of the other places.                                    *)
LEMMA HarmlessElsewhere ==
  ASSUME pc' \notin (Holding \ {"held"}) \union StagedPlaces
  PROVE  Harmless'
  BY DEF Harmless, Holding

(* A call of recover_interrupted_replace_held with the daemon's own        *)
(* fingerprints.                                                           *)
LEMMA CallHarmless ==
  ASSUME TypeInv, NEW b \in {"before", "applied"}, NEW a \in {"before", "applied"}, NEW k, NEW v, NEW c,
         CallRecover(b, a, k, v, c)
  PROVE  Harmless'
<1> DEFINE p == [NoProbe EXCEPT !.before = b, !.applied = a, !.backup = k, !.provenance = v]
<1>1. p.before = b /\ p.applied = a
  BY DEF NoProbe
<1>2. mem' = [mem EXCEPT !.probe = p, !.caller = c, !.phase = "none"] /\ pc' = "hold"
  BY DEF CallRecover, Goto
<1> HIDE DEF p
<1>3. mem'.probe = p
  BY <1>2 DEF TypeInv, Shapes, MemType
<1> QED BY <1>1, <1>2, <1>3 DEF Harmless, StagedPlaces

(* An answer of it.                                                        *)
LEMMA HeldHarmless ==
  ASSUME NEW p, Held(p)
  PROVE  Harmless'
<1>1. pc' = "held"
  BY DEF Held, Goto
<1> QED BY <1>1, HarmlessElsewhere DEF Holding, StagedPlaces

(* The replacement of a file.                                              *)
LEMMA SwapHarmless ==
  ASSUME WriteAheadInv, Harmless, Swap, NEW t \in Targets, t = mem.at
  PROVE  Harmless' /\ Lossless(fs[t], fs'[t])
<1> USE DEF Goto
<1>0. /\ TypeInv /\ fs \in [Targets -> FileType] /\ fs[t] \in FileType
      /\ mem.staged \in Tokens /\ "none" \in Tokens
      /\ DesiredFp(t) \in {"before", "applied"} /\ Expected(t).fp \in {"before", "applied"}
  BY SwapValues DEF WriteAheadInv, TypeInv, Shapes, MemType, Tokens, Expected, Original, AppliedFp
<1>1. \A i \in Tokens : SwapFailed(t, i) => Harmless'
  <2> SUFFICES ASSUME NEW i \in Tokens, SwapFailed(t, i) PROVE Harmless'
    OBVIOUS
  <2>1. pc' \in {"compensate", "undo", "recover"}
    BY <1>0, SwapFailedTypes
  <2> QED BY <2>1, HarmlessElsewhere DEF Holding, StagedPlaces
<1>2. SwapDone(t) => Harmless'
  <2> SUFFICES ASSUME SwapDone(t) PROVE Harmless'
    OBVIOUS
  <2>1. pc' \in {"mark", "undo", "mark_restored"}
    BY <1>0 DEF SwapDone, TypeInv, Shapes, MemType
  <2> QED BY <2>1, HarmlessElsewhere DEF Holding, StagedPlaces
<1>3. CASE Stage
  <2>1. CASE (SwapFailed(t, "none") \/ SwapDone(t)) /\ UNCHANGED fs
    BY <1>0, <1>1, <1>2, <2>1, SameLossless
  <2>2. CASE /\ fs[t].temp = NoObject /\ pc' = "persist"
             /\ fs' = [fs EXCEPT ![t].temp = [tok |-> NewToken(t), fp |-> DesiredFp(t)]]
             /\ mem' = [mem EXCEPT !.staged = NewToken(t)]
    <3>1. /\ fs'[t].target = fs[t].target /\ fs'[t].backup = fs[t].backup
          /\ fs'[t].temp.fp = DesiredFp(t) /\ mem'.at = t
      BY <1>0, <2>2 DEF FileType, TypeInv, Shapes, MemType
    <3> QED BY <1>0, <2>2, <3>1 DEF Harmless, Holding, Lossless, Stays, NoObject
  <2> QED BY <1>3, <2>1, <2>2 DEF Stage
<1>4. CASE PersistCandidate
  <2>0. pc = "persist" /\ fs[t].temp.fp # "foreign"
    BY <1>4 DEF PersistCandidate, Harmless, StagedPlaces
  <2>1. CASE DropTemp(t) /\ SwapFailed(t, "none")
    <3>1. fs'[t].target = fs[t].target /\ fs'[t].backup = fs[t].backup
      BY <1>0, <2>1 DEF DropTemp, FileType
    <3> QED BY <1>0, <1>1, <2>0, <2>1, <3>1 DEF Lossless, Stays
  <2>2. CASE pc' = "move" /\ UNCHANGED <<fs, mem>>
    BY <2>0, <2>2, SameLossless DEF Harmless, Holding
  <2> QED BY <1>4, <2>1, <2>2 DEF PersistCandidate
<1>5. CASE CandidateRefused
  <2>0. pc = "persist" /\ fs[t].temp.fp # "foreign" /\ DropTemp(t)
    BY <1>5 DEF CandidateRefused, Harmless, StagedPlaces
  <2>1. fs'[t].target = fs[t].target /\ fs'[t].backup = fs[t].backup
    BY <1>0, <2>0 DEF DropTemp, FileType
  <2>2. Harmless'
    <3>1. CASE pc' = "refused"
      BY <3>1, HarmlessElsewhere DEF Holding, StagedPlaces
    <3> QED BY <1>0, <1>1, <1>5, <3>1 DEF CandidateRefused
  <2> QED BY <2>0, <2>1, <2>2 DEF Lossless, Stays
<1>6. CASE MoveAside
  <2>0. pc = "move" /\ fs[t].temp.fp # "foreign"
    BY <1>6 DEF MoveAside, Harmless, StagedPlaces
  <2>1. CASE /\ fs[t].backup = NoObject /\ pc' = "moved" /\ UNCHANGED mem
             /\ fs' = [fs EXCEPT ![t].target = NoObject, ![t].backup = fs[t].target]
    <3>1. fs'[t].backup = fs[t].target /\ fs'[t].temp = fs[t].temp
      BY <1>0, <2>1 DEF FileType
    <3> QED BY <2>0, <2>1, <3>1 DEF Harmless, Holding, Lossless, Stays, NoObject
  <2>2. CASE DropTemp(t) /\ SwapFailed(t, mem.staged)
    <3>1. fs'[t].target = fs[t].target /\ fs'[t].backup = fs[t].backup
      BY <1>0, <2>2 DEF DropTemp, FileType
    <3> QED BY <1>0, <1>1, <2>0, <2>2, <3>1 DEF Lossless, Stays
  <2> QED BY <1>6, <2>1, <2>2 DEF MoveAside
<1>7. CASE CheckBackup
  <2>0. pc = "moved" /\ fs[t].temp.fp # "foreign"
    BY <1>7 DEF CheckBackup, Harmless, StagedPlaces
  <2>1. CASE pc' = "install" /\ UNCHANGED <<fs, mem>>
    BY <2>0, <2>1, SameLossless DEF Harmless, Holding
  <2>2. CASE pc' # "install" /\ SwapFailed(t, mem.staged)
    <3> DEFINE free == fs[t].target = NoObject
    <3>1. fs' = [fs EXCEPT ![t] = [target |-> IF free THEN fs[t].backup ELSE fs[t].target,
                                   backup |-> IF free THEN NoObject ELSE fs[t].backup,
                                   temp |-> NoObject]]
      BY <1>7, <2>2 DEF CheckBackup
    <3>2. /\ free => fs'[t].target = fs[t].backup
          /\ ~free => fs'[t].target = fs[t].target /\ fs'[t].backup = fs[t].backup
      BY <1>0, <3>1
    <3> QED BY <1>0, <1>1, <2>0, <2>2, <3>2 DEF Lossless, Stays, NoObject
  <2>3. SwapFailed(t, mem.staged) => pc' # "install"
    BY <1>0, SwapFailedTypes
  <2> QED BY <1>7, <2>1, <2>2, <2>3 DEF CheckBackup
<1>8. CASE Install
  <2>0. pc = "install" /\ fs[t].temp.fp # "foreign"
    BY <1>8 DEF Install, Harmless, StagedPlaces
  <2>1. CASE /\ fs[t].target = NoObject /\ pc' = "check"
             /\ fs' = [fs EXCEPT ![t].target = fs[t].temp, ![t].temp = NoObject]
    <3>1. fs'[t].backup = fs[t].backup
      BY <1>0, <2>1 DEF FileType
    <3>2. Harmless'
      BY <2>1, HarmlessElsewhere DEF Holding, StagedPlaces
    <3> QED BY <2>0, <2>1, <3>1, <3>2 DEF Lossless, Stays, NoObject
  <2>2. CASE CallRecover(Expected(t).fp, DesiredFp(t), "none", "none", "swap") /\ UNCHANGED fs
    BY <1>0, <2>2, CallHarmless, SameLossless
  <2> QED BY <1>8, <2>1, <2>2 DEF Install
<1>9. CASE CheckInstalled
  <2>1. CASE pc' = "drop" /\ UNCHANGED fs
    BY <2>1, HarmlessElsewhere, SameLossless DEF Holding, StagedPlaces
  <2>2. CASE CallRecover(Expected(t).fp, DesiredFp(t), "none", mem.staged, "swap") /\ UNCHANGED fs
    BY <1>0, <2>2, CallHarmless, SameLossless
  <2> QED BY <1>9, <2>1, <2>2 DEF CheckInstalled
<1>10. CASE DropBackup
  <2>1. CASE /\ fs[t].backup = Expected(t) /\ pc' = "final"
             /\ fs' = [fs EXCEPT ![t].backup = NoObject]
    <3>1. fs'[t].target = fs[t].target /\ fs'[t].temp = fs[t].temp
      BY <1>0, <2>1 DEF FileType
    <3>2. Harmless'
      BY <2>1, HarmlessElsewhere DEF Holding, StagedPlaces
    <3> QED BY <1>0, <2>1, <3>1, <3>2 DEF Lossless, Stays
  <2>2. CASE SwapFailed(t, mem.staged) /\ UNCHANGED fs
    BY <1>0, <1>1, <2>2, SameLossless
  <2> QED BY <1>10, <2>1, <2>2 DEF DropBackup
<1>11. CASE FinalCheck
  BY <1>0, <1>1, <1>2, <1>11, SameLossless DEF FinalCheck
<1> QED BY <1>3, <1>4, <1>5, <1>6, <1>7, <1>8, <1>9, <1>10, <1>11 DEF Swap

(* The recovery of a replacement, after its temporary name was cleaned.    *)
LEMMA HoldHarmless ==
  ASSUME WriteAheadInv, Harmless, Hold, NEW t \in Targets, t = mem.at
  PROVE  Harmless' /\ (pc # "hold" => Lossless(fs[t], fs'[t]))
<1> USE DEF Goto
<1> DEFINE p == mem.probe
<1>0. /\ TypeInv /\ fs \in [Targets -> FileType] /\ fs[t] \in FileType /\ mem \in MemType
      /\ mem.staged \in Tokens
  BY SwapValues DEF WriteAheadInv, TypeInv, Shapes
<1>1. pc \in Holding \ {"held"} => p.before \in {"before", "applied"} /\ p.applied \in {"before", "applied"}
  BY DEF Harmless
<1>2. CASE HoldCleanTemp
  <2>1. pc = "hold" /\ pc' = "look" /\ UNCHANGED mem
    BY <1>2 DEF HoldCleanTemp
  <2> QED BY <1>1, <2>1 DEF Harmless, Holding, StagedPlaces
<1>3. CASE HoldLook
  <2>1. pc = "look" /\ UNCHANGED fs /\ ~p.extra
    BY <1>0, <1>3, NotOver DEF HoldLook, WriteAheadInv, StagedNamed
  <2>2. CASE \E q \in {"restored", "abandoned", "error"} : Held(q)
    BY <2>1, <2>2, HeldHarmless, SameLossless
  <2>3. CASE /\ mem' = [mem EXCEPT !.probe.seen = fs[t].target.tok, !.probe.held = fs[t].backup.tok]
             /\ pc' \in {"give_back", "drop_held", "take_back"}
    <3>1. /\ mem'.probe.before = p.before /\ mem'.probe.applied = p.applied /\ mem'.probe.extra = p.extra
      BY <1>0, <2>3 DEF MemType, ProbeType
    <3> QED BY <1>1, <2>1, <2>3, <3>1, SameLossless DEF Harmless, Holding, StagedPlaces
  <2> QED BY <1>0, <1>3, <2>2, <2>3, LookEnds DEF TypeInv, Shapes
<1>4. CASE HoldDropBackup
  <2>0. pc = "drop_held" /\ Harmless'
    BY <1>4, HeldHarmless DEF HoldDropBackup
  <2>1. CASE UNCHANGED fs
    BY <2>0, <2>1, SameLossless
  <2>2. CASE fs[t].backup = [tok |-> p.held, fp |-> p.before] /\ fs' = [fs EXCEPT ![t].backup = NoObject]
    <3>1. fs'[t].target = fs[t].target /\ fs'[t].temp = fs[t].temp /\ fs[t].backup.fp # "foreign"
      BY <1>0, <1>1, <2>0, <2>2 DEF FileType, Holding
    <3> QED BY <2>0, <3>1 DEF Lossless, Stays
  <2> QED BY <1>4, <2>1, <2>2 DEF HoldDropBackup
<1>5. CASE HoldTakeBack
  <2>1. CASE Held("error") /\ UNCHANGED fs
    BY <2>1, HeldHarmless, SameLossless
  <2>2. CASE /\ fs[t].temp = NoObject /\ pc' = "taken" /\ UNCHANGED mem
             /\ fs' = [fs EXCEPT ![t].target = NoObject, ![t].temp = fs[t].target]
    <3>1. fs'[t].backup = fs[t].backup /\ fs'[t].temp = fs[t].target /\ pc = "take_back"
      BY <1>0, <1>5, <2>2 DEF FileType, HoldTakeBack
    <3> QED BY <1>1, <2>2, <3>1 DEF Harmless, Holding, StagedPlaces, Lossless, Stays, NoObject
  <2> QED BY <1>5, <2>1, <2>2 DEF HoldTakeBack
<1>6. \A f \in FileType : Lossless(f, PutBackTemp(t, f))
  <2> SUFFICES ASSUME NEW f \in FileType PROVE Lossless(f, PutBackTemp(t, f))
    OBVIOUS
  <2>1. CASE f.target # NoObject
    BY <2>1, SameLossless DEF PutBackTemp
  <2>2. CASE f.target = NoObject
    <3> DEFINE g == PutBackTemp(t, f)
    <3>1. g.target = f.temp /\ g.backup = f.backup
      BY <2>2 DEF PutBackTemp, FileType
    <3> QED BY <2>2, <3>1 DEF Lossless, Stays, NoObject
  <2> QED BY <2>1, <2>2
<1>7. CASE HoldCheckTaken
  <2>0. pc = "taken" /\ pc \in Holding \ {"held"}
    BY <1>7 DEF HoldCheckTaken, Holding
  <2>1. CASE /\ fs[t].temp = [tok |-> p.seen, fp |-> p.applied]
             /\ mem' = [mem EXCEPT !.probe.extra = TRUE] /\ pc' = "give_back" /\ UNCHANGED fs
    <3>1. mem'.at = t /\ mem'.probe.before = p.before /\ mem'.probe.applied = p.applied
      BY <1>0, <2>1 DEF MemType, ProbeType
    <3>2. fs[t].temp.fp # "foreign"
      BY <1>1, <2>0, <2>1
    <3> QED BY <1>1, <2>0, <2>1, <3>1, <3>2, SameLossless DEF Harmless, StagedPlaces
  <2>2. CASE fs' = [fs EXCEPT ![t] = PutBackTemp(t, @)] /\ Held("error")
    <3>1. fs'[t] = PutBackTemp(t, fs[t])
      BY <1>0, <2>2
    <3> QED BY <1>0, <1>6, <2>2, <3>1, HeldHarmless
  <2> QED BY <1>7, <2>1, <2>2 DEF HoldCheckTaken
<1>8. CASE HoldGiveBack
  <2>0. pc = "give_back" /\ pc \in Holding \ {"held"} /\ (p.extra => fs[t].temp.fp # "foreign")
    BY <1>8 DEF HoldGiveBack, Holding, Harmless
  <2>1. CASE /\ fs[t].target = NoObject /\ pc' = "given" /\ UNCHANGED mem
             /\ fs' = [fs EXCEPT ![t].target = fs[t].backup, ![t].backup = NoObject]
    <3>1. fs'[t].target = fs[t].backup /\ fs'[t].backup = NoObject /\ fs'[t].temp = fs[t].temp
      BY <1>0, <2>1 DEF FileType
    <3> QED BY <1>1, <2>0, <2>1, <3>1 DEF Harmless, StagedPlaces, Lossless, Stays, NoObject
  <2>2. CASE GiveBackFailed(t, fs[t])
    <3>1. fs'[t] \in {PutBackTemp(t, fs[t]), fs[t]} /\ Held("error")
      BY <1>0, <2>2 DEF GiveBackFailed
    <3> QED BY <1>0, <1>6, <3>1, HeldHarmless, SameLossless
  <2> QED BY <1>8, <2>1, <2>2 DEF HoldGiveBack
<1>9. CASE HoldCheckGiven
  <2>0. /\ pc = "given" /\ (p.extra => fs[t].temp.fp # "foreign") /\ fs[t].backup = NoObject
    BY <1>9 DEF HoldCheckGiven, Harmless
  <2> DEFINE f == fs[t]
             moved == IF f.target # NoObject
                      THEN [f EXCEPT !.backup = f.target, !.target = NoObject] ELSE f
  <2>1. CASE (IF p.extra THEN DropTemp(t) ELSE UNCHANGED fs) /\ Held("restored")
    <3>1. CASE p.extra
      <4>1. fs'[t].target = fs[t].target /\ fs'[t].backup = fs[t].backup
        BY <1>0, <2>1, <3>1 DEF DropTemp, FileType
      <4> QED BY <2>0, <2>1, <3>1, <4>1, HeldHarmless DEF Lossless, Stays
    <3>2. CASE ~p.extra
      BY <2>1, <3>2, HeldHarmless, SameLossless
    <3> QED BY <3>1, <3>2
  <2>2. CASE GiveBackFailed(t, moved)
    <3>1. moved \in FileType /\ Lossless(f, moved)
      <4>1. CASE f.target = NoObject
        BY <1>0, <4>1, SameLossless
      <4>2. CASE f.target # NoObject
        <5>1. moved = [f EXCEPT !.backup = f.target, !.target = NoObject]
          BY <4>2
        <5>2. moved \in FileType
          BY <1>0, <5>1, SwapValues DEF FileType
        <5>3. moved.backup = f.target /\ moved.temp = f.temp
          BY <1>0, <5>1 DEF FileType
        <5> QED BY <2>0, <5>2, <5>3 DEF Lossless, Stays, NoObject
      <4> QED BY <4>1, <4>2
    <3>2. fs'[t] \in {PutBackTemp(t, moved), moved} /\ Held("error")
      BY <1>0, <2>2 DEF GiveBackFailed
    <3> HIDE DEF moved, f
    <3>3. Lossless(f, fs'[t])
      BY <1>6, <3>1, <3>2 DEF Lossless, Stays
    <3> QED BY <3>2, <3>3, HeldHarmless DEF f
  <2> QED BY <1>9, <2>1, <2>2 DEF HoldCheckGiven
<1>10. CASE SwapRecovered
  <2>1. pc' \in {"compensate", "undo", "recover"} /\ UNCHANGED fs
    BY <1>0, <1>10, SwapFailedTypes DEF SwapRecovered
  <2> QED BY <2>1, HarmlessElsewhere, SameLossless DEF Holding, StagedPlaces
<1> QED BY <1>2, <1>3, <1>4, <1>5, <1>7, <1>8, <1>9, <1>10 DEF Hold

(* Every step keeps that, and every step but the cleaning of the temporary *)
(* name keeps what other programs wrote.                                   *)
LEMMA HarmlessStep ==
  ASSUME WriteAheadInv, Harmless, [Next]_vars
  PROVE  /\ Harmless'
         /\ env'.foreigns = env.foreigns /\ pc # "hold" => \A t \in Targets : Lossless(fs[t], fs'[t])
<1> USE DEF Goto
<1>0. TypeInv /\ fs \in [Targets -> FileType] /\ env \in EnvType
  BY DEF WriteAheadInv, TypeInv, Shapes
<1>1. CASE Swap \/ Hold
  <2>1. PICK t \in Targets : t = mem.at /\ \A u \in Targets \ {t} : fs'[u] = fs[u]
    BY <1>0, <1>1, FilesAtOne
  <2>2. Harmless' /\ (pc # "hold" => Lossless(fs[t], fs'[t]))
    BY <1>1, <2>1, SwapHarmless, HoldHarmless
  <2> QED BY <2>1, <2>2, SameLossless
<1>2. CASE Forward
  <2>1. UNCHANGED fs /\ pc' \in {"step", "idle", "compensate", "stage", "committed", "cleanup", "done"}
    BY <1>2 DEF Forward, EnterStep, SandboxStep, Preflight, PrepareMutation, TargetsWritten, StepFails,
       MarkApplied, Commit, EnterCommittedCleanup, FinishCleanup, CompleteStep
  <2> QED BY <2>1, HarmlessElsewhere, SameLossless DEF Holding, StagedPlaces
<1>3. ASSUME NEW t \in Targets PROVE AppliedFp(t) \in {"before", "applied"}
  BY DEF AppliedFp
<1>4. CASE Compensate
  <2>0. UNCHANGED fs
    BY <1>4 DEF Compensate, EnterCompensation, BeginUndo, PrepareUndo, UndoPrepared, UndoTarget,
       UndoClassify, UndoFinished, FinishRow, FinishCompensated
  <2>1. CASE UndoTarget
    <3>1. mem.at \in Targets
      BY <1>0, <2>1 DEF UndoTarget, TypeInv, Shapes, MemType, Targets
    <3> QED BY <1>0, <1>3, <2>0, <2>1, <3>1, CallHarmless, SameLossless DEF UndoTarget
  <2>2. CASE UndoClassify
    <3>1. pc' \in {"undo", "stage", "stopped"}
      BY <2>2 DEF UndoClassify, StopUndo
    <3> QED BY <2>0, <3>1, HarmlessElsewhere, SameLossless DEF Holding, StagedPlaces
  <2>3. CASE EnterCompensation \/ BeginUndo \/ PrepareUndo \/ UndoPrepared
    <3>1. pc' \in {"begin_undo", "prepare_undo", "undo"}
      BY <2>3 DEF EnterCompensation, BeginUndo, PrepareUndo, UndoPrepared
    <3> QED BY <2>0, <3>1, HarmlessElsewhere, SameLossless DEF Holding, StagedPlaces
  <2>4. CASE UndoFinished \/ FinishRow \/ FinishCompensated
    <3>1. pc' \in {"finish_rows", "stopped", "cleanup"}
      BY <2>4 DEF UndoFinished, FinishRow, FinishCompensated, StopUndo
    <3> QED BY <2>0, <3>1, HarmlessElsewhere, SameLossless DEF Holding, StagedPlaces
  <2> QED BY <1>4, <2>1, <2>2, <2>3, <2>4 DEF Compensate
<1>5. CASE Recover
  <2>0. UNCHANGED fs
    BY <1>5 DEF Recover, Restart, ProbeRow, ProbeClassify, MarkRestored, FinishRecovery, CleanSandbox
  <2>1. CASE ProbeRow
    <3>1. mem.at \in Targets
      BY <1>0, <2>1 DEF ProbeRow, TypeInv, Shapes, MemType, Targets
    <3>2. CASE pc' \in {"recover", "held"}
      BY <2>0, <3>2, HarmlessElsewhere, SameLossless DEF Holding, StagedPlaces
    <3>3. CASE \E k, v : CallRecover(AppliedFp(mem.at), "before", k, v, "probe")
      BY <1>0, <1>3, <2>0, <3>1, <3>3, CallHarmless, SameLossless
    <3>4. CASE \E k, v : CallRecover("before", AppliedFp(mem.at), k, v, "probe")
      BY <1>0, <1>3, <2>0, <3>1, <3>4, CallHarmless, SameLossless
    <3> QED BY <2>1, <3>2, <3>3, <3>4 DEF ProbeRow
  <2>2. CASE ProbeClassify
    <3>1. pc' \in {"recover", "mark_restored", "stage", "refused"}
      BY <2>2 DEF ProbeClassify, Refuse
    <3> QED BY <2>0, <3>1, HarmlessElsewhere, SameLossless DEF Holding, StagedPlaces
  <2>3. CASE Restart \/ MarkRestored \/ FinishRecovery \/ CleanSandbox
    <3>1. pc' \in {"recover", "cleanup", "sandbox", "refused"}
      BY <2>3 DEF Restart, MarkRestored, FinishRecovery, CleanSandbox, Refuse
    <3> QED BY <2>0, <3>1, HarmlessElsewhere, SameLossless DEF Holding, StagedPlaces
  <2> QED BY <1>5, <2>1, <2>2, <2>3 DEF Recover
<1>6. CASE Foreign
  <2>0. PICK u \in Targets : ForeignChange(u)
    BY <1>6 DEF Foreign
  <2>1. UNCHANGED <<pc, mem>> /\ env'.foreigns # env.foreigns
    BY <1>0, <2>0 DEF ForeignChange, EnvType
  <2>a. PICK new : fs' = [fs EXCEPT ![u].target = new]
    BY <2>0 DEF ForeignChange
  <2>2. \A t \in Targets : fs'[t].temp = fs[t].temp /\ fs'[t].backup = fs[t].backup
    BY <1>0, <2>a DEF FileType
  <2>3. pc \in StagedPlaces \union {"give_back", "given"} => mem.at \in Targets
    BY <1>0 DEF TypeInv, Places, StagedPlaces, AtTarget, Replacing, Holding
  <2> QED BY <2>1, <2>2, <2>3 DEF Harmless
<1>7. CASE Crash
  <2>1. pc' = "down" /\ UNCHANGED fs
    BY <1>7 DEF Crash
  <2> QED BY <2>1, HarmlessElsewhere, SameLossless DEF Holding, StagedPlaces
<1>8. CASE UNCHANGED vars
  BY <1>8, SameLossless DEF vars, Harmless
<1> QED BY <1>1, <1>2, <1>4, <1>5, <1>6, <1>7, <1>8 DEF Next, Daemon, Done

(* The invariants behind ForeignKept, next to WriteAheadInv.               *)
KeepInv == Harmless /\ CutCounted /\ (FewFaults => ForeignInv)

(* Few faults have always been few.                                        *)
LEMMA FewBefore ==
  ASSUME TypeInv, TypeInv', [Next]_vars
  PROVE  /\ FewFaults' => FewFaults
         /\ CutCounted => CutCounted'
<1>0. env \in EnvType /\ env' \in EnvType
  BY DEF TypeInv, Shapes
<1>1. CASE Next
  <2>1. /\ env.cut \subseteq env'.cut /\ env.foreigns <= env'.foreigns /\ env.crashes <= env'.crashes
        /\ CutCounted => CutCounted'
    BY <1>1, EnvGrows DEF CutCounted
  <2> QED BY <1>0, <2>1 DEF FewFaults, EnvType
<1>2. CASE UNCHANGED vars
  BY <1>2 DEF vars, FewFaults, CutCounted
<1> QED BY <1>1, <1>2

(* Every step keeps them, and a step the property is about loses nothing.  *)
LEMMA KeepStep ==
  ASSUME WriteAheadInv, WriteAheadInv', KeepInv, [Next]_vars
  PROVE  /\ KeepInv'
         /\ env'.foreigns = env.foreigns /\ (pc = "hold" => FewFaults) =>
               \A t \in Targets : Lossless(fs[t], fs'[t])
<1>0. TypeInv /\ TypeInv'
  BY DEF WriteAheadInv
<1>1. (FewFaults' => FewFaults) /\ CutCounted'
  BY <1>0, FewBefore DEF KeepInv
<1>2. /\ Harmless'
      /\ env'.foreigns = env.foreigns /\ pc # "hold" => \A t \in Targets : Lossless(fs[t], fs'[t])
  BY HarmlessStep DEF KeepInv
<1>3. FewFaults => /\ FewFaults' => ForeignInv'
                   /\ env'.foreigns = env.foreigns => \A t \in Targets : Lossless(fs[t], fs'[t])
  BY ForeignStep DEF KeepInv
<1> QED BY <1>1, <1>2, <1>3 DEF KeepInv

(* What another program wrote is destroyed by no step but the cleaning of  *)
(* a temporary name (cleanup_recovery_temp), and by that one only after    *)
(* three foreign changes, or two deaths of which one cut a replacement:    *)
(* through every other step of replace_regular_file and                    *)
(* recover_interrupted_replace_held it stays under one of the three names, *)
(* for any number of targets, of foreign changes and of deaths.            *)
THEOREM ForeignAlwaysKept == Spec => ForeignKept
<1>1. ASSUME WriteAheadInv, KeepInv, WriteAheadInv', [Next]_vars
      PROVE  [env'.foreigns = env.foreigns /\ (pc = "hold" => FewFaults) =>
                 \A t \in Targets : ForeignObjects(fs[t]) \subseteq ForeignObjects(fs'[t])]_vars
  <2>1. \A t \in Targets : fs[t] \in FileType /\ fs'[t] \in FileType
    BY <1>1 DEF WriteAheadInv, TypeInv, Shapes
  <2>2. env'.foreigns = env.foreigns /\ (pc = "hold" => FewFaults) =>
           \A t \in Targets : Lossless(fs[t], fs'[t])
    BY <1>1, KeepStep
  <2> QED BY <2>1, <2>2, LosslessKeeps
<1>2. WriteAheadInv /\ WriteAheadInv' /\ KeepInv /\ [Next]_vars => KeepInv'
  BY KeepStep
<1>3. Init => KeepInv
  <2> SUFFICES ASSUME Init PROVE KeepInv
    OBVIOUS
  <2>1. Harmless /\ CutCounted
    BY DEF Init, Harmless, Holding, StagedPlaces, CutCounted
  <2> QED BY <2>1, ForeignInit DEF KeepInv
<1> QED BY <1>1, <1>2, <1>3, WriteAheadInvariant, PTL DEF Spec, ForeignKept
=============================================================================
