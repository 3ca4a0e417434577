------------------------------- MODULE SyncOps -------------------------------
(***************************************************************************)
(* Signed sync operations, their causal order and the merge of an incoming *)
(* operation with the current heads of its record                          *)
(* (crates/core/src/sync/{operation,causal,merge}.rs).                     *)
(*                                                                         *)
(* An operation is the part of SyncOperationV1 that the protocol decides   *)
(* on.  `id` stands for the UUIDv7 operation id: a globally unique value   *)
(* with a total order.  The caller of a mutation chooses it, so its order  *)
(* says nothing about the order in which operations were committed.        *)
(* `front` is causal_frontier: the newest sequence of every device that    *)
(* the author had stored, 0 where it had stored none.  Ciphertext,         *)
(* signature and hashes are abstracted to the `ok` flag of a received row  *)
(* (module SyncReplication).                                               *)
(***************************************************************************)
EXTENDS Naturals, FiniteSets

CONSTANTS
  Device,   \* the devices of one workspace
  Record    \* the synchronised records

Op == [id : Nat, dev : Device, seq : Nat \ {0}, rec : Record,
       front : [Device -> Nat]]

(* compare_operations: the position of `left` relative to `right`. *)
CompareOperations(left, right) ==
  LET leftKnows  == left.front[right.dev] >= right.seq
      rightKnows == right.front[left.dev] >= left.seq
  IN  IF left.dev = right.dev
      THEN CASE left.seq < right.seq -> "Before"
             [] left.seq > right.seq -> "After"
             [] OTHER                -> "Equal"
      ELSE CASE leftKnows /\ ~rightKnows -> "After"
             [] rightKnows /\ ~leftKnows -> "Before"
             [] leftKnows /\ rightKnows  -> "Equal"
             [] OTHER                    -> "Concurrent"

(* Faulty variant: a head that the operation supersedes is kept beside it. *)
DecideMerge_KeepsHeads(o, heads) ==
  IF heads = {} THEN [kind |-> "ReplaceHeads", remove |-> heads]
  ELSE [kind |-> "AddConflictHead", remove |-> {}]

(* decide_merge: what an admitted operation does to its record's heads.    *)
(* ResolveConflict differs from ReplaceHeads only in the report.           *)
DecideMerge(o, heads) ==
  LET superseded == {h \in heads : CompareOperations(o, h) = "After"}
      obsolete   == \E h \in heads : CompareOperations(o, h) \in {"Before", "Equal"}
  IN  CASE superseded = heads -> [kind |-> "ReplaceHeads", remove |-> heads]
        [] superseded # heads /\ obsolete -> [kind |-> "NoLiveChange", remove |-> {}]
        [] OTHER -> [kind |-> "AddConflictHead", remove |-> superseded]

(* The sort by operation_id of a conflict's heads, as far as it is used. *)
LeastId(ops) == CHOOSE o \in ops : \A p \in ops : o.id <= p.id

(* The three writes of apply_verified_in_transaction that depend on the    *)
(* merge: sync_record_heads, the materialised record, and the conflicts    *)
(* row, which names the two heads with the least operation ids.            *)
MergedHeads(o, heads) ==
  LET d == DecideMerge(o, heads)
  IN  IF d.kind = "NoLiveChange" THEN heads ELSE (heads \ d.remove) \union {o}

(* Faulty variant: the operation applied last is materialised. *)
MergedLive_LastApplied(o, heads, live) ==
  IF DecideMerge(o, heads).kind = "NoLiveChange" THEN live ELSE {o}

MergedLive(o, heads, live) ==
  CASE DecideMerge(o, heads).kind = "NoLiveChange"    -> live
    [] DecideMerge(o, heads).kind = "AddConflictHead" -> {LeastId(MergedHeads(o, heads))}
    [] OTHER                                          -> {o}

ConflictPair(heads) ==
  LET first == LeastId(heads) IN {first, LeastId(heads \ {first})}

MergedConflict(o, heads, conflict) ==
  CASE DecideMerge(o, heads).kind = "NoLiveChange"    -> conflict
    [] DecideMerge(o, heads).kind = "AddConflictHead" -> ConflictPair(MergedHeads(o, heads))
    [] OTHER                                          -> {}

-----------------------------------------------------------------------------
(* Reference notions the protocol is checked against. *)

(* p is in the causal past of o: the same device issued it earlier, or o's *)
(* author had stored it.                                                   *)
Past(p, o) == o.front[p.dev] >= p.seq

(* The operations of a record that no known operation supersedes. *)
Maximal(ops, r) ==
  {o \in ops : o.rec = r /\ ~ \E p \in ops : p.rec = r /\ Past(o, p)}

(* What a record with these heads shows. *)
ValueOf(heads) == IF heads = {} THEN {} ELSE {LeastId(heads)}
ConflictOf(heads) == IF \E o, p \in heads : o # p THEN ConflictPair(heads) ELSE {}

=============================================================================
