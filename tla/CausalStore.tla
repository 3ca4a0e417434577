----------------------------- MODULE CausalStore -----------------------------
(***************************************************************************)
(* What signed sync promises: a causally consistent store of records.      *)
(* A device knows a set of operations.  It adds one by writing, or by      *)
(* learning an operation another device wrote, and then only when it       *)
(* already knows everything that operation depends on.  What a device      *)
(* shows is a function of what it knows: the unsuperseded operations of a  *)
(* record, the one with the least id as its value, and a conflict when     *)
(* there are several.  There is no provider, outbox, page, cursor or gap.  *)
(***************************************************************************)
EXTENDS SyncOps

VARIABLES
  known,   \* known[d]: the operations device d has
  shown    \* shown[d][r]: heads, value and conflict of record r on device d

vars == <<known, shown>>

View(ops) ==
  [r \in Record |->
     LET heads == Maximal(ops, r) IN
     [heads    |-> heads,
      value    |-> ValueOf(heads),
      conflict |-> ConflictOf(heads)]]

Everything == UNION {known[d] : d \in Device}

(* Everything o depends on is in ops. *)
PastWithin(o, ops) ==
  \A e \in Device : \A n \in 1 .. o.front[e] : \E p \in ops : p.dev = e /\ p.seq = n

Init ==
  /\ known = [d \in Device |-> {}]
  /\ shown = [d \in Device |-> View({})]

(* Device d gets o and shows the result at once. *)
Learn(d, o) ==
  /\ o \notin known[d]
  /\ PastWithin(o, known[d])
  /\ known' = [known EXCEPT ![d] = @ \union {o}]
  /\ shown' = [shown EXCEPT ![d] = View(known[d] \union {o})]

(* A new operation depends on everything its author knows. *)
Write(d) ==
  \E o \in known'[d] :
    /\ o.dev = d
    /\ \A p \in Everything : p.id # o.id /\ (p.dev = d => p.seq < o.seq)
    /\ \A p \in known[d] : Past(p, o)
    /\ Learn(d, o)

Receive(d) == \E o \in Everything : Learn(d, o)

Next == \E d \in Device : Write(d) \/ Receive(d)

Spec == Init /\ [][Next]_vars

=============================================================================
