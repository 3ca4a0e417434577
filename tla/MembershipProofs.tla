--------------------------- MODULE MembershipProofs ---------------------------
(***************************************************************************)
(* Pairing and revocation, for any devices, pairings, revocations and      *)
(* bounds: the histories the devices accept are beginnings of the          *)
(* service's one history, whose every event was authorized, and what the   *)
(* parties have recorded of a decision or a revocation is so.              *)
(*                                                                         *)
(* The argument rests on what a signed object commits to.  The service     *)
(* appends an event only to the history its object names as the parent     *)
(* (Committed, Published), so a receipt determines a beginning of the      *)
(* history, and of two beginnings one continues the other.                 *)
(***************************************************************************)
EXTENDS Membership, SequenceTheorems, FiniteSetTheorems, TLAPS

Ids == Pairing \union Revocation
Events ==
  [kind : {"add", "revoke"}, id : Device \union Ids, by : Device, dev : Device,
   epoch : Nat, cutoff : Nat]
Histories == Seq(Events)
Someone == Device \union {None}

Invites == [state : InviteState, issuer : Someone, epoch : Nat, joiner : Someone,
            requested : BOOLEAN]
Approvals == [state : {"none", "prepared", "accepted"}, parent : Histories]
Joinings == [state : {"none", "requested", "awaiting", "confirmed", "completed"},
             cached : BOOLEAN]
Intents == [state : IntentState, issuer : Someone, target : Someone, parent : Histories,
            cutoff : Nat, canceled : BOOLEAN]
Messages == [op : {"approve", "revoke"}, id : Ids, n : Nat, stage : {"sent", "verified"}]
Works == [op : {"idle", "approve", "revoke"}, id : Ids \union {None}, n : Nat,
          answer : {"none", "receipt", "refused", "conflict"}]

Types ==
  /\ chain \in Histories
  /\ invite \in [Pairing -> Invites]
  /\ pushed \in [Device -> Nat]
  /\ wire \subseteq Messages
  /\ hist \in [Device -> Histories]
  /\ activated \in [Device -> Nat]
  /\ control \in [Device -> SUBSET Revocation]
  /\ approval \in [Pairing -> Approvals]
  /\ joining \in [Pairing -> Joinings]
  /\ intent \in [Revocation -> Intents]
  /\ daemon \in [Device -> {"up", "down", "failed"}]
  /\ work \in [Device -> Works]
  /\ sends \in [Ids -> Nat]
  /\ crashes \in Nat

(* The history that the decision about p commits to.                       *)
Decided(p) == Append(approval[p].parent, AdmissionOf(p))

(* A pairing takes its steps in order; once there is a request, nobody     *)
(* else is admitted by it.                                                 *)
PairingInOrder ==
  \A p \in Pairing :
    /\ invite[p].state # "none" => invite[p].issuer \in Device
    /\ invite[p].requested => invite[p].state # "none" /\ invite[p].joiner \in Device
    /\ approval[p].state # "none" => invite[p].requested
    /\ joining[p].state \in {"awaiting", "confirmed", "completed"} =>
          invite[p].state = "approved"
    /\ invite[p].state = "approved" => approval[p].state # "none"

(* What was approved is in the history, right behind the parent that the   *)
(* approval was signed for.                                                *)
Committed ==
  \A p \in Pairing : invite[p].state = "approved" => IsPrefix(Decided(p), chain)

(* An intent was signed by a device whose certificate is of the epoch it   *)
(* ends.                                                                   *)
Unsent == {"none", "prepared", "canceled_before_send"}
IntentInOrder ==
  \A r \in Revocation :
    /\ intent[r].state # "none" =>
          /\ intent[r].issuer \in Device /\ intent[r].target \in Device
          /\ intent[r].issuer \in Active(intent[r].parent)
          /\ CertEpoch(intent[r].issuer, intent[r].parent) = Epoch(intent[r].parent)
    /\ intent[r].state \in Unsent => ~Has(chain, r)
    /\ intent[r].state = "accepted" => Has(chain, r)
Published ==
  \A r \in Revocation : Has(chain, r) => IsPrefix(Successor(r), chain)

(* A request is about something its sender has stored, and a receipt about *)
(* something in the history.                                               *)
AboutStored(x) ==
  /\ x.op = "approve" => x.id \in Pairing /\ approval[x.id].state # "none"
  /\ x.op = "revoke" => x.id \in Revocation /\ intent[x.id].state \notin Unsent
RequestsAreStored ==
  /\ \A m \in wire : AboutStored(m)
  /\ \A d \in Device :
       /\ AboutStored(work[d])
       /\ work[d].op = "approve" => invite[work[d].id].issuer = d
       /\ work[d].op = "revoke" => intent[work[d].id].issuer = d
ReceiptsAreTrue ==
  \A d \in Device : work[d].answer = "receipt" => Has(chain, work[d].id)

(* A device is admitted once.                                              *)
AdmittedOnce ==
  \A i, j \in Of(chain, "add") : chain[i].dev = chain[j].dev => i = j

MemberInv ==
  /\ Types
  /\ PairingInOrder /\ Committed /\ DecidedOnce
  /\ IntentInOrder /\ Published
  /\ RequestsAreStored /\ ReceiptsAreTrue
  /\ AdmittedOnce /\ HistoriesAgree /\ HistoryIsAuthorized /\ CutoffIsFinal

----------------------------------------------------------------------------
(* Histories. *)

(* A beginning, element by element.                                        *)
Begins(s, t) == Len(s) <= Len(t) /\ \A i \in 1 .. Len(s) : s[i] = t[i]

LEMMA PrefixBegins ==
  ASSUME NEW s \in Histories, NEW t \in Histories
  PROVE  IsPrefix(s, t) <=> Begins(s, t)
<1>0. s \in Seq(Events) /\ t \in Seq(Events) /\ Len(s) \in Nat /\ Len(t) \in Nat
  BY DEF Histories
<1>1. SubSeq(s, 1, Len(s)) = s
  BY <1>0, SubSeqFull
<1>2. ASSUME Len(s) <= Len(t)
      PROVE  s = SubSeq(t, 1, Len(s)) <=> \A i \in 1 .. Len(s) : s[i] = t[i]
  <2>1. /\ SubSeq(t, 1, Len(s)) \in Seq(Events)
        /\ Len(SubSeq(t, 1, Len(s))) = Len(s)
        /\ \A i \in 1 .. Len(s) : SubSeq(t, 1, Len(s))[i] = t[i]
    BY <1>0, <1>2
  <2>2. s = SubSeq(t, 1, Len(s)) <=> \A i \in 1 .. Len(s) : s[i] = SubSeq(t, 1, Len(s))[i]
    BY <1>0, <2>1, SeqEqual
  <2> QED BY <2>1, <2>2
<1> QED BY <1>1, <1>2 DEF IsPrefix, Begins

LEMMA BeginsItself ==
  ASSUME NEW s \in Histories
  PROVE  Begins(s, s)
BY DEF Begins, Histories

LEMMA BeginsOn ==
  ASSUME NEW s \in Histories, NEW t \in Histories, NEW u \in Histories,
         Begins(s, t), Begins(t, u)
  PROVE  Begins(s, u)
<1>1. Len(s) \in Nat /\ Len(t) \in Nat /\ Len(u) \in Nat
  BY DEF Histories
<1> QED BY <1>1 DEF Begins

LEMMA BeginsAppend ==
  ASSUME NEW s \in Histories, NEW e \in Events
  PROVE  /\ Append(s, e) \in Histories /\ Begins(s, Append(s, e))
         /\ Len(Append(s, e)) = Len(s) + 1 /\ Append(s, e)[Len(s) + 1] = e
         /\ \A i \in 1 .. Len(s) : Append(s, e)[i] = s[i]
         /\ DOMAIN Append(s, e) = DOMAIN s \union {Len(s) + 1}
         /\ DOMAIN s = 1 .. Len(s) /\ Len(s) \in Nat
BY DEF Begins, Histories

(* Of two beginnings of one history, the shorter begins the longer.        *)
LEMMA BeginningsAgree ==
  ASSUME NEW s \in Histories, NEW t \in Histories, NEW u \in Histories,
         Begins(s, u), Begins(t, u)
  PROVE  /\ Len(s) <= Len(t) => Begins(s, t)
         /\ Begins(s, t) \/ Begins(t, s)
         /\ Len(s) = Len(t) => s = t
<1>1. Len(s) \in Nat /\ Len(t) \in Nat /\ Len(u) \in Nat
  BY DEF Histories
<1>2. Len(s) <= Len(t) => Begins(s, t)
  BY <1>1 DEF Begins
<1>3. Len(t) <= Len(s) => Begins(t, s)
  BY <1>1 DEF Begins
<1>4. Len(s) = Len(t) => s = t
  BY <1>1, SeqEqual DEF Begins, Histories
<1> QED BY <1>1, <1>2, <1>3, <1>4

LEMMA HasOn ==
  ASSUME NEW s \in Histories, NEW t \in Histories, Begins(s, t), NEW id, Has(s, id)
  PROVE  Has(t, id)
<1>1. /\ Len(s) \in Nat /\ Len(t) \in Nat
      /\ DOMAIN s = 1 .. Len(s) /\ DOMAIN t = 1 .. Len(t)
  BY DEF Histories
<1> QED BY <1>1 DEF Begins, Has

LEMMA HasAppend ==
  ASSUME NEW s \in Histories, NEW e \in Events, NEW id
  PROVE  Has(Append(s, e), id) <=> Has(s, id) \/ e.id = id
BY BeginsAppend DEF Has

(* The beginning that has an event is behind one that has not.             *)
LEMMA HasMore ==
  ASSUME NEW s \in Histories, NEW t \in Histories, NEW u \in Histories,
         Begins(s, u), Begins(t, u), NEW id, Has(s, id), ~Has(t, id)
  PROVE  Begins(t, s)
BY BeginningsAgree, HasOn

LEMMA EpochType ==
  ASSUME NEW s \in Histories, NEW kind
  PROVE  /\ IsFiniteSet(Of(s, kind)) /\ Cardinality(Of(s, kind)) \in Nat
         /\ Epoch(s) \in Nat /\ Epoch(s) > 0
<1>1. IsFiniteSet(1 .. Len(s)) /\ DOMAIN s = 1 .. Len(s)
  BY FS_Interval DEF Histories
<1>2. \A k : IsFiniteSet(Of(s, k))
  BY <1>1, FS_Subset DEF Of
<1>3. \A k : Cardinality(Of(s, k)) \in Nat
  BY <1>2, FS_CardinalityType
<1> QED BY <1>2, <1>3 DEF Epoch

(* A revocation begins an epoch, for good.                                 *)
LEMMA EpochOn ==
  ASSUME NEW s \in Histories, NEW t \in Histories, Begins(s, t)
  PROVE  /\ Epoch(s) <= Epoch(t)
         /\ Epoch(s) = Epoch(t) => Of(t, "revoke") = Of(s, "revoke")
<1>1. /\ Len(s) \in Nat /\ Len(t) \in Nat
      /\ DOMAIN s = 1 .. Len(s) /\ DOMAIN t = 1 .. Len(t)
  BY DEF Histories
<1>2. Of(s, "revoke") \subseteq Of(t, "revoke")
  BY <1>1 DEF Of, Begins
<1>3. /\ IsFiniteSet(Of(t, "revoke"))
      /\ Cardinality(Of(s, "revoke")) \in Nat /\ Cardinality(Of(t, "revoke")) \in Nat
  BY EpochType
<1>4. /\ Cardinality(Of(s, "revoke")) <= Cardinality(Of(t, "revoke"))
      /\ Cardinality(Of(s, "revoke")) = Cardinality(Of(t, "revoke")) =>
            Of(t, "revoke") = Of(s, "revoke")
  BY <1>2, <1>3, FS_Subset
<1> QED BY <1>3, <1>4 DEF Epoch

LEMMA AdmittedOn ==
  ASSUME NEW s \in Histories, NEW t \in Histories, Begins(s, t)
  PROVE  /\ Of(s, "add") \subseteq Of(t, "add")
         /\ Admitted(s) \subseteq Admitted(t)
<1>1. /\ Len(s) \in Nat /\ Len(t) \in Nat
      /\ DOMAIN s = 1 .. Len(s) /\ DOMAIN t = 1 .. Len(t)
  BY DEF Histories
<1> QED BY <1>1 DEF Of, Admitted, Begins

(* The authority of every event of a history, and nobody admitted twice.   *)
Authorized(h) ==
  \A i \in 2 .. Len(h) :
    LET e == h[i]
        before == SubSeq(h, 1, i - 1)
    IN  /\ e.by \in Active(before) /\ e.epoch = Epoch(before)
        /\ e.kind = "add" => e.dev \notin Admitted(before)
        /\ e.kind = "revoke" => e.dev \in Active(before)
Once(h) == \A i, j \in Of(h, "add") : h[i].dev = h[j].dev => i = j

LEMMA AuthorizedAppend ==
  ASSUME NEW h \in Histories, NEW e \in Events, Authorized(h), Once(h),
         e.by \in Active(h), e.epoch = Epoch(h),
         e.kind = "add" => e.dev \notin Admitted(h),
         e.kind = "revoke" => e.dev \in Active(h)
  PROVE  Authorized(Append(h, e)) /\ Once(Append(h, e))
<1> DEFINE g == Append(h, e)
<1>1. /\ g \in Histories /\ Len(g) = Len(h) + 1 /\ g[Len(h) + 1] = e
      /\ \A i \in 1 .. Len(h) : g[i] = h[i]
      /\ DOMAIN g = DOMAIN h \union {Len(h) + 1}
      /\ DOMAIN h = 1 .. Len(h) /\ Len(h) \in Nat
  BY BeginsAppend
<1> HIDE DEF g
<1>2. \A i \in 1 .. Len(h) + 1 : SubSeq(g, 1, i - 1) = SubSeq(h, 1, i - 1)
  <2> SUFFICES ASSUME NEW i \in 1 .. Len(h) + 1
               PROVE  SubSeq(g, 1, i - 1) = SubSeq(h, 1, i - 1)
    OBVIOUS
  <2>1. /\ SubSeq(g, 1, i - 1) \in Seq(Events) /\ SubSeq(h, 1, i - 1) \in Seq(Events)
        /\ Len(SubSeq(g, 1, i - 1)) = i - 1 /\ Len(SubSeq(h, 1, i - 1)) = i - 1
        /\ \A j \in 1 .. i - 1 : SubSeq(g, 1, i - 1)[j] = g[j]
        /\ \A j \in 1 .. i - 1 : SubSeq(h, 1, i - 1)[j] = h[j]
    BY <1>1 DEF Histories
  <2> QED BY <1>1, <2>1, SeqEqual
<1>3. SubSeq(h, 1, Len(h)) = h
  BY SubSeqFull DEF Histories
<1>4. Authorized(g)
  <2> SUFFICES ASSUME NEW i \in 2 .. Len(g)
               PROVE  /\ g[i].by \in Active(SubSeq(g, 1, i - 1))
                      /\ g[i].epoch = Epoch(SubSeq(g, 1, i - 1))
                      /\ g[i].kind = "add" => g[i].dev \notin Admitted(SubSeq(g, 1, i - 1))
                      /\ g[i].kind = "revoke" => g[i].dev \in Active(SubSeq(g, 1, i - 1))
    BY DEF Authorized
  <2>1. SubSeq(g, 1, i - 1) = SubSeq(h, 1, i - 1)
    BY <1>1, <1>2
  <2>2. CASE i \in 2 .. Len(h)
    <3>1. g[i] = h[i]
      BY <1>1, <2>2
    <3> QED BY <2>1, <2>2, <3>1 DEF Authorized
  <2>3. CASE i = Len(h) + 1
    <3>1. g[i] = e /\ i - 1 = Len(h)
      BY <1>1, <2>3
    <3> QED BY <1>3, <2>1, <3>1
  <2> QED BY <1>1, <2>2, <2>3
<1>5. Once(g)
  <2>1. \A i \in Of(g, "add") : (i \in Of(h, "add") /\ g[i] = h[i]) \/ i = Len(h) + 1
    BY <1>1 DEF Of
  <2>2. ASSUME NEW i \in Of(h, "add")
        PROVE  h[i].dev \in Admitted(h)
    BY DEF Admitted
  <2>3. Len(h) + 1 \in Of(g, "add") => e.dev \notin Admitted(h)
    BY <1>1 DEF Of
  <2> QED BY <1>1, <2>1, <2>2, <2>3 DEF Once
<1> QED BY <1>4, <1>5 DEF g

LEMMA MembersAreDevices ==
  ASSUME NEW h \in Histories
  PROVE  Active(h) \subseteq Device /\ Admitted(h) \subseteq Device
<1>1. \A i \in DOMAIN h : h[i] \in Events
  BY DEF Histories
<1> QED BY <1>1 DEF Active, Admitted, Of, Events

----------------------------------------------------------------------------
(* The founding of the workspace. *)

FoundingIs(h) ==
  /\ h \in Histories /\ Len(h) >= 1
  /\ h[1].dev = Genesis
  /\ \A i \in 1 .. Len(h) :
       /\ h[i].kind = "add" /\ h[i].by = Genesis /\ h[i].epoch = 1 /\ h[i].id \in Device
  /\ \A i, j \in 1 .. Len(h) : h[i].dev = h[j].dev => i = j

LEMMA FoundingShape == FoundingIs(Founding)
<1> DEFINE S == {Add(d, Genesis, d, 1) : d \in Peers}
           f == [d \in Peers |-> Add(d, Genesis, d, 1)]
           q == SetToSeq(S)
           g == <<Add(Genesis, Genesis, Genesis, 1)>>
           n == Cardinality(S)
<1>1. IsFiniteSet(S)
  <2>1. f \in Surjection(Peers, S)
    BY DEF Surjection
  <2> QED BY <2>1, FS_Surjection, MembershipAssumption
<1>2. n \in Nat /\ \E k \in [1 .. n -> S] : IsInjective(k)
  <2>1. n \in Nat /\ ExistsBijection(1 .. n, S)
    BY <1>1, FS_CardinalityType
  <2>2. PICK k \in Bijection(1 .. n, S) : TRUE
    BY <2>1 DEF ExistsBijection
  <2>3. k \in [1 .. n -> S] /\ \A i, j \in 1 .. n : k[i] = k[j] => i = j
    BY <2>2 DEF Bijection, Injection, IsInjective
  <2>4. IsInjective(k)
    BY <2>3 DEF IsInjective
  <2> QED BY <2>1, <2>3, <2>4
<1>3. q \in [1 .. n -> S] /\ IsInjective(q)
  BY <1>2 DEF SetToSeq
<1>4. ASSUME NEW d \in Device
      PROVE  /\ Add(d, Genesis, d, 1) \in Events
             /\ Add(d, Genesis, d, 1).kind = "add" /\ Add(d, Genesis, d, 1).by = Genesis
             /\ Add(d, Genesis, d, 1).epoch = 1 /\ Add(d, Genesis, d, 1).id = d
             /\ Add(d, Genesis, d, 1).dev = d
  BY MembershipAssumption DEF Add, Events
<1>5. /\ \A e \in S : /\ e \in Events /\ e.kind = "add" /\ e.by = Genesis /\ e.epoch = 1
                      /\ e.id \in Device /\ e.dev # Genesis
      /\ \A e1, e2 \in S : e1.dev = e2.dev => e1 = e2
  BY <1>4, MembershipAssumption
<1>6. /\ g \in Seq(Events) /\ Len(g) = 1 /\ g[1] \in Events
      /\ g[1].kind = "add" /\ g[1].by = Genesis /\ g[1].epoch = 1
      /\ g[1].id = Genesis /\ g[1].dev = Genesis
  BY <1>4, MembershipAssumption
<1> HIDE DEF S, q, g, n
<1>7. q \in Seq(Events) /\ Len(q) = n /\ n \in Nat
  BY <1>2, <1>3, <1>5
<1>8. \A i \in 1 .. n : q[i] \in S
  BY <1>3
<1>9. \A i, j \in 1 .. n : q[i] = q[j] => i = j
  BY <1>3 DEF IsInjective
<1> DEFINE h == g \o q
<1>10. /\ h \in Seq(Events) /\ Len(h) = 1 + n
       /\ h[1] = g[1] /\ \A i \in 2 .. 1 + n : h[i] = q[i - 1]
  BY <1>6, <1>7, ConcatProperties
<1>11. Founding = h
  BY DEF Founding, g, q, S
<1> HIDE DEF h
<1>12. \A i \in 2 .. Len(h) : i - 1 \in 1 .. n /\ h[i] = q[i - 1] /\ h[i] \in S
  BY <1>7, <1>8, <1>10
<1>13. \A i \in 1 .. Len(h) :
         h[i].kind = "add" /\ h[i].by = Genesis /\ h[i].epoch = 1 /\ h[i].id \in Device
  BY <1>5, <1>6, <1>7, <1>10, <1>12, MembershipAssumption
<1>14. ASSUME NEW i \in 1 .. Len(h), NEW j \in 1 .. Len(h), h[i].dev = h[j].dev
       PROVE  i = j
  <2>0. /\ i = 1 \/ i \in 2 .. Len(h)
        /\ j = 1 \/ j \in 2 .. Len(h)
        /\ h[1].dev = Genesis
    BY <1>6, <1>7, <1>10
  <2>1. CASE i = 1 \/ j = 1
    <3>1. \A k \in 2 .. Len(h) : h[k].dev # Genesis
      BY <1>5, <1>12
    <3> QED BY <1>14, <2>0, <2>1, <3>1
  <2>2. CASE i \in 2 .. Len(h) /\ j \in 2 .. Len(h)
    <3>1. h[i] = h[j]
      BY <1>5, <1>12, <1>14, <2>2
    <3>2. i - 1 = j - 1
      BY <1>9, <1>12, <2>2, <3>1
    <3> QED BY <1>7, <1>10, <3>2
  <2> QED BY <1>7, <1>10, <2>1, <2>2
<1> QED BY <1>6, <1>7, <1>10, <1>11, <1>13, <1>14 DEF FoundingIs, Histories

LEMMA FoundingHolds ==
  /\ Founding \in Histories
  /\ Authorized(Founding) /\ Once(Founding)
  /\ Of(Founding, "revoke") = {}
  /\ \A id \in Ids : ~Has(Founding, id)
<1> DEFINE h == Founding
<1>1. FoundingIs(h)
  BY FoundingShape
<1> HIDE DEF h
<1>2. h \in Histories /\ DOMAIN h = 1 .. Len(h) /\ Len(h) \in Nat
  BY <1>1 DEF FoundingIs, Histories
<1>3. Once(h) /\ Of(h, "revoke") = {} /\ \A id \in Ids : ~Has(h, id)
  BY <1>1, <1>2, MembershipAssumption DEF FoundingIs, Once, Of, Has, Ids
<1>4. Authorized(h)
  <2> SUFFICES ASSUME NEW i \in 2 .. Len(h)
               PROVE  /\ h[i].by \in Active(SubSeq(h, 1, i - 1))
                      /\ h[i].epoch = Epoch(SubSeq(h, 1, i - 1))
                      /\ h[i].kind = "add" => h[i].dev \notin Admitted(SubSeq(h, 1, i - 1))
                      /\ h[i].kind = "revoke" => h[i].dev \in Active(SubSeq(h, 1, i - 1))
    BY DEF Authorized
  <2> DEFINE b == SubSeq(h, 1, i - 1)
  <2>1. /\ b \in Seq(Events) /\ Len(b) = i - 1 /\ DOMAIN b = 1 .. i - 1
        /\ \A j \in 1 .. i - 1 : b[j] = h[j]
    BY <1>2 DEF Histories
  <2> HIDE DEF b
  <2>2. \A j \in 1 .. i - 1 : j \in 1 .. Len(h) /\ j # i /\ b[j] = h[j]
    BY <1>2, <2>1
  <2>3. i \in 1 .. Len(h) /\ 1 \in 1 .. i - 1
    BY <1>2
  <2>4. Of(b, "revoke") = {}
    BY <1>1, <2>1, <2>2 DEF Of, FoundingIs
  <2>5. Epoch(b) = 1
    BY <2>4, FS_EmptySet DEF Epoch
  <2>6. Genesis \in Active(b)
    <3>1. 1 \in Of(b, "add") /\ b[1].dev = Genesis
      BY <1>1, <2>1, <2>2, <2>3 DEF Of, FoundingIs
    <3> QED BY <2>4, <3>1 DEF Active, Admitted
  <2>7. h[i].dev \notin Admitted(b)
    BY <1>1, <2>1, <2>2, <2>3 DEF Admitted, Of, FoundingIs
  <2>8. h[i].kind = "add" /\ h[i].by = Genesis /\ h[i].epoch = 1
    BY <1>1, <2>3 DEF FoundingIs
  <2>9. "add" # "revoke"
    OBVIOUS
  <2> QED BY <2>5, <2>6, <2>7, <2>8, <2>9 DEF b
<1> QED BY <1>2, <1>3, <1>4 DEF h

(* What the invariant's parts say of histories, in the terms of the lemmas. *)
LEMMA InTerms ==
  ASSUME Types
  PROVE  /\ HistoriesAgree <=> \A d \in Device : Begins(hist[d], chain)
         /\ HistoryIsAuthorized <=> Authorized(chain)
         /\ AdmittedOnce <=> Once(chain)
         /\ \A p \in Pairing : AdmissionOf(p) \in Events =>
               (IsPrefix(Decided(p), chain) <=> Begins(Decided(p), chain))
         /\ \A r \in Revocation :
               Revoke(r, intent[r].issuer, intent[r].target, Epoch(intent[r].parent),
                      intent[r].cutoff) \in Events =>
                  (IsPrefix(Successor(r), chain) <=> Begins(Successor(r), chain))
<1>1. chain \in Histories /\ \A d \in Device : hist[d] \in Histories
  BY DEF Types
<1>2. /\ \A p \in Pairing : approval[p].parent \in Histories
      /\ \A r \in Revocation : intent[r].parent \in Histories
  BY DEF Types, Approvals, Intents
<1>3. \A p \in Pairing : AdmissionOf(p) \in Events => Decided(p) \in Histories
  BY <1>2, BeginsAppend DEF Decided
<1>4. \A r \in Revocation :
         Revoke(r, intent[r].issuer, intent[r].target, Epoch(intent[r].parent),
                intent[r].cutoff) \in Events => Successor(r) \in Histories
  BY <1>2, BeginsAppend DEF Successor
<1>5. HistoriesAgree <=> \A d \in Device : Begins(hist[d], chain)
  BY <1>1, PrefixBegins DEF HistoriesAgree
<1>6. HistoryIsAuthorized <=> Authorized(chain)
  BY DEF HistoryIsAuthorized, Authorized
<1>7. AdmittedOnce <=> Once(chain)
  BY DEF AdmittedOnce, Once
<1> QED BY <1>1, <1>3, <1>4, <1>5, <1>6, <1>7, PrefixBegins

LEMMA InitHolds == Init => MemberInv
<1> SUFFICES ASSUME Init PROVE MemberInv
  OBVIOUS
<1>1. /\ Founding \in Histories /\ Authorized(Founding) /\ Once(Founding)
      /\ Of(Founding, "revoke") = {} /\ \A id \in Ids : ~Has(Founding, id)
  BY FoundingHolds
<1>2. <<>> \in Histories
  BY DEF Histories
<1>3. Types
  <2>1. chain \in Histories /\ hist \in [Device -> Histories]
    BY <1>1, <1>2 DEF Init
  <2>2. invite \in [Pairing -> Invites]
    BY DEF Init, Invites, InviteState, Someone
  <2>3. approval \in [Pairing -> Approvals] /\ joining \in [Pairing -> Joinings]
    BY <1>2 DEF Init, Approvals, Joinings
  <2>4. intent \in [Revocation -> Intents]
    BY <1>2 DEF Init, Intents, IntentState, Someone
  <2>5. work \in [Device -> Works]
    BY DEF Init, Idle, Works
  <2>6. /\ pushed \in [Device -> Nat] /\ wire \subseteq Messages
        /\ activated \in [Device -> Nat] /\ control \in [Device -> SUBSET Revocation]
        /\ daemon \in [Device -> {"up", "down", "failed"}]
        /\ sends \in [Ids -> Nat] /\ crashes \in Nat
    BY DEF Init, Ids
  <2> QED BY <2>1, <2>2, <2>3, <2>4, <2>5, <2>6 DEF Types
<1>4. PairingInOrder /\ Committed
  BY DEF Init, PairingInOrder, Committed
<1>5. DecidedOnce
  BY <1>1 DEF Init, DecidedOnce, Ids
<1>6. IntentInOrder /\ Published
  BY <1>1 DEF Init, IntentInOrder, Published, Ids
<1>7. RequestsAreStored /\ ReceiptsAreTrue
  BY DEF Init, Idle, RequestsAreStored, ReceiptsAreTrue, AboutStored
<1>8. AdmittedOnce /\ HistoryIsAuthorized
  BY <1>1, <1>3, InTerms DEF Init
<1>9. HistoriesAgree
  <2>1. \A d \in Device : hist[d] = Founding \/ hist[d] = <<>>
    BY DEF Init
  <2>2. Begins(Founding, Founding) /\ Begins(<<>>, Founding)
    BY <1>1, BeginsItself DEF Begins, Histories
  <2> QED BY <1>3, <2>1, <2>2, InTerms DEF Init
<1>10. CutoffIsFinal
  BY <1>1 DEF Init, CutoffIsFinal
<1> QED BY <1>3, <1>4, <1>5, <1>6, <1>7, <1>8, <1>9, <1>10 DEF MemberInv

----------------------------------------------------------------------------
(* What every step keeps. *)

(* An approval keeps what was signed, an intent too; histories grow.       *)
PairingKept(p) ==
  /\ approval[p].state # "none" =>
        /\ approval'[p].state # "none" /\ approval'[p].parent = approval[p].parent
        /\ invite'[p].issuer = invite[p].issuer /\ invite'[p].joiner = invite[p].joiner
  /\ invite[p].state = "approved" => invite'[p].state = "approved"
IntentKept(r) ==
  /\ intent[r].state # "none" =>
        /\ intent'[r].issuer = intent[r].issuer /\ intent'[r].target = intent[r].target
        /\ intent'[r].parent = intent[r].parent /\ intent'[r].cutoff = intent[r].cutoff
  /\ intent[r].state \notin Unsent => intent'[r].state \notin Unsent
Kept ==
  /\ Begins(chain, chain')
  /\ \A p \in Pairing : PairingKept(p)
  /\ \A r \in Revocation : IntentKept(r)
  /\ \A d \in Device : Begins(hist[d], hist'[d]) /\ Begins(hist'[d], chain')
  /\ \A d \in Device : activated[d] > 0 => activated'[d] > 0

LEMMA HistoriesKept ==
  ASSUME Types', Kept
  PROVE  HistoriesAgree'
<1>1. HistoriesAgree' <=> \A d \in Device : Begins(hist'[d], chain')
  <2>1. chain' \in Histories /\ \A d \in Device : hist'[d] \in Histories
    BY DEF Types
  <2> QED BY <2>1, PrefixBegins DEF HistoriesAgree
<1> QED BY <1>1 DEF Kept

(* What a decision and a revocation add.                                   *)
LEMMA DecisionHolds ==
  ASSUME Types, PairingInOrder, NEW p \in Pairing, approval[p].state # "none"
  PROVE  /\ invite[p].issuer \in Device /\ invite[p].joiner \in Device
         /\ approval[p].parent \in Histories
         /\ AdmissionOf(p) \in Events /\ AdmissionOf(p).kind = "add" /\ AdmissionOf(p).id = p
         /\ AdmissionOf(p).by = invite[p].issuer /\ AdmissionOf(p).dev = invite[p].joiner
         /\ AdmissionOf(p).epoch = Epoch(approval[p].parent)
         /\ Decided(p) \in Histories /\ Has(Decided(p), p)
<1>1. invite[p].issuer \in Device /\ invite[p].joiner \in Device
  BY DEF PairingInOrder
<1>2. approval[p].parent \in Histories
  BY DEF Types, Approvals
<1>3. Epoch(approval[p].parent) \in Nat
  BY <1>2, EpochType
<1>4. /\ AdmissionOf(p) \in Events /\ AdmissionOf(p).kind = "add" /\ AdmissionOf(p).id = p
      /\ AdmissionOf(p).by = invite[p].issuer /\ AdmissionOf(p).dev = invite[p].joiner
      /\ AdmissionOf(p).epoch = Epoch(approval[p].parent)
  BY <1>1, <1>3 DEF AdmissionOf, Add, Events, Ids
<1>5. Decided(p) \in Histories /\ Has(Decided(p), p)
  BY <1>2, <1>4, BeginsAppend, HasAppend DEF Decided
<1> QED BY <1>1, <1>2, <1>4, <1>5

Ending(r) ==
  Revoke(r, intent[r].issuer, intent[r].target, Epoch(intent[r].parent), intent[r].cutoff)

LEMMA RevocationHolds ==
  ASSUME Types, IntentInOrder, NEW r \in Revocation, intent[r].state # "none"
  PROVE  /\ intent[r].issuer \in Device /\ intent[r].target \in Device
         /\ intent[r].parent \in Histories
         /\ Ending(r) \in Events /\ Ending(r).kind = "revoke" /\ Ending(r).id = r
         /\ Ending(r).by = intent[r].issuer /\ Ending(r).dev = intent[r].target
         /\ Ending(r).epoch = Epoch(intent[r].parent) /\ Ending(r).cutoff = intent[r].cutoff
         /\ Successor(r) = Append(intent[r].parent, Ending(r))
         /\ Successor(r) \in Histories /\ Has(Successor(r), r)
<1>1. intent[r].issuer \in Device /\ intent[r].target \in Device
  BY DEF IntentInOrder
<1>2. intent[r].parent \in Histories /\ intent[r].cutoff \in Nat
  BY DEF Types, Intents
<1>3. Epoch(intent[r].parent) \in Nat
  BY <1>2, EpochType
<1>4. /\ Ending(r) \in Events /\ Ending(r).kind = "revoke" /\ Ending(r).id = r
      /\ Ending(r).by = intent[r].issuer /\ Ending(r).dev = intent[r].target
      /\ Ending(r).epoch = Epoch(intent[r].parent) /\ Ending(r).cutoff = intent[r].cutoff
  BY <1>1, <1>2, <1>3 DEF Ending, Revoke, Events, Ids
<1>5. Successor(r) = Append(intent[r].parent, Ending(r))
  BY DEF Successor, Ending
<1>6. Successor(r) \in Histories /\ Has(Successor(r), r)
  BY <1>2, <1>4, <1>5, BeginsAppend, HasAppend
<1> QED BY <1>1, <1>2, <1>4, <1>5, <1>6

(* What may be new of a pairing, and why it is so.                         *)
PairingNews ==
  \A p \in Pairing :
    /\ invite'[p].state = "approved" =>
          \/ invite[p].state = "approved"
          \/ approval[p].state # "none" /\ Begins(Decided(p), chain')
    /\ Has(chain', p) => Has(chain, p) \/ invite'[p].state = "approved"
    /\ approval'[p].state = "accepted" =>
          approval[p].state = "accepted" \/ Has(hist'[invite'[p].issuer], p)
    /\ joining'[p].state = "completed" =>
          \/ joining[p].state = "completed"
          \/ Has(hist'[invite'[p].joiner], p) /\ activated'[invite'[p].joiner] > 0

LEMMA PairingsKept ==
  ASSUME Types, Types', PairingInOrder, Committed, DecidedOnce, Kept, PairingNews
  PROVE  Committed' /\ DecidedOnce'
<1> SUFFICES ASSUME NEW p \in Pairing
             PROVE  /\ invite'[p].state = "approved" => IsPrefix(Decided(p)', chain')
                    /\ (invite'[p].state = "approved") <=> Has(chain', p)
                    /\ approval'[p].state = "accepted" => Has(hist'[invite'[p].issuer], p)
                    /\ joining'[p].state = "completed" =>
                          /\ Has(hist'[invite'[p].joiner], p)
                          /\ activated'[invite'[p].joiner] > 0
  BY DEF Committed, DecidedOnce, Decided, AdmissionOf
<1>1. /\ chain \in Histories /\ chain' \in Histories
      /\ \A d \in Device : hist[d] \in Histories /\ hist'[d] \in Histories
  BY DEF Types
<1>2. /\ invite[p].state = "approved" => approval[p].state # "none"
      /\ joining[p].state = "completed" => invite[p].state = "approved"
  BY DEF PairingInOrder
<1>3. Begins(chain, chain') /\ PairingKept(p)
      /\ \A d \in Device : /\ Begins(hist[d], hist'[d])
                           /\ activated[d] > 0 => activated'[d] > 0
  BY DEF Kept
<1>4. ASSUME approval[p].state # "none"
      PROVE  /\ Decided(p)' = Decided(p) /\ Decided(p) \in Histories /\ Has(Decided(p), p)
             /\ invite[p].issuer \in Device /\ invite[p].joiner \in Device
  <2>1. Decided(p)' = Decided(p)
    BY <1>3, <1>4 DEF Decided, AdmissionOf, PairingKept
  <2> QED BY <1>4, <2>1, DecisionHolds
<1>5. invite'[p].state = "approved" =>
         approval[p].state # "none" /\ Begins(Decided(p), chain')
  <2>1. ASSUME invite[p].state = "approved"
        PROVE  approval[p].state # "none" /\ Begins(Decided(p), chain')
    <3>1. Begins(Decided(p), chain)
      BY <1>1, <1>2, <1>4, <2>1, PrefixBegins DEF Committed
    <3> QED BY <1>1, <1>2, <1>3, <1>4, <2>1, <3>1, BeginsOn
  <2> QED BY <2>1 DEF PairingNews
<1>6. invite'[p].state = "approved" => IsPrefix(Decided(p)', chain')
  BY <1>1, <1>4, <1>5, PrefixBegins
<1>7. (invite'[p].state = "approved") <=> Has(chain', p)
  <2>1. invite'[p].state = "approved" => Has(chain', p)
    BY <1>1, <1>4, <1>5, HasOn
  <2>2. Has(chain, p) => invite'[p].state = "approved"
    BY <1>3 DEF DecidedOnce, PairingKept
  <2> QED BY <2>1, <2>2 DEF PairingNews
<1>8. approval'[p].state = "accepted" => Has(hist'[invite'[p].issuer], p)
  <2>1. ASSUME approval[p].state = "accepted"
        PROVE  Has(hist'[invite'[p].issuer], p)
    <3>1. invite'[p].issuer = invite[p].issuer /\ invite[p].issuer \in Device
      BY <1>3, <1>4, <2>1 DEF PairingKept
    <3>2. Has(hist[invite[p].issuer], p)
      BY <2>1 DEF DecidedOnce
    <3> QED BY <1>1, <1>3, <3>1, <3>2, HasOn
  <2> QED BY <2>1 DEF PairingNews
<1>9. joining'[p].state = "completed" =>
         Has(hist'[invite'[p].joiner], p) /\ activated'[invite'[p].joiner] > 0
  <2>1. ASSUME joining[p].state = "completed"
        PROVE  Has(hist'[invite'[p].joiner], p) /\ activated'[invite'[p].joiner] > 0
    <3>1. invite'[p].joiner = invite[p].joiner /\ invite[p].joiner \in Device
      BY <1>2, <1>3, <1>4, <2>1 DEF PairingKept
    <3>2. Has(hist[invite[p].joiner], p) /\ activated[invite[p].joiner] > 0
      BY <2>1 DEF DecidedOnce
    <3> QED BY <1>1, <1>3, <3>1, <3>2, HasOn
  <2> QED BY <2>1 DEF PairingNews
<1> QED BY <1>6, <1>7, <1>8, <1>9

(* What may be new of an intent.                                           *)
IntentNews ==
  \A r \in Revocation :
    /\ intent'[r].state # "none" =>
          \/ intent[r].state # "none"
          \/ /\ intent'[r].issuer \in Device /\ intent'[r].target \in Device
             /\ intent'[r].issuer \in Active(intent'[r].parent)
             /\ CertEpoch(intent'[r].issuer, intent'[r].parent) = Epoch(intent'[r].parent)
    /\ intent'[r].state \in Unsent => intent[r].state \in Unsent
    /\ intent'[r].state = "accepted" => intent[r].state = "accepted" \/ Has(chain', r)
    /\ Has(chain', r) =>
          \/ Has(chain, r)
          \/ intent[r].state \notin Unsent /\ Begins(Successor(r), chain')

LEMMA IntentsKept ==
  ASSUME Types, Types', IntentInOrder, Published, Kept, IntentNews
  PROVE  IntentInOrder' /\ Published'
<1> SUFFICES ASSUME NEW r \in Revocation
             PROVE  /\ intent'[r].state # "none" =>
                          /\ intent'[r].issuer \in Device /\ intent'[r].target \in Device
                          /\ intent'[r].issuer \in Active(intent'[r].parent)
                          /\ CertEpoch(intent'[r].issuer, intent'[r].parent)
                                = Epoch(intent'[r].parent)
                    /\ intent'[r].state \in Unsent => ~Has(chain', r)
                    /\ intent'[r].state = "accepted" => Has(chain', r)
                    /\ Has(chain', r) => IsPrefix(Successor(r)', chain')
  BY DEF IntentInOrder, Published, Successor, Unsent
<1>1. chain \in Histories /\ chain' \in Histories
  BY DEF Types
<1>2. Begins(chain, chain') /\ IntentKept(r)
  BY DEF Kept
<1>3. /\ intent[r].state # "none" =>
           /\ intent[r].issuer \in Device /\ intent[r].target \in Device
           /\ intent[r].issuer \in Active(intent[r].parent)
           /\ CertEpoch(intent[r].issuer, intent[r].parent) = Epoch(intent[r].parent)
      /\ intent[r].state \in Unsent => ~Has(chain, r)
      /\ intent[r].state = "accepted" => Has(chain, r)
  BY DEF IntentInOrder
<1>4. intent[r].state # "none" =>
        Successor(r)' = Successor(r) /\ Successor(r) \in Histories
  BY <1>2, RevocationHolds DEF Successor, IntentKept
<1>5. Has(chain', r) => intent[r].state \notin Unsent /\ Begins(Successor(r), chain')
  <2>1. ASSUME Has(chain, r)
        PROVE  intent[r].state \notin Unsent /\ Begins(Successor(r), chain')
    <3>1. intent[r].state \notin Unsent /\ intent[r].state # "none"
      BY <1>3, <2>1 DEF Unsent
    <3>2. Begins(Successor(r), chain)
      BY <1>1, <1>4, <2>1, <3>1, PrefixBegins DEF Published
    <3> QED BY <1>1, <1>2, <1>4, <3>1, <3>2, BeginsOn
  <2> QED BY <2>1 DEF IntentNews
<1>6. "none" \in Unsent
  BY DEF Unsent
<1>7. Has(chain', r) => IsPrefix(Successor(r)', chain')
  BY <1>1, <1>4, <1>5, <1>6, PrefixBegins
<1>8. intent'[r].state \in Unsent => ~Has(chain', r)
  BY <1>5 DEF IntentNews
<1>9. intent'[r].state = "accepted" => Has(chain', r)
  BY <1>1, <1>2, <1>3, HasOn DEF IntentNews
<1>10. intent'[r].state # "none" =>
         /\ intent'[r].issuer \in Device /\ intent'[r].target \in Device
         /\ intent'[r].issuer \in Active(intent'[r].parent)
         /\ CertEpoch(intent'[r].issuer, intent'[r].parent) = Epoch(intent'[r].parent)
  BY <1>2, <1>3 DEF IntentNews, IntentKept
<1> QED BY <1>7, <1>8, <1>9, <1>10

(* What may be new on the wire and in a daemon's call.                     *)
Asks(op, id) ==
  \/ op = "approve" /\ id \in Pairing /\ approval'[id].state # "none"
  \/ op = "revoke" /\ id \in Revocation /\ intent'[id].state \notin Unsent
RequestNews ==
  /\ \A m \in wire' : (\E k \in wire : k.op = m.op /\ k.id = m.id) \/ Asks(m.op, m.id)
  /\ \A d \in Device :
       \/ work'[d].op = "idle"
       \/ work'[d].op = work[d].op /\ work'[d].id = work[d].id
       \/ /\ Asks(work'[d].op, work'[d].id)
          /\ work'[d].op = "approve" => invite'[work'[d].id].issuer = d
          /\ work'[d].op = "revoke" => intent'[work'[d].id].issuer = d
  /\ \A d \in Device : work'[d].answer = "receipt" =>
       \/ work[d].answer = "receipt" /\ work'[d].id = work[d].id
       \/ Has(chain', work'[d].id)

LEMMA RequestsKept ==
  ASSUME Types, Types', RequestsAreStored, ReceiptsAreTrue, Kept, RequestNews
  PROVE  RequestsAreStored' /\ ReceiptsAreTrue'
<1> DEFINE Stored(op, id) ==
      /\ op = "approve" => id \in Pairing /\ approval'[id].state # "none"
      /\ op = "revoke" => id \in Revocation /\ intent'[id].state \notin Unsent
<1>1. ASSUME NEW op, NEW id, Asks(op, id)
      PROVE  Stored(op, id)
  BY <1>1 DEF Asks
<1>2. ASSUME NEW op, NEW id,
             op = "approve" => id \in Pairing /\ approval[id].state # "none",
             op = "revoke" => id \in Revocation /\ intent[id].state \notin Unsent
      PROVE  Stored(op, id)
  BY <1>2 DEF Kept, PairingKept, IntentKept
<1>3. \A m \in wire' : Stored(m.op, m.id)
  <2> SUFFICES ASSUME NEW m \in wire' PROVE Stored(m.op, m.id)
    OBVIOUS
  <2>1. ASSUME NEW k \in wire, k.op = m.op, k.id = m.id
        PROVE  Stored(m.op, m.id)
    BY <1>2, <2>1 DEF RequestsAreStored, AboutStored
  <2> QED BY <1>1, <2>1 DEF RequestNews
<1>4. ASSUME NEW d \in Device
      PROVE  /\ Stored(work'[d].op, work'[d].id)
             /\ work'[d].op = "approve" => invite'[work'[d].id].issuer = d
             /\ work'[d].op = "revoke" => intent'[work'[d].id].issuer = d
  <2>1. CASE work'[d].op = "idle"
    BY <2>1
  <2>2. CASE work'[d].op = work[d].op /\ work'[d].id = work[d].id
    <3>1. /\ work[d].op = "approve" =>
               /\ work[d].id \in Pairing /\ approval[work[d].id].state # "none"
               /\ invite[work[d].id].issuer = d
          /\ work[d].op = "revoke" =>
               /\ work[d].id \in Revocation /\ intent[work[d].id].state \notin Unsent
               /\ intent[work[d].id].issuer = d
      BY DEF RequestsAreStored, AboutStored
    <3>2. Stored(work'[d].op, work'[d].id)
      BY <1>2, <2>2, <3>1
    <3>3. work'[d].op = "approve" => invite'[work'[d].id].issuer = d
      BY <2>2, <3>1 DEF Kept, PairingKept
    <3>4. work'[d].op = "revoke" => intent'[work'[d].id].issuer = d
      BY <2>2, <3>1 DEF Kept, IntentKept, Unsent
    <3> QED BY <3>2, <3>3, <3>4
  <2>3. CASE /\ Asks(work'[d].op, work'[d].id)
             /\ work'[d].op = "approve" => invite'[work'[d].id].issuer = d
             /\ work'[d].op = "revoke" => intent'[work'[d].id].issuer = d
    BY <1>1, <2>3
  <2> QED BY <2>1, <2>2, <2>3 DEF RequestNews
<1>5. RequestsAreStored'
  BY <1>3, <1>4 DEF RequestsAreStored, AboutStored, Unsent
<1>6. ReceiptsAreTrue'
  <2> SUFFICES ASSUME NEW d \in Device, work'[d].answer = "receipt"
               PROVE  Has(chain', work'[d].id)
    BY DEF ReceiptsAreTrue
  <2>1. ASSUME work[d].answer = "receipt", work'[d].id = work[d].id
        PROVE  Has(chain', work'[d].id)
    <3>1. Has(chain, work[d].id)
      BY <2>1 DEF ReceiptsAreTrue
    <3> QED BY <2>1, <3>1, HasOn DEF Kept, Types
  <2> QED BY <2>1 DEF RequestNews
<1> QED BY <1>5, <1>6

(* The three parts that are about the service's history alone.             *)
ChainSound == AdmittedOnce /\ HistoryIsAuthorized /\ CutoffIsFinal

LEMMA StepKeeps ==
  ASSUME MemberInv, Types', PairingInOrder', Kept, PairingNews, IntentNews, RequestNews,
         ChainSound'
  PROVE  MemberInv'
<1>1. /\ Types /\ PairingInOrder /\ Committed /\ DecidedOnce /\ IntentInOrder /\ Published
      /\ RequestsAreStored /\ ReceiptsAreTrue
  BY DEF MemberInv
<1>2. Committed' /\ DecidedOnce'
  BY <1>1, PairingsKept
<1>3. IntentInOrder' /\ Published'
  BY <1>1, IntentsKept
<1>4. RequestsAreStored' /\ ReceiptsAreTrue'
  BY <1>1, RequestsKept
<1>5. HistoriesAgree'
  BY HistoriesKept
<1>6. AdmittedOnce' /\ HistoryIsAuthorized' /\ CutoffIsFinal'
  BY DEF ChainSound
<1> QED BY <1>2, <1>3, <1>4, <1>5, <1>6 DEF MemberInv

----------------------------------------------------------------------------
(* What a step leaves alone. *)

LEMMA SameChain ==
  ASSUME MemberInv, UNCHANGED <<chain, pushed>>
  PROVE  ChainSound'
<1>1. AdmittedOnce' <=> AdmittedOnce
  BY DEF AdmittedOnce
<1>2. HistoryIsAuthorized' <=> HistoryIsAuthorized
  BY DEF HistoryIsAuthorized
<1>3. CutoffIsFinal' <=> CutoffIsFinal
  BY DEF CutoffIsFinal
<1> QED BY <1>1, <1>2, <1>3 DEF ChainSound, MemberInv

LEMMA SamePairings ==
  ASSUME MemberInv, UNCHANGED <<invite, approval, joining>>
  PROVE  /\ PairingInOrder' /\ \A p \in Pairing : PairingKept(p)
         /\ chain' = chain => PairingNews
<1>1. PairingInOrder' <=> PairingInOrder
  BY DEF PairingInOrder
<1>2. \A p \in Pairing : PairingKept(p)
  BY DEF PairingKept
<1>3. chain' = chain => PairingNews
  BY DEF PairingNews
<1> QED BY <1>1, <1>2, <1>3 DEF MemberInv

LEMMA SameIntents ==
  ASSUME UNCHANGED intent
  PROVE  /\ \A r \in Revocation : IntentKept(r)
         /\ chain' = chain => IntentNews
<1>1. \A r \in Revocation : IntentKept(r)
  BY DEF IntentKept
<1>2. chain' = chain => IntentNews
  BY DEF IntentNews
<1> QED BY <1>1, <1>2

LEMMA SameRequests ==
  ASSUME UNCHANGED <<wire, work>>
  PROVE  RequestNews
BY DEF RequestNews

LEMMA EndedRequest ==
  ASSUME Types, UNCHANGED wire, NEW d \in Device, work' = [work EXCEPT ![d] = Idle]
  PROVE  RequestNews
<1>1. Idle.op = "idle" /\ Idle.answer = "none"
  BY DEF Idle
<1>2. \A e \in Device : work'[e] = IF e = d THEN Idle ELSE work[e]
  BY DEF Types
<1> HIDE DEF Idle
<1> QED BY <1>1, <1>2 DEF RequestNews

LEMMA SameHistories ==
  ASSUME MemberInv, UNCHANGED <<chain, hist, activated>>
  PROVE  /\ Begins(chain, chain')
         /\ \A d \in Device : Begins(hist[d], hist'[d]) /\ Begins(hist'[d], chain')
         /\ \A d \in Device : activated[d] > 0 => activated'[d] > 0
<1>1. chain \in Histories /\ \A d \in Device : hist[d] \in Histories
  BY DEF MemberInv, Types
<1>2. \A d \in Device : Begins(hist[d], chain)
  BY InTerms DEF MemberInv
<1> QED BY <1>1, <1>2, BeginsItself

LEMMA Undisturbed ==
  ASSUME MemberInv, UNCHANGED <<chain, hist, activated>>,
         \A p \in Pairing : PairingKept(p), \A r \in Revocation : IntentKept(r)
  PROVE  Kept
BY SameHistories DEF Kept

----------------------------------------------------------------------------
(* Invitations. *)

LEMMA InviteStep ==
  ASSUME MemberInv, NEW p \in Pairing,
         invite' \in [Pairing -> Invites], joining' \in [Pairing -> Joinings],
         \A q \in Pairing \ {p} : invite'[q] = invite[q] /\ joining'[q] = joining[q],
         PairingInOrder', PairingKept(p),
         invite'[p].state # "approved", joining'[p].state # "completed",
         UNCHANGED <<chain, pushed, wire, hist, activated, control, approval, intent,
                     daemon, work, sends, crashes>>
  PROVE  MemberInv'
<1>1. Types'
  BY DEF MemberInv, Types
<1>2. \A q \in Pairing : PairingKept(q)
  BY DEF PairingKept
<1>3. PairingNews
  BY DEF PairingNews
<1>4. Kept /\ IntentNews
  BY <1>2, SameIntents, Undisturbed
<1>5. RequestNews /\ ChainSound'
  BY SameRequests, SameChain
<1> QED BY <1>1, <1>3, <1>4, <1>5, StepKeeps

LEMMA CreateInviteKeeps ==
  ASSUME MemberInv, NEW d \in Device, NEW p \in Pairing, CreateInvite(d, p)
  PROVE  MemberInv'
<1> DEFINE n == Epoch(chain)
<1>1. n \in Nat
  BY EpochType DEF MemberInv, Types
<1>2. /\ invite[p].state = "none" /\ UNCHANGED <<chain, pushed, wire, vault, daemon, work, sends, crashes>>
      /\ invite' = [invite EXCEPT ![p].state = "pending", ![p].issuer = d, ![p].epoch = n]
  BY DEF CreateInvite
<1> HIDE DEF n
<1>3. invite \in [Pairing -> Invites] /\ PairingInOrder /\ joining \in [Pairing -> Joinings]
  BY DEF MemberInv, Types
<1>4. invite[p] \in Invites
  BY <1>3
<1>5. /\ invite' \in [Pairing -> Invites]
      /\ invite'[p].state = "pending" /\ invite'[p].issuer = d
      /\ invite'[p].requested = invite[p].requested
      /\ \A q \in Pairing \ {p} : invite'[q] = invite[q]
  BY <1>1, <1>2, <1>3, <1>4 DEF Invites, InviteState, Someone
<1>6. /\ ~invite[p].requested /\ approval[p].state = "none"
      /\ joining[p].state \notin {"awaiting", "confirmed", "completed"}
  BY <1>2, <1>3 DEF PairingInOrder
<1>7. UNCHANGED <<approval, joining, hist, activated, control, intent>>
  BY <1>2 DEF vault
<1>8. PairingInOrder'
  BY <1>3, <1>5, <1>6, <1>7 DEF PairingInOrder
<1>9. PairingKept(p)
  BY <1>2, <1>6 DEF PairingKept
<1> QED BY <1>2, <1>3, <1>5, <1>6, <1>7, <1>8, <1>9, InviteStep

(* Withdrawing and expiry.                                                 *)
LEMMA CloseKeeps ==
  ASSUME MemberInv, NEW p \in Pairing, invite[p].state = "pending",
         invite' = [invite EXCEPT ![p].state = "closed"],
         UNCHANGED <<chain, pushed, wire, vault, daemon, work, sends, crashes>>
  PROVE  MemberInv'
<1>3. invite \in [Pairing -> Invites] /\ PairingInOrder /\ joining \in [Pairing -> Joinings]
  BY DEF MemberInv, Types
<1>4. invite[p] \in Invites
  BY <1>3
<1>5. /\ invite' \in [Pairing -> Invites]
      /\ invite'[p].state = "closed" /\ invite'[p].issuer = invite[p].issuer
      /\ invite'[p].requested = invite[p].requested /\ invite'[p].joiner = invite[p].joiner
      /\ \A q \in Pairing \ {p} : invite'[q] = invite[q]
  BY <1>3, <1>4 DEF Invites, InviteState, Someone
<1>6. joining[p].state \notin {"awaiting", "confirmed", "completed"}
  BY <1>3 DEF PairingInOrder
<1>7. UNCHANGED <<approval, joining, hist, activated, control, intent>>
  BY DEF vault
<1>8. PairingInOrder'
  BY <1>3, <1>5, <1>6, <1>7 DEF PairingInOrder
<1>9. PairingKept(p)
  BY <1>5, <1>7 DEF PairingKept
<1> QED BY <1>3, <1>5, <1>6, <1>7, <1>8, <1>9, InviteStep

LEMMA JoinKeeps ==
  ASSUME MemberInv, NEW d \in Device, NEW p \in Pairing, Join(d, p)
  PROVE  MemberInv'
<1>1. /\ invite[p].state = "pending" /\ ~invite[p].requested
      /\ joining' = [joining EXCEPT ![p].state = "requested"]
      /\ UNCHANGED <<chain, pushed, wire, hist, activated, control, approval, intent,
                     daemon, work, sends, crashes>>
  BY DEF Join
<1>2. PICK submitted \in BOOLEAN :
         invite' = [invite EXCEPT ![p].joiner = d, ![p].requested = submitted]
  BY DEF Join
<1>3. invite \in [Pairing -> Invites] /\ PairingInOrder /\ joining \in [Pairing -> Joinings]
  BY DEF MemberInv, Types
<1>4. invite[p] \in Invites /\ joining[p] \in Joinings
  BY <1>3
<1>5. /\ invite' \in [Pairing -> Invites]
      /\ invite'[p].state = "pending" /\ invite'[p].issuer = invite[p].issuer
      /\ invite'[p].joiner = d
      /\ \A q \in Pairing \ {p} : invite'[q] = invite[q]
  BY <1>1, <1>2, <1>3, <1>4 DEF Invites, InviteState, Someone
<1>6. /\ joining' \in [Pairing -> Joinings] /\ joining'[p].state = "requested"
      /\ \A q \in Pairing \ {p} : joining'[q] = joining[q]
  BY <1>1, <1>3, <1>4 DEF Joinings
<1>7. approval[p].state = "none"
  BY <1>1, <1>3 DEF PairingInOrder
<1>8. PairingInOrder'
  BY <1>1, <1>3, <1>5, <1>6, <1>7 DEF PairingInOrder
<1>9. PairingKept(p)
  BY <1>1, <1>7 DEF PairingKept
<1> QED BY <1>1, <1>5, <1>6, <1>8, <1>9, InviteStep

----------------------------------------------------------------------------
(* Calls and deaths. *)

LEMMA EndTypes ==
  ASSUME Types, NEW d \in Device, Die(d) \/ Finish(d)
  PROVE  /\ work' = [work EXCEPT ![d] = Idle] /\ work' \in [Device -> Works]
         /\ daemon' \in [Device -> {"up", "down", "failed"}] /\ crashes' \in Nat
<1>1. Idle \in Works
  BY DEF Idle, Works
<1>2. work' = [work EXCEPT ![d] = Idle]
  BY DEF Die, Finish
<1>3. work' \in [Device -> Works]
  BY <1>1, <1>2 DEF Types
<1>4. daemon' \in [Device -> {"up", "down", "failed"}] /\ crashes' \in Nat
  BY DEF Types, Die, Finish
<1> QED BY <1>2, <1>3, <1>4

LEMMA SendTypes ==
  ASSUME Types, NEW d \in Device, NEW op \in {"approve", "revoke"}, NEW id \in Ids,
         Send(d, op, id)
  PROVE  /\ sends' \in [Ids -> Nat] /\ wire' \subseteq Messages /\ work' \in [Device -> Works]
         /\ \A m \in wire' : m \in wire \/ (m.op = op /\ m.id = id)
         /\ work'[d].op = op /\ work'[d].id = id /\ work'[d].answer = "none"
         /\ \A e \in Device \ {d} : work'[e] = work[e]
<1>1. sends' \in [Ids -> Nat]
  BY DEF Types, Send
<1>2. PICK n \in Nat : n = sends'[id]
  BY <1>1
<1> DEFINE m == [op |-> op, id |-> id, n |-> n, stage |-> "sent"]
           w == [op |-> op, id |-> id, n |-> n, answer |-> "none"]
<1>3. m \in Messages /\ m.op = op /\ m.id = id
  BY DEF Messages
<1>4. w \in Works /\ w.op = op /\ w.id = id /\ w.answer = "none"
  BY DEF Works
<1>5. wire' = wire \union {m} /\ work' = [work EXCEPT ![d] = w]
  BY <1>2 DEF Send
<1> HIDE DEF m, w
<1>6. work' \in [Device -> Works] /\ work'[d] = w /\ \A e \in Device \ {d} : work'[e] = work[e]
  BY <1>4, <1>5 DEF Types
<1>7. wire' \subseteq Messages /\ \A k \in wire' : k \in wire \/ k = m
  BY <1>3, <1>5 DEF Types
<1>8. \A k \in wire' : k \in wire \/ (k.op = op /\ k.id = id)
  BY <1>3, <1>7
<1>9. work'[d].op = op /\ work'[d].id = id /\ work'[d].answer = "none"
  BY <1>4, <1>6
<1> QED BY <1>1, <1>6, <1>7, <1>8, <1>9

LEMMA SendNews ==
  ASSUME Types, NEW d \in Device, NEW op \in {"approve", "revoke"}, NEW id \in Ids,
         Send(d, op, id), Asks(op, id),
         op = "approve" => invite'[id].issuer = d,
         op = "revoke" => intent'[id].issuer = d
  PROVE  RequestNews
<1>1. /\ \A m \in wire' : m \in wire \/ (m.op = op /\ m.id = id)
      /\ work'[d].op = op /\ work'[d].id = id /\ work'[d].answer = "none"
      /\ \A e \in Device \ {d} : work'[e] = work[e]
  BY SendTypes
<1> QED BY <1>1 DEF RequestNews

(* The service's answers change no call but its answer.                    *)
LEMMA AnswerTypes ==
  ASSUME Types, NEW d \in Device, NEW m \in wire, NEW answer \in {"receipt", "refused", "conflict"},
         Answer(d, m, answer)
  PROVE  /\ wire' \subseteq wire /\ wire' \subseteq Messages /\ work' \in [Device -> Works]
         /\ \A e \in Device : work'[e].op = work[e].op /\ work'[e].id = work[e].id
         /\ \A e \in Device : \/ work'[e].answer = work[e].answer
                              \/ work'[e].answer = answer /\ work'[e].id = m.id
<1>1. wire' \subseteq wire /\ wire' \subseteq Messages
  BY DEF Answer, Types
<1>2. work \in [Device -> Works] /\ work[d] \in Works
  BY DEF Types
<1>3. CASE work' = work
  BY <1>1, <1>2, <1>3
<1>4. CASE work[d].id = m.id /\ work' = [work EXCEPT ![d].answer = answer]
  <2> DEFINE w == [work[d] EXCEPT !.answer = answer]
  <2>1. w \in Works /\ w.op = work[d].op /\ w.id = work[d].id /\ w.answer = answer
    BY <1>2 DEF Works
  <2>2. work' = [work EXCEPT ![d] = w]
    BY <1>4
  <2> HIDE DEF w
  <2>3. \A e \in Device : work'[e] = IF e = d THEN w ELSE work[e]
    BY <1>2, <2>2
  <2> QED BY <1>1, <1>2, <1>4, <2>1, <2>2, <2>3
<1> QED BY <1>3, <1>4 DEF Answer

LEMMA AnswerNews ==
  ASSUME Types, NEW d \in Device, NEW m \in wire, NEW answer \in {"receipt", "refused", "conflict"},
         Answer(d, m, answer), answer = "receipt" => Has(chain', m.id)
  PROVE  RequestNews
<1>1. /\ wire' \subseteq wire
      /\ \A e \in Device : work'[e].op = work[e].op /\ work'[e].id = work[e].id
      /\ \A e \in Device : \/ work'[e].answer = work[e].answer
                           \/ work'[e].answer = answer /\ work'[e].id = m.id
  BY AnswerTypes
<1> QED BY <1>1 DEF RequestNews

(* A step that leaves the histories, the pairings and the intents alone.   *)
LEMMA RequestStep ==
  ASSUME MemberInv, UNCHANGED <<service, vault>>,
         wire' \subseteq Messages, daemon' \in [Device -> {"up", "down", "failed"}],
         work' \in [Device -> Works], sends' \in [Ids -> Nat], crashes' \in Nat, RequestNews
  PROVE  MemberInv'
<1>1. UNCHANGED <<chain, invite, pushed, hist, activated, control, approval, joining, intent>>
  BY DEF service, vault
<1>2. Types'
  BY <1>1 DEF MemberInv, Types
<1>3. PairingInOrder' /\ PairingNews /\ IntentNews /\ ChainSound'
  BY <1>1, SamePairings, SameIntents, SameChain
<1>4. Kept
  BY <1>1, SamePairings, SameIntents, Undisturbed
<1> QED BY <1>2, <1>3, <1>4, StepKeeps

----------------------------------------------------------------------------
(* Approval, up to the service's transaction. *)

LEMMA PrepareApprovalKeeps ==
  ASSUME MemberInv, NEW d \in Device, NEW p \in Pairing, PrepareApproval(d, p)
  PROVE  MemberInv'
<1>1. /\ invite[p].issuer = d /\ invite[p].requested /\ approval[p].state = "none"
      /\ Send(d, "approve", p)
      /\ UNCHANGED <<chain, invite, pushed, hist, activated, control, joining, intent,
                     daemon, crashes>>
  BY DEF PrepareApproval, service
<1> DEFINE a == [state |-> "prepared", parent |-> hist[d]]
<1>2. approval' = [approval EXCEPT ![p] = a]
  BY DEF PrepareApproval
<1>3. a \in Approvals /\ a.state = "prepared"
  BY DEF MemberInv, Types, Approvals
<1> HIDE DEF a
<1>4. Types /\ PairingInOrder
  BY DEF MemberInv
<1>5. /\ approval' \in [Pairing -> Approvals] /\ approval'[p].state = "prepared"
      /\ \A q \in Pairing \ {p} : approval'[q] = approval[q]
  BY <1>2, <1>3, <1>4 DEF Types
<1>6. p \in Ids /\ "approve" \in {"approve", "revoke"}
  BY DEF Ids
<1>7. Types'
  <2>1. sends' \in [Ids -> Nat] /\ wire' \subseteq Messages /\ work' \in [Device -> Works]
    BY <1>1, <1>4, <1>6, SendTypes
  <2> QED BY <1>1, <1>4, <1>5, <2>1 DEF Types
<1>8. PairingInOrder' /\ \A q \in Pairing : PairingKept(q)
  BY <1>1, <1>4, <1>5 DEF PairingInOrder, PairingKept
<1>9. PairingNews
  BY <1>1, <1>5 DEF PairingNews
<1>10. Kept /\ IntentNews /\ ChainSound'
  BY <1>1, <1>8, SameIntents, SameChain, Undisturbed
<1>11. RequestNews
  <2>1. PICK op \in {"approve", "revoke"} : op = "approve"
    OBVIOUS
  <2>2. Asks(op, p) /\ op # "revoke" /\ Send(d, op, p)
    BY <1>1, <1>5, <2>1 DEF Asks
  <2> QED BY <1>1, <1>4, <1>6, <2>1, <2>2, SendNews
<1> QED BY <1>7, <1>8, <1>9, <1>10, <1>11, StepKeeps

LEMMA ResumeApprovalKeeps ==
  ASSUME MemberInv, NEW d \in Device, NEW p \in Pairing, ResumeApproval(d, p)
  PROVE  MemberInv'
<1>1. /\ invite[p].issuer = d /\ approval[p].state = "prepared"
      /\ Send(d, "approve", p) /\ UNCHANGED <<service, vault, daemon, crashes>>
  BY DEF ResumeApproval
<1>2. Types
  BY DEF MemberInv
<1>3. p \in Ids
  BY DEF Ids
<1>4. PICK op \in {"approve", "revoke"} : op = "approve"
  OBVIOUS
<1>5. Asks(op, p) /\ op # "revoke" /\ Send(d, op, p)
  BY <1>1, <1>4 DEF Asks, vault
<1>6. invite'[p].issuer = d
  BY <1>1 DEF service
<1>7. RequestNews
  BY <1>2, <1>3, <1>5, <1>6, SendNews
<1>8. sends' \in [Ids -> Nat] /\ wire' \subseteq Messages /\ work' \in [Device -> Works]
  BY <1>2, <1>3, <1>5, SendTypes
<1>9. daemon' \in [Device -> {"up", "down", "failed"}] /\ crashes' \in Nat
  BY <1>1, <1>2 DEF Types
<1> QED BY <1>1, <1>7, <1>8, <1>9, RequestStep

(* A request that passes the edge stays the request it was.                *)
LEMMA VerifiedKeeps ==
  ASSUME MemberInv, NEW m \in wire,
         wire' = (wire \ {m}) \union {[m EXCEPT !.stage = "verified"]},
         UNCHANGED <<service, vault, daemon, work, sends, crashes>>
  PROVE  MemberInv'
<1> DEFINE k == [m EXCEPT !.stage = "verified"]
<1>1. Types /\ m \in Messages
  BY DEF MemberInv, Types
<1>2. k \in Messages /\ k.op = m.op /\ k.id = m.id
  BY <1>1 DEF Messages
<1>3. wire' = (wire \ {m}) \union {k}
  OBVIOUS
<1> HIDE DEF k
<1>4. wire' \subseteq Messages
  BY <1>1, <1>2, <1>3 DEF Types
<1>5. RequestNews
  BY <1>2, <1>3 DEF RequestNews
<1>6. /\ daemon' \in [Device -> {"up", "down", "failed"}] /\ crashes' \in Nat
      /\ work' \in [Device -> Works] /\ sends' \in [Ids -> Nat]
  BY <1>1 DEF Types
<1> QED BY <1>4, <1>5, <1>6, RequestStep

LEMMA AnsweredKeeps ==
  ASSUME MemberInv, NEW m \in wire, NEW d \in Device,
         NEW answer \in {"receipt", "refused", "conflict"}, Answer(d, m, answer),
         answer = "receipt" => Has(chain, m.id),
         UNCHANGED <<service, vault, daemon, sends, crashes>>
  PROVE  MemberInv'
<1>1. Types /\ chain' = chain
  BY DEF MemberInv, service
<1>2. wire' \subseteq Messages /\ work' \in [Device -> Works]
  BY <1>1, AnswerTypes
<1>3. RequestNews
  BY <1>1, AnswerNews
<1>4. /\ daemon' \in [Device -> {"up", "down", "failed"}] /\ crashes' \in Nat
      /\ sends' \in [Ids -> Nat]
  BY <1>1 DEF Types
<1> QED BY <1>2, <1>3, <1>4, RequestStep

(* Whom a request is about.                                                *)
LEMMA RequestOf ==
  ASSUME MemberInv, NEW m \in wire
  PROVE  /\ m.op = "approve" =>
              /\ m.id \in Pairing /\ approval[m.id].state # "none"
              /\ invite[m.id].issuer \in Device
         /\ m.op = "revoke" =>
              /\ m.id \in Revocation /\ intent[m.id].state \notin Unsent
              /\ intent[m.id].state # "none" /\ intent[m.id].issuer \in Device
<1>1. /\ m.op = "approve" => m.id \in Pairing /\ approval[m.id].state # "none"
      /\ m.op = "revoke" => m.id \in Revocation /\ intent[m.id].state \notin Unsent
  BY DEF MemberInv, RequestsAreStored, AboutStored
<1>2. m.op = "approve" => invite[m.id].issuer \in Device
  BY <1>1, DecisionHolds DEF MemberInv
<1>3. m.op = "revoke" => intent[m.id].state # "none"
  BY <1>1 DEF Unsent
<1>4. m.op = "revoke" => intent[m.id].issuer \in Device
  BY <1>1, <1>3, RevocationHolds DEF MemberInv
<1> QED BY <1>1, <1>2, <1>3, <1>4

LEMMA VerifyApprovalKeeps ==
  ASSUME MemberInv, NEW m \in wire, VerifyApproval(m)
  PROVE  MemberInv'
<1>1. m.op = "approve" /\ UNCHANGED <<service, vault, daemon, sends, crashes>>
  BY DEF VerifyApproval
<1>2. invite[m.id].issuer \in Device
  BY <1>1, RequestOf
<1>3. CASE wire' = (wire \ {m}) \union {[m EXCEPT !.stage = "verified"]} /\ UNCHANGED work
  BY <1>1, <1>3, VerifiedKeeps
<1>4. CASE Answer(invite[m.id].issuer, m, "refused")
  <2>1. PICK answer \in {"receipt", "refused", "conflict"} : answer = "refused"
    OBVIOUS
  <2> QED BY <1>1, <1>2, <1>4, <2>1, AnsweredKeeps
<1> QED BY <1>3, <1>4 DEF VerifyApproval

LEMMA VerifyRevocationKeeps ==
  ASSUME MemberInv, NEW m \in wire, VerifyRevocation(m)
  PROVE  MemberInv'
<1>1. m.op = "revoke" /\ UNCHANGED <<service, vault, daemon, sends, crashes>>
  BY DEF VerifyRevocation
<1>2. intent[m.id].issuer \in Device
  BY <1>1, RequestOf
<1>3. CASE wire' = (wire \ {m}) \union {[m EXCEPT !.stage = "verified"]} /\ UNCHANGED work
  BY <1>1, <1>3, VerifiedKeeps
<1>4. ASSUME NEW answer \in {"receipt", "refused", "conflict"}, answer # "receipt",
             Answer(intent[m.id].issuer, m, answer)
      PROVE  MemberInv'
  BY <1>1, <1>2, <1>4, AnsweredKeeps
<1>5. \A answer \in {"refused", "conflict"} :
        answer \in {"receipt", "refused", "conflict"} /\ answer # "receipt"
  OBVIOUS
<1> QED BY <1>3, <1>4, <1>5 DEF VerifyRevocation

----------------------------------------------------------------------------
(* The service's transactions. *)

LEMMA GrowthKept ==
  ASSUME MemberInv, NEW e \in Events, chain' = Append(chain, e), UNCHANGED <<hist, activated>>,
         \A p \in Pairing : PairingKept(p), \A r \in Revocation : IntentKept(r)
  PROVE  Kept /\ chain' \in Histories
<1>1. chain \in Histories /\ \A d \in Device : hist[d] \in Histories
  BY DEF MemberInv, Types
<1>2. chain' \in Histories /\ Begins(chain, chain')
  BY <1>1, BeginsAppend
<1>3. \A d \in Device : Begins(hist[d], chain)
  BY InTerms DEF MemberInv
<1>4. \A d \in Device : Begins(hist'[d], chain') /\ Begins(hist[d], hist'[d])
  BY <1>1, <1>2, <1>3, BeginsOn, BeginsItself
<1> QED BY <1>2, <1>4 DEF Kept

LEMMA GrowthSound ==
  ASSUME MemberInv, NEW e \in Events, chain' = Append(chain, e), UNCHANGED pushed,
         e.by \in Active(chain), e.epoch = Epoch(chain),
         e.kind = "add" => e.dev \notin Admitted(chain),
         e.kind = "revoke" => e.dev \in Active(chain) /\ pushed[e.dev] = e.cutoff
  PROVE  ChainSound'
<1>1. chain \in Histories /\ Authorized(chain) /\ Once(chain)
  BY InTerms DEF MemberInv, Types
<1>2. Authorized(chain') /\ Once(chain')
  BY <1>1, AuthorizedAppend
<1>3. AdmittedOnce' /\ HistoryIsAuthorized'
  BY <1>2 DEF AdmittedOnce, HistoryIsAuthorized, Authorized, Once
<1>4. /\ chain'[Len(chain) + 1] = e /\ DOMAIN chain' = DOMAIN chain \union {Len(chain) + 1}
      /\ \A i \in DOMAIN chain : chain'[i] = chain[i]
  BY <1>1, BeginsAppend
<1>5. CutoffIsFinal'
  <2> SUFFICES ASSUME NEW i \in DOMAIN chain', chain'[i].kind = "revoke"
               PROVE  pushed[chain'[i].dev] = chain'[i].cutoff
    BY DEF CutoffIsFinal, Of
  <2>1. CASE i \in DOMAIN chain
    <3>1. chain'[i] = chain[i]
      BY <1>4, <2>1
    <3>2. i \in Of(chain, "revoke")
      BY <2>1, <3>1 DEF Of
    <3> QED BY <3>1, <3>2 DEF CutoffIsFinal, MemberInv
  <2>2. CASE i = Len(chain) + 1
    BY <1>4, <2>2
  <2> QED BY <1>4, <2>1, <2>2
<1> QED BY <1>3, <1>5 DEF ChainSound

LEMMA DecideKeeps ==
  ASSUME MemberInv, NEW m \in wire, NEW p \in Pairing, m.op = "approve", m.id = p,
         Undecided(p), chain' = Append(chain, AdmissionOf(p)),
         invite' = [invite EXCEPT ![p].state = "approved"],
         Answer(invite[p].issuer, m, "receipt"),
         UNCHANGED <<pushed, vault, daemon, sends, crashes>>
  PROVE  MemberInv'
<1>1. Types /\ PairingInOrder
  BY DEF MemberInv
<1>2. approval[p].state # "none" /\ invite[p].issuer \in Device
  BY RequestOf
<1>3. /\ AdmissionOf(p) \in Events /\ AdmissionOf(p).kind = "add" /\ AdmissionOf(p).id = p
      /\ AdmissionOf(p).by = invite[p].issuer /\ AdmissionOf(p).dev = invite[p].joiner
      /\ AdmissionOf(p).epoch = Epoch(approval[p].parent)
      /\ Decided(p) \in Histories /\ Has(Decided(p), p)
  BY <1>1, <1>2, DecisionHolds
<1>4. /\ chain = approval[p].parent /\ invite[p].issuer \in Active(chain)
      /\ invite[p].joiner \notin Admitted(chain) /\ invite[p].state = "pending"
  BY DEF Undecided, HeadIs, InviteLive, Member
<1>5. chain' = Decided(p)
  BY <1>4 DEF Decided
<1>6. UNCHANGED <<hist, activated, control, approval, joining, intent>>
  BY DEF vault
<1>7. invite[p] \in Invites /\ invite \in [Pairing -> Invites]
  BY <1>1 DEF Types
<1>8. /\ invite' \in [Pairing -> Invites] /\ invite'[p].state = "approved"
      /\ invite'[p].issuer = invite[p].issuer /\ invite'[p].joiner = invite[p].joiner
      /\ invite'[p].requested = invite[p].requested
      /\ \A q \in Pairing \ {p} : invite'[q] = invite[q]
  BY <1>7 DEF Invites, InviteState
<1>9. \A q \in Pairing : PairingKept(q)
  BY <1>6, <1>8 DEF PairingKept
<1>10. PairingInOrder'
  BY <1>1, <1>2, <1>4, <1>6, <1>8 DEF PairingInOrder
<1>11. Kept /\ chain' \in Histories
  BY <1>3, <1>6, <1>9, SameIntents, GrowthKept
<1>12. PICK answer \in {"receipt", "refused", "conflict"} : answer = "receipt"
  OBVIOUS
<1>13. Types'
  <2>1. wire' \subseteq Messages /\ work' \in [Device -> Works]
    BY <1>1, <1>2, <1>12, AnswerTypes
  <2> QED BY <1>1, <1>6, <1>8, <1>11, <2>1 DEF Types
<1>14. \A id : Has(chain', id) => Has(chain, id) \/ id = p
  BY <1>1, <1>3, HasAppend DEF Types
<1>15. PairingNews
  <2>1. Begins(Decided(p), chain')
    BY <1>3, <1>5, BeginsItself
  <2> QED BY <1>2, <1>6, <1>8, <1>14, <2>1 DEF PairingNews
<1>16. IntentNews
  <2>1. \A r \in Revocation : Has(chain', r) => Has(chain, r)
    BY <1>14, MembershipAssumption
  <2> QED BY <1>6, <2>1 DEF IntentNews
<1>17. RequestNews
  BY <1>1, <1>2, <1>3, <1>5, <1>12, AnswerNews
<1>18. ChainSound'
  <2>1. "add" # "revoke"
    OBVIOUS
  <2> QED BY <1>3, <1>4, <2>1, GrowthSound
<1> QED BY <1>10, <1>11, <1>13, <1>15, <1>16, <1>17, <1>18, StepKeeps

LEMMA ServeApprovalKeeps ==
  ASSUME MemberInv, NEW m \in wire, ServeApproval(m)
  PROVE  MemberInv'
<1> DEFINE p == m.id
<1>1. m.op = "approve" /\ UNCHANGED <<pushed, vault, daemon, sends, crashes>>
  BY DEF ServeApproval
<1>2. p \in Pairing /\ invite[p].issuer \in Device
  BY <1>1, RequestOf
<1>3. CASE /\ Undecided(p) /\ chain' = Append(chain, AdmissionOf(p))
           /\ invite' = [invite EXCEPT ![p].state = "approved"]
           /\ Answer(invite[p].issuer, m, "receipt")
  BY <1>1, <1>2, <1>3, DecideKeeps
<1>4. CASE /\ invite[p].state = "approved" /\ Answer(invite[p].issuer, m, "receipt")
           /\ UNCHANGED <<chain, invite>>
  <2>1. Has(chain, p)
    BY <1>2, <1>4 DEF MemberInv, DecidedOnce
  <2>2. PICK answer \in {"receipt", "refused", "conflict"} : answer = "receipt"
    OBVIOUS
  <2>3. UNCHANGED service
    BY <1>1, <1>4 DEF service
  <2> QED BY <1>1, <1>2, <1>4, <2>1, <2>2, <2>3, AnsweredKeeps
<1>5. CASE Answer(invite[p].issuer, m, "refused") /\ UNCHANGED <<chain, invite>>
  <2>2. PICK answer \in {"receipt", "refused", "conflict"} : answer = "refused"
    OBVIOUS
  <2>3. UNCHANGED service
    BY <1>1, <1>5 DEF service
  <2> QED BY <1>1, <1>2, <1>5, <2>2, <2>3, AnsweredKeeps
<1> QED BY <1>3, <1>4, <1>5 DEF ServeApproval

LEMMA RevokeKeeps ==
  ASSUME MemberInv, NEW m \in wire, NEW r \in Revocation, m.op = "revoke", m.id = r,
         Member(intent[r].issuer), HeadIs(intent[r].parent), Member(intent[r].target),
         CutoffHolds(r), chain' = Append(chain, Ending(r)),
         Answer(intent[r].issuer, m, "receipt"),
         UNCHANGED <<invite, pushed, vault, daemon, sends, crashes>>
  PROVE  MemberInv'
<1>1. Types /\ IntentInOrder
  BY DEF MemberInv
<1>2. /\ intent[r].state # "none" /\ intent[r].state \notin Unsent
      /\ intent[r].issuer \in Device
  BY RequestOf
<1>3. /\ Ending(r) \in Events /\ Ending(r).kind = "revoke" /\ Ending(r).id = r
      /\ Ending(r).by = intent[r].issuer /\ Ending(r).dev = intent[r].target
      /\ Ending(r).epoch = Epoch(intent[r].parent) /\ Ending(r).cutoff = intent[r].cutoff
      /\ Successor(r) = Append(intent[r].parent, Ending(r))
      /\ Successor(r) \in Histories /\ Has(Successor(r), r)
  BY <1>1, <1>2, RevocationHolds
<1>4. /\ chain = intent[r].parent /\ intent[r].issuer \in Active(chain)
      /\ intent[r].target \in Active(chain) /\ pushed[intent[r].target] = intent[r].cutoff
  BY DEF HeadIs, Member, CutoffHolds
<1>5. chain' = Successor(r)
  BY <1>3, <1>4
<1>6. UNCHANGED <<hist, activated, control, approval, joining, intent>>
  BY DEF vault
<1>7. PairingInOrder' /\ \A p \in Pairing : PairingKept(p)
  BY <1>6, SamePairings
<1>8. Kept /\ chain' \in Histories
  BY <1>3, <1>6, <1>7, SameIntents, GrowthKept
<1>9. PICK answer \in {"receipt", "refused", "conflict"} : answer = "receipt"
  OBVIOUS
<1>10. Types'
  <2>1. wire' \subseteq Messages /\ work' \in [Device -> Works]
    BY <1>1, <1>2, <1>9, AnswerTypes
  <2> QED BY <1>1, <1>6, <1>8, <2>1 DEF Types
<1>11. \A id : Has(chain', id) => Has(chain, id) \/ id = r
  BY <1>1, <1>3, HasAppend DEF Types
<1>12. PairingNews
  <2>1. \A p \in Pairing : Has(chain', p) => Has(chain, p)
    BY <1>11, MembershipAssumption
  <2> QED BY <1>6, <2>1 DEF PairingNews
<1>13. IntentNews
  <2>1. Begins(Successor(r), chain')
    BY <1>3, <1>5, BeginsItself
  <2> QED BY <1>2, <1>6, <1>11, <2>1 DEF IntentNews
<1>14. RequestNews
  BY <1>1, <1>2, <1>3, <1>5, <1>9, AnswerNews
<1>15. ChainSound'
  <2>1. "add" # "revoke"
    OBVIOUS
  <2> QED BY <1>3, <1>4, <2>1, GrowthSound
<1> QED BY <1>7, <1>8, <1>10, <1>12, <1>13, <1>14, <1>15, StepKeeps

LEMMA PublishRevocationKeeps ==
  ASSUME MemberInv, NEW m \in wire, PublishRevocation(m)
  PROVE  MemberInv'
<1> DEFINE r == m.id
<1>1. m.op = "revoke" /\ UNCHANGED <<invite, pushed, vault, daemon, sends, crashes>>
  BY DEF PublishRevocation
<1>2. r \in Revocation /\ intent[r].issuer \in Device
  BY <1>1, RequestOf
<1>3. CASE /\ Member(intent[r].issuer) /\ HeadIs(intent[r].parent) /\ Member(intent[r].target)
           /\ CutoffHolds(r) /\ chain' = Append(chain, Ending(r))
           /\ Answer(intent[r].issuer, m, "receipt")
  BY <1>1, <1>2, <1>3, RevokeKeeps
<1>4. ASSUME NEW answer \in {"receipt", "refused", "conflict"},
             answer = "receipt" => Has(chain, r),
             Answer(intent[r].issuer, m, answer), UNCHANGED chain
      PROVE  MemberInv'
  <2>1. UNCHANGED service
    BY <1>1, <1>4 DEF service
  <2> QED BY <1>1, <1>2, <1>4, <2>1, AnsweredKeeps
<1>5. CASE Answer(intent[r].issuer, m, "refused") /\ UNCHANGED chain
  BY <1>4, <1>5
<1>6. CASE Answer(intent[r].issuer, m, "conflict") /\ UNCHANGED chain
  BY <1>4, <1>6
<1>7. CASE Has(chain, r) /\ Answer(intent[r].issuer, m, "receipt") /\ UNCHANGED chain
  BY <1>4, <1>7
<1> QED BY <1>3, <1>5, <1>6, <1>7 DEF PublishRevocation, Ending

----------------------------------------------------------------------------
(* What a device accepts. *)

HistoriesGrow ==
  /\ hist' \in [Device -> Histories]
  /\ \A d \in Device : Begins(hist[d], hist'[d]) /\ Begins(hist'[d], chain)

LEMMA OneGrows ==
  ASSUME MemberInv, NEW d \in Device, NEW h \in Histories,
         Begins(hist[d], h), Begins(h, chain), hist' = [hist EXCEPT ![d] = h]
  PROVE  HistoriesGrow /\ hist'[d] = h
<1>1. hist \in [Device -> Histories]
  BY DEF MemberInv, Types
<1>2. \A e \in Device : Begins(hist[e], chain)
  BY InTerms DEF MemberInv
<1>3. \A e \in Device : hist'[e] = IF e = d THEN h ELSE hist[e]
  BY <1>1
<1>4. hist' \in [Device -> Histories]
  BY <1>1
<1>5. \A e \in Device : Begins(hist[e], hist'[e]) /\ Begins(hist'[e], chain)
  BY <1>1, <1>2, <1>3, BeginsItself
<1> QED BY <1>3, <1>4, <1>5 DEF HistoriesGrow

LEMMA NoneGrows ==
  ASSUME MemberInv, UNCHANGED hist
  PROVE  HistoriesGrow
<1>1. hist \in [Device -> Histories]
  BY DEF MemberInv, Types
<1>2. \A e \in Device : Begins(hist[e], chain)
  BY InTerms DEF MemberInv
<1> QED BY <1>1, <1>2, BeginsItself DEF HistoriesGrow

(* The history of a decision continues every history that lacks it.        *)
LEMMA DecisionContinues ==
  ASSUME MemberInv, NEW d \in Device, NEW p \in Pairing, invite[p].state = "approved"
  PROVE  /\ approval[p].state # "none" /\ Decided(p) \in Histories /\ Has(Decided(p), p)
         /\ Begins(Decided(p), chain)
         /\ ~Has(hist[d], p) => Begins(hist[d], Decided(p))
<1>1. Types /\ PairingInOrder /\ approval[p].state # "none"
  BY DEF MemberInv, PairingInOrder
<1>2. Decided(p) \in Histories /\ Has(Decided(p), p)
  BY <1>1, DecisionHolds
<1>3. chain \in Histories /\ hist[d] \in Histories
  BY <1>1 DEF Types
<1>4. Begins(Decided(p), chain)
  BY <1>2, <1>3, PrefixBegins DEF MemberInv, Committed
<1>5. Begins(hist[d], chain)
  BY InTerms DEF MemberInv
<1>6. ~Has(hist[d], p) => Begins(hist[d], Decided(p))
  BY <1>2, <1>3, <1>4, <1>5, HasMore
<1> QED BY <1>1, <1>2, <1>4, <1>6

(* A step of a device that records what it has been told.                  *)
LEMMA RecordStep ==
  ASSUME MemberInv, NEW d \in Device, Die(d) \/ Finish(d), HistoriesGrow,
         activated' \in [Device -> Nat],
         \A e \in Device : activated[e] > 0 => activated'[e] > 0,
         control' \in [Device -> SUBSET Revocation],
         approval' \in [Pairing -> Approvals], joining' \in [Pairing -> Joinings],
         intent' \in [Revocation -> Intents],
         PairingInOrder', \A p \in Pairing : PairingKept(p), PairingNews,
         \A r \in Revocation : IntentKept(r), IntentNews,
         UNCHANGED <<service, wire, sends>>
  PROVE  MemberInv'
<1>1. Types /\ UNCHANGED <<chain, invite, pushed>>
  BY DEF MemberInv, service
<1>2. /\ work' = [work EXCEPT ![d] = Idle] /\ work' \in [Device -> Works]
      /\ daemon' \in [Device -> {"up", "down", "failed"}] /\ crashes' \in Nat
  BY <1>1, EndTypes
<1>3. Types'
  BY <1>1, <1>2 DEF Types, HistoriesGrow
<1>4. Begins(chain, chain')
  BY <1>1, BeginsItself DEF Types
<1>5. Kept
  BY <1>1, <1>4 DEF Kept, HistoriesGrow
<1>6. RequestNews /\ ChainSound'
  BY <1>1, <1>2, EndedRequest, SameChain
<1> QED BY <1>3, <1>5, <1>6, StepKeeps

LEMMA ReceiveApprovalKeeps ==
  ASSUME MemberInv, NEW d \in Device, ReceiveApproval(d)
  PROVE  MemberInv'
<1> DEFINE p == work[d].id
<1>1. /\ work[d].op = "approve"
      /\ UNCHANGED <<service, wire, activated, control, joining, intent, sends>>
      /\ UNCHANGED <<chain, invite, pushed>>
  BY DEF ReceiveApproval, service
<1>2. p \in Pairing /\ approval[p].state # "none" /\ invite[p].issuer = d
  BY <1>1 DEF MemberInv, RequestsAreStored, AboutStored
<1>3. Types /\ PairingInOrder
  BY DEF MemberInv
<1>4. \A r \in Revocation : IntentKept(r)
  BY <1>1, SameIntents
<1>5. IntentNews
  BY <1>1, SameIntents
<1>6. /\ activated' \in [Device -> Nat] /\ control' \in [Device -> SUBSET Revocation]
      /\ joining' \in [Pairing -> Joinings] /\ intent' \in [Revocation -> Intents]
      /\ \A e \in Device : activated[e] > 0 => activated'[e] > 0
  BY <1>1, <1>3 DEF Types
<1>7. ASSUME UNCHANGED approval, HistoriesGrow, Die(d) \/ Finish(d)
      PROVE  MemberInv'
  <2>1. approval' \in [Pairing -> Approvals]
    BY <1>3, <1>7 DEF Types
  <2>2. PairingInOrder' /\ PairingNews /\ \A q \in Pairing : PairingKept(q)
    BY <1>1, <1>7, SamePairings
  <2> QED BY <1>1, <1>4, <1>5, <1>6, <1>7, <2>1, <2>2, RecordStep
<1>8. CASE Finish(d) /\ UNCHANGED <<hist, approval>>
  BY <1>7, <1>8, NoneGrows
<1>9. ASSUME work[d].answer = "receipt",
             hist' = IF Has(hist[d], p) THEN hist ELSE [hist EXCEPT ![d] = Decided(p)]
      PROVE  HistoriesGrow /\ Has(hist'[d], p)
  <2>1. invite[p].state = "approved"
    BY <1>2, <1>9 DEF MemberInv, ReceiptsAreTrue, DecidedOnce
  <2>2. /\ Decided(p) \in Histories /\ Has(Decided(p), p) /\ Begins(Decided(p), chain)
        /\ ~Has(hist[d], p) => Begins(hist[d], Decided(p))
    BY <1>2, <2>1, DecisionContinues
  <2>3. CASE Has(hist[d], p)
    BY <1>9, <2>3, NoneGrows
  <2>4. CASE ~Has(hist[d], p)
    BY <1>9, <2>2, <2>4, OneGrows
  <2> QED BY <2>3, <2>4
<1>10. CASE /\ work[d].answer = "receipt"
            /\ hist' = IF Has(hist[d], p) THEN hist ELSE [hist EXCEPT ![d] = Decided(p)]
            /\ Die(d) /\ UNCHANGED approval
  BY <1>7, <1>9, <1>10
<1>11. CASE /\ work[d].answer = "receipt"
            /\ hist' = IF Has(hist[d], p) THEN hist ELSE [hist EXCEPT ![d] = Decided(p)]
            /\ approval' = [approval EXCEPT ![p].state = "accepted"]
            /\ Finish(d)
  <2>1. approval \in [Pairing -> Approvals] /\ approval[p] \in Approvals
    BY <1>2, <1>3 DEF Types
  <2>2. /\ approval' \in [Pairing -> Approvals] /\ approval'[p].state = "accepted"
        /\ approval'[p].parent = approval[p].parent
        /\ \A q \in Pairing \ {p} : approval'[q] = approval[q]
    BY <1>2, <1>11, <2>1 DEF Approvals
  <2>3. PairingInOrder' /\ \A q \in Pairing : PairingKept(q)
    BY <1>1, <1>2, <1>3, <2>2 DEF PairingInOrder, PairingKept
  <2>4. HistoriesGrow /\ Has(hist'[d], p)
    BY <1>9, <1>11
  <2>5. PairingNews
    BY <1>1, <1>2, <2>2, <2>4 DEF PairingNews
  <2> QED BY <1>1, <1>4, <1>5, <1>6, <1>11, <2>2, <2>3, <2>4, <2>5, RecordStep
<1> QED BY <1>8, <1>10, <1>11 DEF ReceiveApproval, Decided

----------------------------------------------------------------------------
(* The joining device. *)

(* What becomes of the join of p alone.                                    *)
LEMMA JoiningStep ==
  ASSUME MemberInv, NEW p \in Pairing, invite[p].state = "approved",
         UNCHANGED <<invite, approval>>,
         NEW j \in Joinings, j.state \in {"awaiting", "confirmed", "completed"},
         joining' = [joining EXCEPT ![p] = j]
  PROVE  /\ joining' \in [Pairing -> Joinings] /\ joining'[p] = j
         /\ \A q \in Pairing \ {p} : joining'[q] = joining[q]
         /\ PairingInOrder' /\ \A q \in Pairing : PairingKept(q)
<1>1. PairingInOrder /\ joining \in [Pairing -> Joinings]
  BY DEF MemberInv, Types
<1>2. /\ joining' \in [Pairing -> Joinings] /\ joining'[p] = j
      /\ \A q \in Pairing \ {p} : joining'[q] = joining[q]
  BY <1>1
<1>3. PairingInOrder'
  BY <1>1, <1>2 DEF PairingInOrder
<1>4. \A q \in Pairing : PairingKept(q)
  BY DEF PairingKept
<1> QED BY <1>2, <1>3, <1>4

LEMMA JoinStatusKeeps ==
  ASSUME MemberInv, NEW d \in Device, NEW p \in Pairing, JoinStatus(d, p)
  PROVE  MemberInv'
<1>1. /\ invite[p].state = "approved"
      /\ UNCHANGED <<chain, invite, pushed, wire, hist, activated, control, approval, intent,
                     daemon, work, sends, crashes>>
  BY DEF JoinStatus, service
<1>2. PICK cached \in BOOLEAN :
        joining' = [joining EXCEPT ![p] = [state |-> "awaiting", cached |-> cached]]
  BY DEF JoinStatus
<1> DEFINE j == [state |-> "awaiting", cached |-> cached]
<1>3. j \in Joinings /\ j.state = "awaiting"
  BY DEF Joinings
<1>4. joining' = [joining EXCEPT ![p] = j]
  BY <1>2
<1> HIDE DEF j
<1>5. /\ joining' \in [Pairing -> Joinings] /\ joining'[p] = j
      /\ \A q \in Pairing \ {p} : joining'[q] = joining[q]
      /\ PairingInOrder' /\ \A q \in Pairing : PairingKept(q)
  BY <1>1, <1>3, <1>4, JoiningStep
<1>6. Types'
  BY <1>1, <1>5 DEF MemberInv, Types
<1>7. PairingNews
  BY <1>1, <1>3, <1>5 DEF PairingNews
<1>8. Kept /\ IntentNews /\ RequestNews /\ ChainSound'
  BY <1>1, <1>5, SameIntents, SameRequests, SameChain, Undisturbed
<1> QED BY <1>5, <1>6, <1>7, <1>8, StepKeeps

LEMMA ConfirmJoinKeeps ==
  ASSUME MemberInv, NEW d \in Device, NEW p \in Pairing, ConfirmJoin(d, p)
  PROVE  MemberInv'
<1>1. /\ joining[p].state = "awaiting" /\ (Die(d) \/ Finish(d))
      /\ UNCHANGED <<service, wire, hist, activated, control, approval, intent, sends>>
      /\ UNCHANGED <<chain, invite, pushed>>
  BY DEF ConfirmJoin, service
<1>2. invite[p].state = "approved" /\ joining[p] \in Joinings
  BY <1>1 DEF MemberInv, PairingInOrder, Types
<1> DEFINE j == [joining[p] EXCEPT !.state = "confirmed"]
<1>3. j \in Joinings /\ j.state = "confirmed"
  BY <1>2 DEF Joinings
<1>4. joining' = [joining EXCEPT ![p] = j]
  BY DEF ConfirmJoin
<1> HIDE DEF j
<1>5. /\ joining' \in [Pairing -> Joinings] /\ joining'[p] = j
      /\ \A q \in Pairing \ {p} : joining'[q] = joining[q]
      /\ PairingInOrder' /\ \A q \in Pairing : PairingKept(q)
  BY <1>1, <1>2, <1>3, <1>4, JoiningStep
<1>6. PairingNews
  BY <1>1, <1>3, <1>5 DEF PairingNews
<1>7. /\ activated' \in [Device -> Nat] /\ control' \in [Device -> SUBSET Revocation]
      /\ approval' \in [Pairing -> Approvals] /\ intent' \in [Revocation -> Intents]
      /\ \A e \in Device : activated[e] > 0 => activated'[e] > 0
  BY <1>1 DEF MemberInv, Types
<1>8. HistoriesGrow /\ IntentNews /\ \A r \in Revocation : IntentKept(r)
  BY <1>1, NoneGrows, SameIntents
<1> QED BY <1>1, <1>5, <1>6, <1>7, <1>8, RecordStep

LEMMA ResumeJoinKeeps ==
  ASSUME MemberInv, NEW d \in Device, NEW p \in Pairing, ResumeJoin(d, p)
  PROVE  MemberInv'
<1>1. /\ invite[p].joiner = d /\ joining[p].state \in {"awaiting", "confirmed"}
      /\ UNCHANGED <<service, wire, control, approval, intent, sends>>
      /\ UNCHANGED <<chain, invite, pushed>>
  BY DEF ResumeJoin, service
<1>2. PICK done \in 1 .. 3 :
        /\ hist' = [hist EXCEPT ![d] = IF Has(@, p) THEN @ ELSE Decided(p)]
        /\ activated' = IF done < 2 THEN activated
                        ELSE [activated EXCEPT ![d] = Epoch(hist'[d])]
        /\ joining' = [joining EXCEPT ![p] =
               [state |-> IF done = 3 THEN "completed" ELSE "confirmed", cached |-> TRUE]]
        /\ IF done = 3 THEN Finish(d) ELSE Die(d)
  BY DEF ResumeJoin, Decided
<1>3. invite[p].state = "approved"
  BY <1>1 DEF MemberInv, PairingInOrder
<1>4. Types
  BY DEF MemberInv
<1>5. /\ Decided(p) \in Histories /\ Has(Decided(p), p) /\ Begins(Decided(p), chain)
      /\ ~Has(hist[d], p) => Begins(hist[d], Decided(p))
  BY <1>3, DecisionContinues
<1>6. HistoriesGrow /\ Has(hist'[d], p)
  <2> DEFINE h == IF Has(hist[d], p) THEN hist[d] ELSE Decided(p)
  <2>1. hist' = [hist EXCEPT ![d] = h]
    BY <1>2
  <2>2. hist[d] \in Histories /\ Begins(hist[d], chain)
    BY <1>4, InTerms DEF MemberInv, Types
  <2>3. /\ h \in Histories /\ Has(h, p) /\ Begins(hist[d], h) /\ Begins(h, chain)
    BY <1>5, <2>2, BeginsItself
  <2> HIDE DEF h
  <2> QED BY <2>1, <2>3, OneGrows
<1> DEFINE n == Epoch(hist'[d])
<1>7. n \in Nat /\ n > 0
  BY <1>6, EpochType DEF HistoriesGrow
<1> HIDE DEF n
<1>8. /\ activated' \in [Device -> Nat]
      /\ \A e \in Device : activated[e] > 0 => activated'[e] > 0
      /\ done = 3 => activated'[d] > 0
  <2>1. activated \in [Device -> Nat]
    BY <1>4 DEF Types
  <2>2. activated' = IF done < 2 THEN activated ELSE [activated EXCEPT ![d] = n]
    BY <1>2 DEF n
  <2> QED BY <1>7, <2>1, <2>2
<1> DEFINE j == [state |-> IF done = 3 THEN "completed" ELSE "confirmed", cached |-> TRUE]
<1>9. /\ j \in Joinings /\ j.state \in {"confirmed", "completed"}
      /\ j.state = "completed" => done = 3
  BY DEF Joinings
<1>10. joining' = [joining EXCEPT ![p] = j] /\ (Die(d) \/ Finish(d))
  BY <1>2
<1> HIDE DEF j
<1>11. /\ joining' \in [Pairing -> Joinings] /\ joining'[p] = j
       /\ \A q \in Pairing \ {p} : joining'[q] = joining[q]
       /\ PairingInOrder' /\ \A q \in Pairing : PairingKept(q)
  BY <1>1, <1>3, <1>9, <1>10, JoiningStep
<1>12. PairingNews
  BY <1>1, <1>6, <1>8, <1>9, <1>11 DEF PairingNews
<1>13. /\ control' \in [Device -> SUBSET Revocation]
       /\ approval' \in [Pairing -> Approvals] /\ intent' \in [Revocation -> Intents]
  BY <1>1, <1>4 DEF Types
<1>14. IntentNews /\ \A r \in Revocation : IntentKept(r)
  BY <1>1, SameIntents
<1> QED BY <1>1, <1>6, <1>8, <1>10, <1>11, <1>12, <1>13, <1>14, RecordStep

----------------------------------------------------------------------------
(* Revocation, as its issuer records it. *)

LEMMA IntentsMoved ==
  ASSUME UNCHANGED chain,
         \A r \in Revocation :
           /\ intent'[r].issuer = intent[r].issuer /\ intent'[r].target = intent[r].target
           /\ intent'[r].parent = intent[r].parent /\ intent'[r].cutoff = intent[r].cutoff
           /\ intent'[r].state # "none" => intent[r].state # "none"
           /\ intent'[r].state \in Unsent => intent[r].state \in Unsent
           /\ intent'[r].state = "accepted" => intent[r].state = "accepted" \/ Has(chain, r)
  PROVE  IntentNews /\ \A r \in Revocation : IntentKept(r)
<1>1. IntentNews
  BY DEF IntentNews
<1>2. \A r \in Revocation : IntentKept(r)
  BY DEF IntentKept
<1> QED BY <1>1, <1>2

(* One intent that has been sent moves to another such state.              *)
LEMMA IntentMoved ==
  ASSUME MemberInv, NEW r \in Revocation, intent[r].state # "none",
         NEW s \in IntentState \ Unsent, s = "accepted" => Has(chain, r),
         intent' = [intent EXCEPT ![r].state = s], UNCHANGED chain
  PROVE  /\ intent' \in [Revocation -> Intents] /\ intent'[r].state = s
         /\ intent'[r].issuer = intent[r].issuer
         /\ IntentNews /\ \A q \in Revocation : IntentKept(q)
<1>1. intent \in [Revocation -> Intents] /\ intent[r] \in Intents
  BY DEF MemberInv, Types
<1> DEFINE i == [intent[r] EXCEPT !.state = s]
<1>2. /\ i \in Intents /\ i.state = s
      /\ i.issuer = intent[r].issuer /\ i.target = intent[r].target
      /\ i.parent = intent[r].parent /\ i.cutoff = intent[r].cutoff
  BY <1>1 DEF Intents
<1>3. intent' = [intent EXCEPT ![r] = i]
  OBVIOUS
<1> HIDE DEF i
<1>4. intent' \in [Revocation -> Intents] /\ intent'[r] = i
  BY <1>1, <1>2, <1>3
<1>5. \A q \in Revocation \ {r} : intent'[q] = intent[q]
  BY <1>1, <1>3
<1>6. \A q \in Revocation :
        /\ intent'[q].issuer = intent[q].issuer /\ intent'[q].target = intent[q].target
        /\ intent'[q].parent = intent[q].parent /\ intent'[q].cutoff = intent[q].cutoff
        /\ intent'[q].state # "none" => intent[q].state # "none"
        /\ intent'[q].state \in Unsent => intent[q].state \in Unsent
        /\ intent'[q].state = "accepted" => intent[q].state = "accepted" \/ Has(chain, q)
  BY <1>2, <1>4, <1>5
<1>7. IntentNews /\ \A q \in Revocation : IntentKept(q)
  BY <1>6, IntentsMoved
<1> QED BY <1>2, <1>4, <1>7

(* What the pairings keep in a step about revocations.                     *)
LEMMA PairingsAside ==
  ASSUME MemberInv, UNCHANGED <<service, approval, joining>>
  PROVE  /\ UNCHANGED <<chain, invite, pushed>>
         /\ approval' \in [Pairing -> Approvals] /\ joining' \in [Pairing -> Joinings]
         /\ PairingInOrder' /\ PairingNews /\ \A p \in Pairing : PairingKept(p)
<1>1. UNCHANGED <<chain, invite, pushed>>
  BY DEF service
<1>2. approval' \in [Pairing -> Approvals] /\ joining' \in [Pairing -> Joinings]
  BY DEF MemberInv, Types
<1>3. PairingInOrder' /\ PairingNews /\ \A p \in Pairing : PairingKept(p)
  BY <1>1, SamePairings
<1> QED BY <1>1, <1>2, <1>3

LEMMA ReconcileKeeps ==
  ASSUME MemberInv, NEW d \in Device, Reconcile(d)
  PROVE  MemberInv'
<1>1. /\ hist' = [hist EXCEPT ![d] = chain] /\ (Die(d) \/ Finish(d))
      /\ UNCHANGED <<service, wire, control, approval, joining, intent, sends>>
      /\ activated' = activated \/ activated' = [activated EXCEPT ![d] = Epoch(chain)]
  BY DEF Reconcile
<1>2. Types /\ chain \in Histories /\ Begins(hist[d], chain)
  BY InTerms DEF MemberInv, Types
<1>3. HistoriesGrow
  BY <1>1, <1>2, BeginsItself, OneGrows
<1>4. PICK n \in Nat : n = Epoch(chain) /\ n > 0
  BY <1>2, EpochType
<1>5. /\ activated' \in [Device -> Nat] /\ control' \in [Device -> SUBSET Revocation]
      /\ intent' \in [Revocation -> Intents]
      /\ \A e \in Device : activated[e] > 0 => activated'[e] > 0
  BY <1>1, <1>2, <1>4 DEF Types
<1>6. UNCHANGED chain
  BY <1>1 DEF service
<1>7. IntentNews /\ \A r \in Revocation : IntentKept(r)
  BY <1>1, <1>6, SameIntents
<1> QED BY <1>1, <1>3, <1>5, <1>7, PairingsAside, RecordStep

(* What a receipt, applied as far as it gets, leaves of the vault.         *)
LEMMA AppliedGrows ==
  ASSUME MemberInv, NEW d \in Device, NEW r \in Revocation, NEW n \in 1 .. 4,
         Has(chain, r), Applied(d, r, n)
  PROVE  /\ HistoriesGrow /\ activated' \in [Device -> Nat]
         /\ control' \in [Device -> SUBSET Revocation]
         /\ \A e \in Device : activated[e] > 0 => activated'[e] > 0
<1>1. Types /\ IntentInOrder /\ hist[d] \in Histories /\ chain \in Histories
  BY DEF MemberInv, Types
<1>2. intent[r].state # "none"
  BY <1>1 DEF IntentInOrder, Unsent
<1>3. /\ intent[r].parent \in Histories /\ Ending(r) \in Events
      /\ Successor(r) = Append(intent[r].parent, Ending(r)) /\ Successor(r) \in Histories
  BY <1>1, <1>2, RevocationHolds
<1>4. Begins(Successor(r), chain)
  BY <1>1, <1>3, PrefixBegins DEF MemberInv, Published
<1>5. hist[d] = intent[r].parent => Begins(hist[d], Successor(r))
  BY <1>3, BeginsAppend
<1>6. HistoriesGrow
  <2>1. CASE UNCHANGED hist
    BY <2>1, NoneGrows
  <2>2. CASE hist[d] = intent[r].parent /\ hist' = [hist EXCEPT ![d] = Successor(r)]
    BY <1>3, <1>4, <1>5, <2>2, OneGrows
  <2> QED BY <2>1, <2>2 DEF Applied, Extends
<1>7. AfterApply(d, r) \in Histories
  BY <1>1, <1>3 DEF AfterApply
<1>8. PICK k \in Nat : k = Epoch(AfterApply(d, r)) /\ k > 0
  BY <1>7, EpochType
<1>9. activated' = activated \/ activated' = [activated EXCEPT ![d] = k]
  BY <1>8 DEF Applied
<1>10. /\ activated' \in [Device -> Nat]
       /\ \A e \in Device : activated[e] > 0 => activated'[e] > 0
  BY <1>1, <1>8, <1>9 DEF Types
<1>11. control' \in [Device -> SUBSET Revocation]
  BY <1>1 DEF Types, Applied
<1> QED BY <1>6, <1>10, <1>11

LEMMA ApplyKeeps ==
  ASSUME MemberInv, NEW d \in Device, NEW r \in Revocation, Has(chain, r), Apply(d, r),
         UNCHANGED <<service, wire, approval, joining, sends>>
  PROVE  MemberInv'
<1>1. PICK n \in 1 .. 4 : Applied(d, r, n) /\ (Die(d) \/ Finish(d))
  BY DEF Apply
<1>2. /\ HistoriesGrow /\ activated' \in [Device -> Nat]
      /\ control' \in [Device -> SUBSET Revocation]
      /\ \A e \in Device : activated[e] > 0 => activated'[e] > 0
  BY <1>1, AppliedGrows
<1>3. intent[r].state # "none"
  BY DEF MemberInv, IntentInOrder, Unsent
<1>4. PICK s \in IntentState \ Unsent : s = "accepted"
  BY DEF IntentState, Unsent
<1>5. intent' = [intent EXCEPT ![r].state = s] /\ UNCHANGED chain
  BY <1>4 DEF Apply, service
<1>6. /\ intent' \in [Revocation -> Intents]
      /\ IntentNews /\ \A q \in Revocation : IntentKept(q)
  BY <1>3, <1>5, IntentMoved
<1> QED BY <1>1, <1>2, <1>6, PairingsAside, RecordStep

(* A call that ends without a receipt.                                     *)
LEMMA EndedKeeps ==
  ASSUME MemberInv, NEW d \in Device, NEW r \in Revocation, intent[r].state # "none",
         NEW s \in IntentState \ Unsent, s # "accepted",
         intent' = [intent EXCEPT ![r].state = s], Finish(d),
         UNCHANGED <<service, wire, hist, activated, control, approval, joining, sends>>
  PROVE  MemberInv'
<1>1. UNCHANGED chain
  BY DEF service
<1>2. /\ intent' \in [Revocation -> Intents]
      /\ IntentNews /\ \A q \in Revocation : IntentKept(q)
  BY <1>1, IntentMoved
<1>3. /\ activated' \in [Device -> Nat] /\ control' \in [Device -> SUBSET Revocation]
      /\ \A e \in Device : activated[e] > 0 => activated'[e] > 0
  BY DEF MemberInv, Types
<1>4. HistoriesGrow
  BY NoneGrows
<1> QED BY <1>2, <1>3, <1>4, PairingsAside, RecordStep

LEMMA ReceiveRevocationKeeps ==
  ASSUME MemberInv, NEW d \in Device, ReceiveRevocation(d)
  PROVE  MemberInv'
<1> DEFINE r == work[d].id
<1>1. work[d].op = "revoke" /\ UNCHANGED <<service, wire, approval, joining, sends>>
  BY DEF ReceiveRevocation
<1>2. r \in Revocation /\ intent[r].state \notin Unsent
  BY <1>1 DEF MemberInv, RequestsAreStored, AboutStored
<1>3. intent[r].state # "none"
  BY <1>2 DEF Unsent
<1>4. CASE work[d].answer = "receipt" /\ Apply(d, r)
  <2>1. Has(chain, r)
    BY <1>4 DEF MemberInv, ReceiptsAreTrue
  <2> QED BY <1>1, <1>2, <1>4, <2>1, ApplyKeeps
<1>5. ASSUME NEW s \in IntentState \ Unsent, s # "accepted",
             intent' = [intent EXCEPT ![r].state = s], Finish(d),
             UNCHANGED <<hist, activated, control>>
      PROVE  MemberInv'
  BY <1>1, <1>2, <1>3, <1>5, EndedKeeps
<1>6. \A s \in {"conflict", "unconfirmed"} : s \in IntentState \ Unsent /\ s # "accepted"
  BY DEF IntentState, Unsent
<1> QED BY <1>4, <1>5, <1>6 DEF ReceiveRevocation

LEMMA TimeoutKeeps ==
  ASSUME MemberInv, NEW d \in Device, Timeout(d)
  PROVE  MemberInv'
<1>1. /\ Finish(d)
      /\ UNCHANGED <<service, wire, hist, activated, control, approval, joining, sends>>
  BY DEF Timeout
<1>2. CASE work[d].op = "revoke" /\ intent' = [intent EXCEPT ![work[d].id].state = "unconfirmed"]
  <2>1. work[d].id \in Revocation /\ intent[work[d].id].state \notin Unsent
    BY <1>2 DEF MemberInv, RequestsAreStored, AboutStored
  <2>2. intent[work[d].id].state # "none"
    BY <2>1 DEF Unsent
  <2>3. PICK s \in IntentState \ Unsent : s = "unconfirmed"
    BY DEF IntentState, Unsent
  <2> QED BY <1>1, <1>2, <2>1, <2>2, <2>3, EndedKeeps
<1>3. CASE UNCHANGED intent
  <2>1. UNCHANGED vault /\ UNCHANGED wire
    BY <1>1, <1>3 DEF vault
  <2>2. Types
    BY DEF MemberInv
  <2>3. /\ work' = [work EXCEPT ![d] = Idle] /\ work' \in [Device -> Works]
        /\ daemon' \in [Device -> {"up", "down", "failed"}] /\ crashes' \in Nat
    BY <1>1, <2>2, EndTypes
  <2>4. RequestNews
    BY <2>1, <2>2, <2>3, EndedRequest
  <2>5. wire' \subseteq Messages /\ sends' \in [Ids -> Nat]
    BY <1>1, <2>2 DEF Types
  <2> QED BY <1>1, <2>1, <2>3, <2>4, <2>5, RequestStep
<1> QED BY <1>2, <1>3 DEF Timeout

LEMMA CrashKeeps ==
  ASSUME MemberInv, NEW d \in Device, Crash(d)
  PROVE  MemberInv'
<1>1. Types /\ Die(d) /\ UNCHANGED <<service, wire, vault, sends>>
  BY DEF Crash, MemberInv
<1>2. /\ work' = [work EXCEPT ![d] = Idle] /\ work' \in [Device -> Works]
      /\ daemon' \in [Device -> {"up", "down", "failed"}] /\ crashes' \in Nat
  BY <1>1, EndTypes
<1>3. RequestNews
  BY <1>1, <1>2, EndedRequest
<1>4. wire' \subseteq Messages /\ sends' \in [Ids -> Nat]
  BY <1>1 DEF Types
<1> QED BY <1>1, <1>2, <1>3, <1>4, RequestStep

(* A step that concerns intents and their calls alone.                     *)
LEMMA IntentStep ==
  ASSUME MemberInv,
         UNCHANGED <<service, hist, activated, control, approval, joining, daemon, crashes>>,
         intent' \in [Revocation -> Intents], IntentNews,
         \A r \in Revocation : IntentKept(r),
         wire' \subseteq Messages, work' \in [Device -> Works], sends' \in [Ids -> Nat],
         RequestNews
  PROVE  MemberInv'
<1>1. /\ UNCHANGED <<chain, invite, pushed>>
      /\ PairingInOrder' /\ PairingNews /\ \A p \in Pairing : PairingKept(p)
  BY PairingsAside
<1>2. Types'
  BY <1>1 DEF MemberInv, Types
<1>3. Kept /\ ChainSound'
  BY <1>1, SameChain, Undisturbed
<1> QED BY <1>1, <1>2, <1>3, StepKeeps

LEMMA PrepareRevocationKeeps ==
  ASSUME MemberInv, NEW d \in Device, NEW t \in Device, NEW r \in Revocation,
         PrepareRevocation(d, r, t)
  PROVE  MemberInv'
<1>1. /\ intent[r].state = "none" /\ chain = hist[d]
      /\ d \in Active(hist[d]) /\ CertEpoch(d, hist[d]) = Epoch(hist[d])
      /\ UNCHANGED <<service, hist, activated, control, approval, joining, daemon, crashes>>
  BY DEF PrepareRevocation, HasAuthority, HeadIs
<1>2. PICK submit \in BOOLEAN :
        /\ intent' = [intent EXCEPT ![r] =
              [state |-> IF submit THEN "submitting" ELSE "prepared",
               issuer |-> d, target |-> t, parent |-> chain,
               cutoff |-> pushed[t], canceled |-> FALSE]]
        /\ IF submit THEN Send(d, "revoke", r) ELSE UNCHANGED <<wire, work, sends>>
  BY DEF PrepareRevocation
<1> DEFINE i == [state |-> IF submit THEN "submitting" ELSE "prepared",
                 issuer |-> d, target |-> t, parent |-> chain,
                 cutoff |-> pushed[t], canceled |-> FALSE]
<1>3. Types /\ chain \in Histories /\ pushed[t] \in Nat
  BY DEF MemberInv, Types
<1>4. /\ i \in Intents /\ i.issuer = d /\ i.target = t /\ i.parent = chain
      /\ i.state = IF submit THEN "submitting" ELSE "prepared"
  BY <1>3 DEF Intents, IntentState, Someone
<1>5. intent' = [intent EXCEPT ![r] = i]
  BY <1>2
<1> HIDE DEF i
<1>6. /\ intent' \in [Revocation -> Intents] /\ intent'[r] = i
      /\ \A q \in Revocation \ {r} : intent'[q] = intent[q]
  BY <1>3, <1>4, <1>5 DEF Types
<1>7. chain' = chain
  BY <1>1 DEF service
<1>8. intent[r].state \in Unsent
  BY <1>1 DEF Unsent
<1>9. \A q \in Revocation : IntentKept(q)
  BY <1>1, <1>6, <1>8 DEF IntentKept
<1>10. IntentNews
  <2>1. i.state # "accepted"
    BY <1>4
  <2>2. i.issuer \in Active(i.parent) /\ CertEpoch(i.issuer, i.parent) = Epoch(i.parent)
    BY <1>1, <1>4
  <2> QED BY <1>4, <1>6, <1>7, <1>8, <2>1, <2>2 DEF IntentNews
<1>11. /\ RequestNews
       /\ wire' \subseteq Messages /\ work' \in [Device -> Works] /\ sends' \in [Ids -> Nat]
  <2>1. CASE ~submit
    <3>1. UNCHANGED <<wire, work, sends>>
      BY <1>2, <2>1
    <3> QED BY <1>3, <3>1, SameRequests DEF Types
  <2>2. CASE submit
    <3>1. PICK op \in {"approve", "revoke"} : op = "revoke"
      OBVIOUS
    <3>2. op # "approve" /\ Send(d, op, r) /\ r \in Ids
      BY <1>2, <2>2, <3>1 DEF Ids
    <3>3. intent'[r].state \notin Unsent /\ intent'[r].issuer = d
      BY <1>4, <1>6, <2>2 DEF Unsent
    <3>4. Asks(op, r)
      BY <3>1, <3>3 DEF Asks
    <3>5. RequestNews
      BY <1>3, <3>2, <3>3, <3>4, SendNews
    <3> QED BY <1>3, <3>2, <3>5, SendTypes
  <2> QED BY <2>1, <2>2
<1> QED BY <1>1, <1>6, <1>9, <1>10, <1>11, IntentStep

LEMMA PublishKeeps ==
  ASSUME MemberInv, NEW d \in Device, NEW r \in Revocation, Publish(d, r)
  PROVE  MemberInv'
<1>1. /\ intent[r].issuer = d /\ intent[r].state # "none" /\ Send(d, "revoke", r)
      /\ UNCHANGED <<service, hist, activated, control, approval, joining, daemon, crashes>>
  BY DEF Publish
<1>2. PICK s \in IntentState \ Unsent : s = "submitting"
  BY DEF IntentState, Unsent
<1>3. intent' = [intent EXCEPT ![r].state = s] /\ s # "accepted" /\ UNCHANGED chain
  BY <1>2 DEF Publish, service
<1>4. /\ intent' \in [Revocation -> Intents] /\ intent'[r].state = s
      /\ intent'[r].issuer = intent[r].issuer
      /\ IntentNews /\ \A q \in Revocation : IntentKept(q)
  BY <1>1, <1>3, IntentMoved
<1>5. PICK op \in {"approve", "revoke"} : op = "revoke"
  OBVIOUS
<1>6. op # "approve" /\ Send(d, op, r) /\ r \in Ids /\ Types
  BY <1>1, <1>5 DEF Ids, MemberInv
<1>7. Asks(op, r) /\ intent'[r].issuer = d
  BY <1>1, <1>2, <1>4, <1>5 DEF Asks
<1>8. RequestNews
  BY <1>6, <1>7, SendNews
<1>9. wire' \subseteq Messages /\ work' \in [Device -> Works] /\ sends' \in [Ids -> Nat]
  BY <1>6, SendTypes
<1> QED BY <1>1, <1>4, <1>8, <1>9, IntentStep

LEMMA CancelRevocationKeeps ==
  ASSUME MemberInv, NEW d \in Device, NEW r \in Revocation, CancelRevocation(d, r)
  PROVE  MemberInv'
<1>1. /\ intent[r].state \in {"prepared", "unconfirmed"}
      /\ UNCHANGED <<service, wire, hist, activated, control, approval, joining,
                     daemon, work, sends, crashes>>
  BY DEF CancelRevocation
<1> DEFINE s == IF intent[r].state = "prepared" THEN "canceled_before_send" ELSE intent[r].state
           i == [intent[r] EXCEPT !.canceled = TRUE, !.state = s]
<1>2. intent \in [Revocation -> Intents] /\ intent[r] \in Intents /\ Types
  BY DEF MemberInv, Types
<1>3. intent' = [intent EXCEPT ![r] = i]
  BY DEF CancelRevocation
<1>4. /\ i \in Intents /\ i.state = s
      /\ i.issuer = intent[r].issuer /\ i.target = intent[r].target
      /\ i.parent = intent[r].parent /\ i.cutoff = intent[r].cutoff
  BY <1>2 DEF Intents, IntentState
<1>5. s # "accepted" /\ (s \in Unsent => intent[r].state \in Unsent) /\ intent[r].state # "none"
  BY <1>1 DEF Unsent
<1> HIDE DEF s, i
<1>6. intent' \in [Revocation -> Intents] /\ intent'[r] = i
  BY <1>2, <1>3, <1>4
<1>7. \A q \in Revocation \ {r} : intent'[q] = intent[q]
  BY <1>2, <1>3
<1>8. \A q \in Revocation :
        /\ intent'[q].issuer = intent[q].issuer /\ intent'[q].target = intent[q].target
        /\ intent'[q].parent = intent[q].parent /\ intent'[q].cutoff = intent[q].cutoff
        /\ intent'[q].state # "none" => intent[q].state # "none"
        /\ intent'[q].state \in Unsent => intent[q].state \in Unsent
        /\ intent'[q].state = "accepted" => intent[q].state = "accepted" \/ Has(chain, q)
  BY <1>4, <1>5, <1>6, <1>7
<1>9. UNCHANGED chain
  BY <1>1 DEF service
<1>10. IntentNews /\ \A q \in Revocation : IntentKept(q)
  BY <1>8, <1>9, IntentsMoved
<1>11. /\ RequestNews
       /\ wire' \subseteq Messages /\ work' \in [Device -> Works] /\ sends' \in [Ids -> Nat]
  BY <1>1, <1>2, SameRequests DEF Types
<1> QED BY <1>1, <1>6, <1>10, <1>11, IntentStep

----------------------------------------------------------------------------
(* Daemons and sync traffic. *)

LEMMA StartKeeps ==
  ASSUME MemberInv, NEW d \in Device, Start(d)
  PROVE  MemberInv'
<1>1. /\ intent' = Recovered(d)
      /\ UNCHANGED <<service, wire, approval, joining, work, sends, crashes>>
  BY DEF Start
<1>2. Types /\ intent \in [Revocation -> Intents]
  BY DEF MemberInv, Types
<1>3. ASSUME NEW r \in Revocation
      PROVE  /\ intent'[r] \in Intents
             /\ intent'[r].issuer = intent[r].issuer /\ intent'[r].target = intent[r].target
             /\ intent'[r].parent = intent[r].parent /\ intent'[r].cutoff = intent[r].cutoff
             /\ intent'[r].state # "none" => intent[r].state # "none"
             /\ intent'[r].state \in Unsent => intent[r].state \in Unsent
             /\ intent'[r].state = "accepted" => intent[r].state = "accepted" \/ Has(chain, r)
  <2>1. intent[r] \in Intents
    BY <1>2
  <2>2. CASE intent'[r] = intent[r]
    BY <2>1, <2>2
  <2>3. CASE intent[r].state = "submitting" /\ intent'[r] = [intent[r] EXCEPT !.state = "unconfirmed"]
    BY <2>1, <2>3 DEF Intents, IntentState, Unsent
  <2> QED BY <1>1, <2>2, <2>3 DEF Recovered
<1>4. intent' \in [Revocation -> Intents]
  <2>1. intent' = [r \in Revocation |-> intent'[r]]
    BY <1>1 DEF Recovered
  <2> QED BY <1>3, <2>1
<1>5. UNCHANGED chain
  BY <1>1 DEF service
<1>6. IntentNews /\ \A r \in Revocation : IntentKept(r)
  BY <1>3, <1>5, IntentsMoved
<1>7. /\ HistoriesGrow /\ activated' \in [Device -> Nat]
      /\ control' \in [Device -> SUBSET Revocation]
      /\ \A e \in Device : activated[e] > 0 => activated'[e] > 0
      /\ daemon' \in [Device -> {"up", "down", "failed"}]
  <2>1. CASE /\ daemon' = [daemon EXCEPT ![d] = "up"]
             /\ UNCHANGED <<hist, activated, control>>
    BY <1>2, <2>1, NoneGrows DEF Types
  <2>2. ASSUME NEW r \in Revocation, intent[r].state = "accepted", Applied(d, r, 4),
               daemon' = [daemon EXCEPT ![d] = IF ApplySucceeds(d, r) THEN "up" ELSE "failed"]
        PROVE  /\ HistoriesGrow /\ activated' \in [Device -> Nat]
               /\ control' \in [Device -> SUBSET Revocation]
               /\ \A e \in Device : activated[e] > 0 => activated'[e] > 0
               /\ daemon' \in [Device -> {"up", "down", "failed"}]
    <3>1. Has(chain, r)
      BY <2>2 DEF MemberInv, IntentInOrder
    <3>2. PICK n \in 1 .. 4 : Applied(d, r, n)
      BY <2>2
    <3>3. daemon' \in [Device -> {"up", "down", "failed"}]
      BY <1>2, <2>2 DEF Types
    <3> QED BY <3>1, <3>2, <3>3, AppliedGrows
  <2> QED BY <2>1, <2>2 DEF Start
<1>8. /\ UNCHANGED <<chain, invite, pushed>>
      /\ PairingInOrder' /\ PairingNews /\ \A p \in Pairing : PairingKept(p)
  BY <1>1, PairingsAside
<1>9. Types'
  BY <1>1, <1>2, <1>4, <1>7, <1>8 DEF Types, HistoriesGrow
<1>10. Begins(chain, chain')
  BY <1>2, <1>5, BeginsItself DEF Types
<1>11. Kept
  BY <1>5, <1>6, <1>7, <1>8, <1>10 DEF Kept, HistoriesGrow
<1>12. RequestNews /\ ChainSound'
  BY <1>1, <1>8, SameRequests, SameChain
<1> QED BY <1>6, <1>8, <1>9, <1>11, <1>12, StepKeeps

LEMMA PushKeeps ==
  ASSUME MemberInv, NEW d \in Device, Push(d)
  PROVE  MemberInv'
<1>1. /\ d \in Active(chain) /\ pushed' = [pushed EXCEPT ![d] = @ + 1]
      /\ UNCHANGED <<chain, invite, wire, vault, daemon, work, sends, crashes>>
  BY DEF Push, Member
<1>2. UNCHANGED <<hist, activated, control, approval, joining, intent>>
  BY <1>1 DEF vault
<1>3. Types /\ pushed \in [Device -> Nat]
  BY DEF MemberInv, Types
<1>4. pushed' \in [Device -> Nat]
  BY <1>1, <1>3
<1>5. Types'
  BY <1>1, <1>2, <1>3, <1>4 DEF Types
<1>6. PairingInOrder' /\ PairingNews /\ IntentNews
  BY <1>1, <1>2, SamePairings, SameIntents
<1>7. Kept /\ RequestNews
  BY <1>1, <1>2, SamePairings, SameIntents, SameRequests, Undisturbed
<1>8. ChainSound'
  <2>1. (AdmittedOnce /\ HistoryIsAuthorized)' <=> AdmittedOnce /\ HistoryIsAuthorized
    BY <1>1 DEF AdmittedOnce, HistoryIsAuthorized
  <2>2. CutoffIsFinal'
    <3> SUFFICES ASSUME NEW i \in Of(chain, "revoke")
                 PROVE  pushed'[chain[i].dev] = chain[i].cutoff
      BY <1>1 DEF CutoffIsFinal
    <3>1. chain[i].dev # d
      BY <1>1 DEF Active
    <3>2. chain[i].dev \in Device
      <4>1. chain[i] \in Events
        BY <1>3 DEF Types, Histories, Of
      <4> QED BY <4>1 DEF Events
    <3> QED BY <1>1, <1>3, <3>1, <3>2 DEF MemberInv, CutoffIsFinal
  <2> QED BY <2>1, <2>2 DEF ChainSound, MemberInv
<1> QED BY <1>5, <1>6, <1>7, <1>8, StepKeeps

----------------------------------------------------------------------------
(* Every step keeps the invariant. *)

LEMMA NextKeeps ==
  ASSUME MemberInv, [Next]_vars
  PROVE  MemberInv'
<1>1. ASSUME NEW p \in Pairing, NEW d \in Device, CreateInvite(d, p)
      PROVE  MemberInv'
  BY <1>1, CreateInviteKeeps
<1>2. ASSUME NEW p \in Pairing, NEW d \in Device, Withdraw(d, p)
      PROVE  MemberInv'
  BY <1>2, CloseKeeps DEF Withdraw
<1>3. ASSUME NEW p \in Pairing, Expire(p)
      PROVE  MemberInv'
  BY <1>3, CloseKeeps DEF Expire
<1>4. ASSUME NEW p \in Pairing, NEW d \in Device, Join(d, p)
      PROVE  MemberInv'
  BY <1>4, JoinKeeps
<1>5. ASSUME NEW p \in Pairing, NEW d \in Device,
             PrepareApproval(d, p) \/ ResumeApproval(d, p)
      PROVE  MemberInv'
  BY <1>5, PrepareApprovalKeeps, ResumeApprovalKeeps
<1>6. ASSUME NEW p \in Pairing, NEW d \in Device,
             JoinStatus(d, p) \/ ConfirmJoin(d, p) \/ ResumeJoin(d, p)
      PROVE  MemberInv'
  BY <1>6, JoinStatusKeeps, ConfirmJoinKeeps, ResumeJoinKeeps
<1>7. ASSUME NEW r \in Revocation, NEW d \in Device, NEW t \in Device, PrepareRevocation(d, r, t)
      PROVE  MemberInv'
  BY <1>7, PrepareRevocationKeeps
<1>8. ASSUME NEW r \in Revocation, NEW d \in Device,
             Publish(d, r) \/ CancelRevocation(d, r)
      PROVE  MemberInv'
  BY <1>8, PublishKeeps, CancelRevocationKeeps
<1>9. ASSUME NEW r \in Revocation, NEW d \in Device, RevocationStatus(d, r)
      PROVE  MemberInv'
  BY <1>9, ApplyKeeps DEF RevocationStatus
<1>10. ASSUME NEW m \in wire, VerifyApproval(m) \/ ServeApproval(m)
       PROVE  MemberInv'
  BY <1>10, VerifyApprovalKeeps, ServeApprovalKeeps
<1>11. ASSUME NEW m \in wire, VerifyRevocation(m) \/ PublishRevocation(m)
       PROVE  MemberInv'
  BY <1>11, VerifyRevocationKeeps, PublishRevocationKeeps
<1>12. ASSUME NEW d \in Device, ReceiveApproval(d) \/ ReceiveRevocation(d) \/ Timeout(d)
       PROVE  MemberInv'
  BY <1>12, ReceiveApprovalKeeps, ReceiveRevocationKeeps, TimeoutKeeps
<1>13. ASSUME NEW d \in Device, Reconcile(d) \/ Crash(d) \/ Start(d) \/ Push(d)
       PROVE  MemberInv'
  BY <1>13, ReconcileKeeps, CrashKeeps, StartKeeps, PushKeeps
<1>14. CASE UNCHANGED vars
  <2>1. UNCHANGED <<service, vault, wire, daemon, work, sends, crashes>>
    BY <1>14 DEF vars
  <2>2. Types
    BY DEF MemberInv
  <2>3. /\ wire' \subseteq Messages /\ daemon' \in [Device -> {"up", "down", "failed"}]
        /\ work' \in [Device -> Works] /\ sends' \in [Ids -> Nat] /\ crashes' \in Nat
    BY <2>1, <2>2 DEF Types
  <2>4. RequestNews
    BY <2>1, SameRequests
  <2> QED BY <2>1, <2>3, <2>4, RequestStep
<1> QED
  BY <1>1, <1>2, <1>3, <1>4, <1>5, <1>6, <1>7, <1>8, <1>9, <1>10, <1>11, <1>12, <1>13, <1>14
  DEF Next

----------------------------------------------------------------------------
(* What holds of every behaviour. *)

(* The inductive invariant: the order of a pairing and of a revocation,    *)
(* what a commit and a receipt say of the history, and the properties      *)
(* below, which no step of any device or of the service disturbs.          *)
THEOREM MemberInvariant == Spec => []MemberInv
<1>1. Init => MemberInv
  BY InitHolds
<1>2. MemberInv /\ [Next]_vars => MemberInv'
  BY NextKeeps
<1> QED BY <1>1, <1>2, PTL DEF Spec

(* No two devices ever accept histories of which neither continues the     *)
(* other, whatever decisions and revocations race and however late their   *)
(* requests arrive (accept_membership_extension; the head the service      *)
(* compares).                                                              *)
THEOREM HistoriesAlwaysAgree == Spec => []HistoriesAgree
<1>1. MemberInv => HistoriesAgree
  BY DEF MemberInv
<1> QED BY <1>1, MemberInvariant, PTL

(* Every event of the history was issued by a device that was then a       *)
(* member, for the epoch then current (verify_membership_history).         *)
THEOREM HistoryIsAlwaysAuthorized == Spec => []HistoryIsAuthorized
<1>1. MemberInv => HistoryIsAuthorized
  BY DEF MemberInv
<1> QED BY <1>1, MemberInvariant, PTL

(* The service holds of a revoked device exactly the operations that the   *)
(* signed cutoff names (service_publish_revocation, the append functions). *)
THEOREM CutoffIsAlwaysFinal == Spec => []CutoffIsFinal
<1>1. MemberInv => CutoffIsFinal
  BY DEF MemberInv
<1> QED BY <1>1, MemberInvariant, PTL

(* A pairing is decided once, and who has recorded its success has the     *)
(* admission in its own history (service_decide_pairing_request_v2,        *)
(* resume_confirmed_join).                                                 *)
THEOREM AlwaysDecidedOnce == Spec => []DecidedOnce
<1>1. MemberInv => DecidedOnce
  BY DEF MemberInv
<1> QED BY <1>1, MemberInvariant, PTL

----------------------------------------------------------------------------
(* An issuer's records. *)

LEMMA OnceOn ==
  ASSUME NEW s \in Histories, NEW t \in Histories, Begins(s, t), Once(t)
  PROVE  Once(s)
<1>1. /\ Len(s) \in Nat /\ Len(t) \in Nat
      /\ DOMAIN s = 1 .. Len(s) /\ DOMAIN t = 1 .. Len(t)
  BY DEF Histories
<1>2. \A i \in Of(s, "add") : i \in Of(t, "add") /\ s[i] = t[i]
  BY <1>1 DEF Of, Begins
<1> QED BY <1>2 DEF Once

(* A member's certificate is never reissued.                               *)
LEMMA CertificateStays ==
  ASSUME NEW s \in Histories, NEW t \in Histories, Begins(s, t), Once(t),
         NEW d \in Admitted(s)
  PROVE  CertEpoch(d, s) = CertEpoch(d, t)
<1>1. /\ Len(s) \in Nat /\ Len(t) \in Nat
      /\ DOMAIN s = 1 .. Len(s) /\ DOMAIN t = 1 .. Len(t)
  BY DEF Histories
<1>2. \A i \in Of(s, "add") : i \in Of(t, "add") /\ s[i] = t[i]
  BY <1>1 DEF Of, Begins
<1>3. PICK i \in Of(s, "add") : s[i].dev = d
  BY DEF Admitted
<1>4. i \in Of(t, "add") /\ t[i].dev = d /\ t[i] = s[i]
  BY <1>2, <1>3
<1> DEFINE a == CHOOSE k \in Of(s, "add") : s[k].dev = d
           b == CHOOSE k \in Of(t, "add") : t[k].dev = d
<1>5. a \in Of(s, "add") /\ s[a].dev = d
  BY <1>3
<1>6. b \in Of(t, "add") /\ t[b].dev = d
  BY <1>4
<1>7. CertEpoch(d, s) = s[a].epoch /\ CertEpoch(d, t) = t[b].epoch
  BY DEF CertEpoch
<1> HIDE DEF a, b
<1>8. a \in Of(t, "add") /\ t[a] = s[a]
  BY <1>2, <1>5
<1>9. a = b
  BY <1>5, <1>6, <1>8 DEF Once
<1> QED BY <1>7, <1>8, <1>9

(* Nobody signs a second revocation: the first ends the epoch of its       *)
(* issuer's certificate.                                                   *)
LEMMA NoSecondRevocation ==
  ASSUME MemberInv, NEW r \in Revocation, NEW s \in Revocation,
         Has(chain, r), Has(chain, s), intent[r].issuer = intent[s].issuer,
         Len(intent[r].parent) < Len(intent[s].parent)
  PROVE  FALSE
<1> DEFINE d == intent[r].issuer
           g == intent[r].parent
           h == intent[s].parent
           e == Ending(r)
<1>1. Types /\ IntentInOrder /\ chain \in Histories /\ Once(chain)
  BY InTerms DEF MemberInv, Types
<1>2. intent[r].state # "none" /\ intent[s].state # "none"
  BY <1>1 DEF IntentInOrder, Unsent
<1>3. /\ g \in Histories /\ e \in Events /\ e.kind = "revoke"
      /\ Successor(r) = Append(g, e) /\ Successor(r) \in Histories
  BY <1>1, <1>2, RevocationHolds
<1>4. h \in Histories /\ Successor(s) = Append(h, Ending(s)) /\ Ending(s) \in Events
      /\ Successor(s) \in Histories
  BY <1>1, <1>2, RevocationHolds
<1>5. Begins(Successor(r), chain) /\ Begins(Successor(s), chain)
  BY <1>1, <1>3, <1>4, PrefixBegins DEF MemberInv, Published
<1>6. /\ d \in Active(g) /\ CertEpoch(d, g) = Epoch(g)
      /\ CertEpoch(d, h) = Epoch(h)
  BY <1>1, <1>2 DEF IntentInOrder
<1>7. Len(Append(g, e)) <= Len(h)
  <2>1. Len(Append(g, e)) = Len(g) + 1 /\ Len(g) \in Nat /\ Len(h) \in Nat /\ Len(g) < Len(h)
    BY <1>3, <1>4, BeginsAppend DEF Histories
  <2> QED BY <2>1
<1> HIDE DEF d, g, h, e
<1>8. Begins(g, Append(g, e)) /\ Begins(h, chain)
  <2>1. Begins(g, Append(g, e))
    BY <1>3, BeginsAppend
  <2>2. Begins(h, Successor(s))
    BY <1>4, BeginsAppend
  <2> QED BY <1>1, <1>4, <1>5, <2>1, <2>2, BeginsOn
<1>9. Append(g, e) \in Histories /\ Begins(Append(g, e), h)
  BY <1>1, <1>3, <1>4, <1>5, <1>7, <1>8, BeginningsAgree
<1>10. Begins(g, h) /\ Once(h)
  BY <1>1, <1>3, <1>4, <1>8, <1>9, BeginsOn, OnceOn
<1>11. CertEpoch(d, g) = CertEpoch(d, h)
  BY <1>3, <1>4, <1>6, <1>10, CertificateStays DEF Active
<1>12. Epoch(g) # Epoch(Append(g, e))
  <2>1. Len(g) + 1 \in Of(Append(g, e), "revoke")
    BY <1>3, BeginsAppend DEF Of
  <2>2. Len(g) + 1 \notin Of(g, "revoke")
    BY <1>3, BeginsAppend DEF Of
  <2> QED BY <1>3, <1>8, <1>9, <2>1, <2>2, EpochOn
<1>13. /\ Epoch(g) \in Nat /\ Epoch(h) \in Nat /\ Epoch(Append(g, e)) \in Nat
       /\ Epoch(g) <= Epoch(Append(g, e)) /\ Epoch(Append(g, e)) <= Epoch(h)
  BY <1>3, <1>4, <1>8, <1>9, EpochOn, EpochType
<1> QED BY <1>6, <1>11, <1>12, <1>13

LEMMA RecordsAreTrue == MemberInv => RevocationRecordIsTrue
<1> SUFFICES ASSUME MemberInv PROVE RevocationRecordIsTrue
  OBVIOUS
<1>1. Types /\ IntentInOrder /\ chain \in Histories
  BY DEF MemberInv, Types
<1>2. ASSUME NEW r \in Revocation, intent[r].state \in {"prepared", "canceled_before_send"},
             NEW m \in wire
      PROVE  m.id # r
  <2>1. m.op \in {"approve", "revoke"}
    BY <1>1 DEF Types, Messages
  <2>2. m.op = "approve" => m.id \in Pairing
    BY DEF MemberInv, RequestsAreStored, AboutStored
  <2>3. m.op = "revoke" => intent[m.id].state \notin Unsent
    BY DEF MemberInv, RequestsAreStored, AboutStored
  <2>4. intent[r].state \in Unsent
    BY <1>2 DEF Unsent
  <2> QED BY <2>1, <2>2, <2>3, <2>4, MembershipAssumption
<1>3. \A r \in Revocation :
        /\ intent[r].state = "accepted" => Has(chain, r)
        /\ intent[r].state \in {"prepared", "canceled_before_send"} =>
               ~Has(chain, r) /\ \A m \in wire : m.id # r
  BY <1>1, <1>2 DEF IntentInOrder, Unsent
<1>4. ASSUME NEW r \in Revocation, NEW s \in Revocation,
             intent[r].state = "accepted", intent[s].state = "accepted",
             intent[r].issuer = intent[s].issuer
      PROVE  r = s
  <2>1. Has(chain, r) /\ Has(chain, s)
    BY <1>3, <1>4
  <2>2. /\ intent[r].parent \in Histories /\ Ending(r) \in Events /\ Ending(r).id = r
        /\ Successor(r) = Append(intent[r].parent, Ending(r)) /\ Successor(r) \in Histories
    BY <1>1, <1>4, RevocationHolds
  <2>3. /\ intent[s].parent \in Histories /\ Ending(s) \in Events /\ Ending(s).id = s
        /\ Successor(s) = Append(intent[s].parent, Ending(s)) /\ Successor(s) \in Histories
    BY <1>1, <1>4, RevocationHolds
  <2>4. Begins(Successor(r), chain) /\ Begins(Successor(s), chain)
    BY <1>1, <2>1, <2>2, <2>3, PrefixBegins DEF MemberInv, Published
  <2> DEFINE g == intent[r].parent
             h == intent[s].parent
  <2>5. /\ Len(g) \in Nat /\ Len(h) \in Nat
        /\ Len(Successor(r)) = Len(g) + 1 /\ Len(Successor(s)) = Len(h) + 1
        /\ Successor(r)[Len(g) + 1] = Ending(r) /\ Successor(s)[Len(h) + 1] = Ending(s)
    <3>1. ASSUME NEW k \in Histories, NEW e \in Events
          PROVE  /\ Len(k) \in Nat /\ Len(Append(k, e)) = Len(k) + 1
                 /\ Append(k, e)[Len(k) + 1] = e
      BY BeginsAppend
    <3>2. /\ Len(g) \in Nat /\ Len(Successor(r)) = Len(g) + 1
          /\ Successor(r)[Len(g) + 1] = Ending(r)
      BY <2>2, <3>1
    <3>3. /\ Len(h) \in Nat /\ Len(Successor(s)) = Len(h) + 1
          /\ Successor(s)[Len(h) + 1] = Ending(s)
      BY <2>3, <3>1
    <3> QED BY <3>2, <3>3
  <2>6. ~(Len(g) < Len(h)) /\ ~(Len(h) < Len(g))
    BY <1>4, <2>1, NoSecondRevocation
  <2> HIDE DEF g, h
  <2>7. Len(g) = Len(h)
    BY <2>5, <2>6
  <2>8. Successor(r) = Successor(s)
    BY <1>1, <2>2, <2>3, <2>4, <2>5, <2>7, BeginningsAgree
  <2> QED BY <2>2, <2>3, <2>5, <2>7, <2>8
<1> QED BY <1>3, <1>4 DEF RevocationRecordIsTrue

(* What an issuer's record claims is so: an accepted revocation is in the  *)
(* history, an issuer has at most one, and one canceled before it was sent *)
(* is nowhere on its way (device_revocation_intents,                       *)
(* cancel_device_revocation_submission).                                   *)
THEOREM RevocationRecordIsAlwaysTrue == Spec => []RevocationRecordIsTrue
BY MemberInvariant, RecordsAreTrue, PTL

----------------------------------------------------------------------------
(* Types and bounds. *)

(* An invitation and an intent have set a call aside, which is spent when  *)
(* something is first sent for them.                                       *)
SetAside ==
  /\ \A p \in Pairing : /\ invite[p].state # "none" => calls > 0
                        /\ approval[p].state = "none" => sends[p] = 0
  /\ \A r \in Revocation : /\ intent[r].state # "none" => calls > 0
                           /\ intent[r].state \in {"none", "prepared"} => sends[r] = 0

(* The calls for one pairing or revocation are numbered, and no more than  *)
(* all calls together.                                                     *)
Numbered ==
  /\ calls \in 0 .. MaxCalls
  /\ \A id \in Ids : sends[id] <= calls
  /\ \A m \in wire : 0 < m.n /\ m.n <= sends[m.id]

(* A daemon that runs waits for each revocation it says it is submitting.  *)
Awaited ==
  \A r \in Revocation :
    intent[r].state = "submitting" /\ daemon[intent[r].issuer] = "up" =>
       work[intent[r].issuer].op = "revoke" /\ work[intent[r].issuer].id = r

Bounded ==
  /\ \A d \in Device : pushed[d] <= MaxPushes
  /\ crashes <= MaxCrashes

CallInv == SetAside /\ Numbered /\ Awaited /\ Bounded

(* What most steps do about calls, pairings and intents.                   *)
NothingSent ==
  UNCHANGED <<sends, calls>> /\ \A m \in wire' : \E k \in wire : m.id = k.id /\ m.n = k.n
PairingsOn ==
  \A p \in Pairing : /\ invite'[p].state # "none" => invite[p].state # "none"
                     /\ approval'[p].state = "none" => approval[p].state = "none"
IntentsOn ==
  \A r \in Revocation :
    /\ intent'[r].state # "none" => intent[r].state # "none"
    /\ intent'[r].state \in {"none", "prepared"} => intent[r].state \in {"none", "prepared"}

LEMMA NothingSentKeeps ==
  ASSUME SetAside, Numbered, NothingSent, PairingsOn, IntentsOn
  PROVE  SetAside' /\ Numbered'
BY DEF SetAside, Numbered, NothingSent, PairingsOn, IntentsOn

LEMMA AwaitedOn ==
  ASSUME Awaited,
         \A d \in Device : daemon'[d] = "up" =>
            \/ /\ daemon[d] = "up"
               /\ work[d].op = "revoke" =>
                     \/ work'[d].op = "revoke" /\ work'[d].id = work[d].id
                     \/ intent'[work[d].id].state # "submitting"
            \/ \A r \in Revocation : intent'[r].issuer = d => intent'[r].state # "submitting",
         \A r \in Revocation : intent'[r].state = "submitting" =>
            /\ intent'[r].issuer \in Device
            /\ \/ intent[r].state = "submitting" /\ intent'[r].issuer = intent[r].issuer
               \/ work'[intent'[r].issuer].op = "revoke" /\ work'[intent'[r].issuer].id = r
  PROVE  Awaited'
<1> SUFFICES ASSUME NEW r \in Revocation, intent'[r].state = "submitting",
                    daemon'[intent'[r].issuer] = "up"
             PROVE  work'[intent'[r].issuer].op = "revoke" /\ work'[intent'[r].issuer].id = r
  BY DEF Awaited
<1>1. PICK d \in Device : d = intent'[r].issuer
  OBVIOUS
<1>2. CASE work'[intent'[r].issuer].op = "revoke" /\ work'[intent'[r].issuer].id = r
  BY <1>2
<1>3. CASE intent[r].state = "submitting" /\ intent[r].issuer = d
  <2>1. daemon[d] = "up"
    BY <1>1
  <2>2. work[d].op = "revoke" /\ work[d].id = r
    BY <1>3, <2>1 DEF Awaited
  <2> QED BY <1>1, <2>1, <2>2
<1> QED BY <1>1, <1>2, <1>3

(* The steps that leave the intents alone, and no daemon that waits for a  *)
(* revocation without its call.                                            *)
LEMMA AwaitedStays ==
  ASSUME MemberInv, Awaited, UNCHANGED intent,
         \A d \in Device : daemon'[d] = "up" =>
            /\ daemon[d] = "up"
            /\ work[d].op = "revoke" => work'[d].op = "revoke" /\ work'[d].id = work[d].id
  PROVE  Awaited'
<1>1. \A r \in Revocation : intent[r].state = "submitting" => intent[r].issuer \in Device
  BY DEF MemberInv, IntentInOrder
<1> QED BY <1>1, AwaitedOn

(* A call that ends, in order or with its daemon, and was about no         *)
(* revocation.                                                             *)
LEMMA EndsOther ==
  ASSUME MemberInv, CallInv, NEW d \in Device, Die(d) \/ Finish(d), work[d].op # "revoke",
         UNCHANGED <<intent, pushed>>
  PROVE  Awaited' /\ Bounded'
<1>1. /\ work' = [work EXCEPT ![d] = Idle] /\ work \in [Device -> Works]
      /\ daemon \in [Device -> {"up", "down", "failed"}] /\ crashes \in Nat
  BY EndTypes DEF MemberInv, Types
<1>2. \A e \in Device \ {d} : work'[e] = work[e] /\ daemon'[e] = daemon[e]
  BY <1>1 DEF Die, Finish
<1>3. daemon'[d] = "up" => daemon[d] = "up"
  BY <1>1 DEF Die, Finish
<1>4. Awaited'
  BY <1>2, <1>3, AwaitedStays DEF CallInv
<1>5. Bounded'
  BY <1>1, MembershipAssumption DEF CallInv, Bounded, Die, Finish
<1> QED BY <1>4, <1>5

LEMMA SendNumbered ==
  ASSUME Types, Numbered, NEW d \in Device, NEW op \in {"approve", "revoke"}, NEW id \in Ids,
         Send(d, op, id), calls' \in 0 .. MaxCalls, calls' >= calls, sends[id] < calls'
  PROVE  /\ Numbered' /\ \A k \in Ids \ {id} : sends'[k] = sends[k]
<1>1. /\ sends \in [Ids -> Nat] /\ sends' = [sends EXCEPT ![id] = @ + 1]
  BY DEF Types, Send
<1>2. sends'[id] = sends[id] + 1 /\ \A k \in Ids \ {id} : sends'[k] = sends[k]
  BY <1>1
<1> DEFINE m == [op |-> op, id |-> id, n |-> sends'[id], stage |-> "sent"]
<1>3. wire' = wire \union {m} /\ m.id = id /\ m.n = sends'[id]
  BY DEF Send
<1> HIDE DEF m
<1>4. \A k \in Ids : sends[k] \in Nat /\ sends[k] <= calls /\ calls \in Nat /\ calls' \in Nat
  BY <1>1, MembershipAssumption DEF Numbered
<1>5. \A k \in Ids : sends'[k] <= calls'
  BY <1>2, <1>4
<1>6. ASSUME NEW k \in wire' PROVE 0 < k.n /\ k.n <= sends'[k.id]
  <2>1. CASE k = m
    BY <1>2, <1>3, <1>4, <2>1
  <2>2. CASE k \in wire
    <3>1. k.id \in Ids /\ k.n \in Nat
      BY <2>2 DEF Types, Messages
    <3>2. 0 < k.n /\ k.n <= sends[k.id]
      BY <2>2 DEF Numbered
    <3> QED BY <1>2, <1>4, <3>1, <3>2
  <2> QED BY <1>3, <2>1, <2>2
<1> QED BY <1>2, <1>5, <1>6 DEF Numbered

(* A daemon that was idle sends something: no intent of its own was being  *)
(* submitted.                                                              *)
LEMMA SendAwaited ==
  ASSUME MemberInv, Awaited, NEW d \in Device, NEW op \in {"approve", "revoke"}, NEW id \in Ids,
         Send(d, op, id), Ready(d), UNCHANGED <<intent, daemon>>
  PROVE  Awaited'
<1>1. \A e \in Device \ {d} : work'[e] = work[e]
  BY SendTypes DEF MemberInv
<1>2. work[d].op = "idle"
  BY DEF Ready, Idle
<1> QED BY <1>1, <1>2, AwaitedStays

(* The steps of a pairing.                                                 *)
LEMMA InviteCalls ==
  ASSUME MemberInv, CallInv, NEW p \in Pairing,
         \A q \in Pairing \ {p} : invite'[q] = invite[q],
         \/ invite[p].state # "none" /\ UNCHANGED calls
         \/ approval[p].state = "none" /\ Spend,
         UNCHANGED <<pushed, wire, approval, intent, daemon, work, sends, crashes>>
  PROVE  CallInv'
<1>1. sends \in [Ids -> Nat] /\ MaxCalls \in Nat
  BY MembershipAssumption DEF MemberInv, Types
<1>2. calls \in 0 .. MaxCalls /\ \A id \in Ids : sends[id] <= calls /\ sends[id] \in Nat
  BY <1>1 DEF CallInv, Numbered
<1>3. calls' \in 0 .. MaxCalls /\ calls' >= calls
  BY <1>1, <1>2 DEF Spend
<1>4. SetAside'
  <2>1. calls' > 0
    BY <1>2, <1>3 DEF CallInv, SetAside, Spend
  <2> QED BY <2>1 DEF CallInv, SetAside
<1>5. Numbered'
  BY <1>2, <1>3 DEF CallInv, Numbered
<1>6. Awaited'
  BY AwaitedStays DEF CallInv
<1>7. Bounded'
  BY DEF CallInv, Bounded
<1> QED BY <1>4, <1>5, <1>6, <1>7 DEF CallInv

LEMMA PairingCalls ==
  ASSUME MemberInv, CallInv, NEW d \in Device, NEW p \in Pairing,
         CreateInvite(d, p) \/ Withdraw(d, p) \/ Expire(p) \/ Join(d, p)
  PROVE  CallInv'
<1>1. invite \in [Pairing -> Invites]
  BY DEF MemberInv, Types
<1>2. \A q \in Pairing \ {p} : invite'[q] = invite[q]
  BY <1>1 DEF CreateInvite, Withdraw, Expire, Join
<1>3. invite[p].state = "none" => approval[p].state = "none"
  BY DEF MemberInv, PairingInOrder
<1>4. \/ invite[p].state # "none" /\ UNCHANGED calls
      \/ approval[p].state = "none" /\ Spend
  BY <1>3 DEF CreateInvite, Withdraw, Expire, Join
<1>5. UNCHANGED <<pushed, wire, approval, intent, daemon, work, sends, crashes>>
  BY DEF CreateInvite, Withdraw, Expire, Join, vault
<1> QED BY <1>2, <1>4, <1>5, InviteCalls

LEMMA ApprovalCalls ==
  ASSUME MemberInv, CallInv, NEW d \in Device, NEW p \in Pairing,
         PrepareApproval(d, p) \/ ResumeApproval(d, p)
  PROVE  CallInv'
<1>1. /\ Ready(d) /\ Send(d, "approve", p)
      /\ UNCHANGED <<invite, pushed, intent, daemon, crashes>>
  BY DEF PrepareApproval, ResumeApproval, service, vault
<1>2. PICK op \in {"approve", "revoke"} : op = "approve"
  OBVIOUS
<1>3. Types /\ p \in Ids /\ Send(d, op, p) /\ MaxCalls \in Nat
  BY <1>1, <1>2, MembershipAssumption DEF MemberInv, Ids
<1>4. calls \in 0 .. MaxCalls /\ sends[p] <= calls /\ sends[p] \in Nat
  BY <1>3 DEF CallInv, Numbered, Types
<1>5. calls' \in 0 .. MaxCalls /\ calls' >= calls /\ sends[p] < calls'
  <2>1. CASE PrepareApproval(d, p)
    <3>1. invite[p].requested /\ approval[p].state = "none" /\ UNCHANGED calls
      BY <2>1 DEF PrepareApproval
    <3>2. invite[p].state # "none"
      BY <3>1 DEF MemberInv, PairingInOrder
    <3> QED BY <1>4, <3>1, <3>2 DEF CallInv, SetAside
  <2>2. CASE ResumeApproval(d, p)
    BY <1>3, <1>4, <2>2 DEF ResumeApproval, Spend
  <2> QED BY <2>1, <2>2
<1>6. Numbered' /\ \A k \in Ids \ {p} : sends'[k] = sends[k]
  BY <1>3, <1>5, SendNumbered DEF CallInv
<1>7. approval'[p].state # "none" /\ \A q \in Pairing \ {p} : approval'[q] = approval[q]
  <2>1. approval \in [Pairing -> Approvals]
    BY <1>3 DEF Types
  <2>2. CASE PrepareApproval(d, p)
    BY <2>1, <2>2 DEF PrepareApproval
  <2>3. CASE ResumeApproval(d, p)
    BY <2>3 DEF ResumeApproval, vault
  <2> QED BY <2>2, <2>3
<1>8. SetAside'
  <2>1. \A q \in Pairing : approval'[q].state = "none" => sends'[q] = 0
    BY <1>6, <1>7 DEF CallInv, SetAside, Ids
  <2>2. \A r \in Revocation : r \in Ids \ {p}
    BY MembershipAssumption DEF Ids
  <2>3. \A r \in Revocation : intent'[r].state \in {"none", "prepared"} => sends'[r] = 0
    BY <1>1, <1>6, <2>2 DEF CallInv, SetAside
  <2>4. calls > 0 => calls' > 0
    BY <1>4, <1>5
  <2> QED BY <1>1, <2>1, <2>3, <2>4 DEF CallInv, SetAside
<1>9. Awaited'
  BY <1>1, <1>3, SendAwaited DEF CallInv
<1>10. Bounded'
  BY <1>1 DEF CallInv, Bounded
<1> QED BY <1>6, <1>8, <1>9, <1>10 DEF CallInv

(* What the service does.                                                  *)
LEMMA ServiceCalls ==
  ASSUME MemberInv, CallInv, NEW m \in wire,
         VerifyApproval(m) \/ ServeApproval(m) \/ VerifyRevocation(m) \/ PublishRevocation(m)
  PROVE  CallInv'
<1>1. UNCHANGED <<pushed, approval, intent, daemon, sends, calls, crashes>>
  BY DEF VerifyApproval, ServeApproval, VerifyRevocation, PublishRevocation, service, vault
<1>2. /\ m.op = "approve" => m.id \in Pairing /\ invite[m.id].issuer \in Device
      /\ m.op = "revoke" => m.id \in Revocation /\ intent[m.id].issuer \in Device
  BY RequestOf
<1>3. \/ UNCHANGED work /\ wire' = (wire \ {m}) \union {[m EXCEPT !.stage = "verified"]}
      \/ \E d \in Device, answer \in {"receipt", "refused", "conflict"} : Answer(d, m, answer)
  BY <1>2 DEF VerifyApproval, ServeApproval, VerifyRevocation, PublishRevocation
<1>4. /\ \A e \in Device : work'[e].op = work[e].op /\ work'[e].id = work[e].id
      /\ \A k \in wire' : \E l \in wire : k.id = l.id /\ k.n = l.n
  <2>1. CASE UNCHANGED work /\ wire' = (wire \ {m}) \union {[m EXCEPT !.stage = "verified"]}
    <3>1. m \in Messages
      BY DEF MemberInv, Types
    <3> DEFINE v == [m EXCEPT !.stage = "verified"]
    <3>2. v.id = m.id /\ v.n = m.n
      BY <3>1 DEF Messages
    <3>3. wire' = (wire \ {m}) \union {v}
      BY <2>1
    <3> HIDE DEF v
    <3> QED BY <2>1, <3>2, <3>3
  <2>2. ASSUME NEW d \in Device, NEW answer \in {"receipt", "refused", "conflict"},
               Answer(d, m, answer)
        PROVE  /\ \A e \in Device : work'[e].op = work[e].op /\ work'[e].id = work[e].id
               /\ wire' \subseteq wire
    BY <2>2, AnswerTypes DEF MemberInv
  <2> QED BY <1>3, <2>1, <2>2
<1>5. NothingSent /\ IntentsOn
  BY <1>1, <1>4 DEF NothingSent, IntentsOn
<1>6. PairingsOn
  <2>1. \A p \in Pairing : invite'[p].state # "none" => invite[p].state # "none"
    <3>1. CASE UNCHANGED invite
      BY <3>1
    <3>2. CASE ServeApproval(m) /\ Undecided(m.id)
               /\ invite' = [invite EXCEPT ![m.id].state = "approved"]
      <4>1. invite \in [Pairing -> Invites] /\ invite[m.id].state # "none"
        BY <3>2 DEF MemberInv, Types, Undecided
      <4> QED BY <3>2, <4>1
    <3> QED
      BY <3>1, <3>2
      DEF VerifyApproval, ServeApproval, VerifyRevocation, PublishRevocation, service
  <2> QED BY <1>1, <2>1 DEF PairingsOn
<1>7. Awaited' /\ Bounded'
  BY <1>1, <1>4, AwaitedStays DEF CallInv, Bounded
<1> QED BY <1>5, <1>6, <1>7, NothingSentKeeps DEF CallInv

(* A receipt, a join and a reconciliation, which may end with a death.     *)
LEMMA EndingCalls ==
  ASSUME MemberInv, CallInv, NEW d \in Device,
         \/ ReceiveApproval(d) \/ Reconcile(d)
         \/ \E p \in Pairing : JoinStatus(d, p) \/ ConfirmJoin(d, p) \/ ResumeJoin(d, p)
  PROVE  CallInv'
<1>1. /\ UNCHANGED <<invite, pushed, wire, intent, sends, calls>>
  BY DEF ReceiveApproval, Reconcile, JoinStatus, ConfirmJoin, ResumeJoin, service
<1>2. PairingsOn
  <2>1. CASE UNCHANGED approval
    BY <1>1, <2>1 DEF PairingsOn
  <2>2. CASE ReceiveApproval(d)
             /\ approval' = [approval EXCEPT ![work[d].id].state = "accepted"]
    <3> DEFINE x == work[d].id
               a == [approval[x] EXCEPT !.state = "accepted"]
    <3>1. x \in Pairing /\ approval \in [Pairing -> Approvals] /\ approval[x] \in Approvals
      BY <2>2 DEF MemberInv, Types, RequestsAreStored, AboutStored, ReceiveApproval
    <3>2. a.state # "none"
      BY <3>1 DEF Approvals
    <3>3. approval' = [approval EXCEPT ![x] = a]
      BY <2>2
    <3> HIDE DEF a, x
    <3>4. \A q \in Pairing : approval'[q].state = "none" => approval[q].state = "none"
      BY <3>1, <3>2, <3>3
    <3> QED BY <1>1, <3>4 DEF PairingsOn
  <2> QED
    BY <2>1, <2>2 DEF ReceiveApproval, Reconcile, JoinStatus, ConfirmJoin, ResumeJoin
<1>3. NothingSent /\ IntentsOn
  BY <1>1 DEF NothingSent, IntentsOn
<1>4. Awaited' /\ Bounded'
  <2>1. CASE \E p \in Pairing : JoinStatus(d, p)
    <3>1. UNCHANGED <<daemon, work, crashes>>
      BY <2>1 DEF JoinStatus
    <3> QED BY <1>1, <3>1, AwaitedStays DEF CallInv, Bounded
  <2>2. CASE ReceiveApproval(d) \/ Reconcile(d)
             \/ \E p \in Pairing : ConfirmJoin(d, p) \/ ResumeJoin(d, p)
    <3>1. Die(d) \/ Finish(d)
      BY <2>2 DEF ReceiveApproval, Reconcile, ConfirmJoin, ResumeJoin
    <3>2. work[d].op # "revoke"
      <4>1. ReceiveApproval(d) => work[d].op = "approve"
        BY DEF ReceiveApproval
      <4>2. ~ReceiveApproval(d) => Ready(d)
        BY <2>2 DEF Reconcile, ConfirmJoin, ResumeJoin
      <4>3. Ready(d) => work[d].op = "idle"
        BY DEF Ready, Idle
      <4> QED BY <4>1, <4>2, <4>3
    <3> QED BY <1>1, <3>1, <3>2, EndsOther
  <2> QED BY <2>1, <2>2
<1> QED BY <1>2, <1>3, <1>4, NothingSentKeeps DEF CallInv

(* A stored intent and its first or next call.                             *)
LEMMA IntentCalls ==
  ASSUME MemberInv, CallInv, NEW d \in Device, NEW r \in Revocation, Ready(d),
         intent' \in [Revocation -> Intents], intent'[r].issuer = d, intent'[r].state # "none",
         \A q \in Revocation \ {r} : intent'[q] = intent[q],
         \/ intent'[r].state = "submitting" /\ Send(d, "revoke", r)
         \/ /\ intent[r].state = "none" /\ intent'[r].state # "submitting"
            /\ UNCHANGED <<wire, work, sends>>,
         \/ intent[r].state = "prepared" /\ UNCHANGED calls
         \/ Spend,
         UNCHANGED <<invite, pushed, approval, daemon, crashes>>
  PROVE  CallInv'
<1>1. Types /\ r \in Ids /\ MaxCalls \in Nat
  BY MembershipAssumption DEF MemberInv, Ids
<1>2. /\ calls \in 0 .. MaxCalls /\ sends[r] <= calls
      /\ \A id \in Ids : sends[id] \in Nat /\ sends[id] <= calls
  BY <1>1 DEF CallInv, Numbered, Types
<1>3. calls' \in 0 .. MaxCalls /\ calls' >= calls /\ calls' > 0 /\ sends[r] < calls'
  BY <1>1, <1>2 DEF CallInv, SetAside, Spend
<1>4. /\ Numbered' /\ \A k \in Ids \ {r} : sends'[k] = sends[k]
      /\ \A e \in Device \ {d} : work'[e] = work[e]
      /\ intent'[r].state = "submitting" =>
            work'[d].op = "revoke" /\ work'[d].id = r
      /\ intent'[r].state # "submitting" => sends'[r] = 0
  <2>1. CASE intent'[r].state = "submitting" /\ Send(d, "revoke", r)
    <3>1. PICK op \in {"approve", "revoke"} : op = "revoke"
      OBVIOUS
    <3>2. Send(d, op, r)
      BY <2>1, <3>1
    <3>3. Numbered' /\ \A k \in Ids \ {r} : sends'[k] = sends[k]
      BY <1>1, <1>3, <3>2, SendNumbered DEF CallInv
    <3>4. /\ \A e \in Device \ {d} : work'[e] = work[e]
          /\ work'[d].op = op /\ work'[d].id = r
      BY <1>1, <3>2, SendTypes
    <3> QED BY <2>1, <3>1, <3>3, <3>4
  <2>2. CASE /\ intent[r].state = "none" /\ intent'[r].state # "submitting"
             /\ UNCHANGED <<wire, work, sends>>
    BY <1>2, <1>3, <2>2 DEF CallInv, SetAside, Numbered
  <2> QED BY <2>1, <2>2
<1>5. SetAside'
  <2>1. \A p \in Pairing : p \in Ids \ {r}
    BY MembershipAssumption DEF Ids
  <2>2. \A q \in Revocation \ {r} : q \in Ids \ {r}
    BY DEF Ids
  <2>3. \A p \in Pairing : approval'[p].state = "none" => sends'[p] = 0
    BY <1>4, <2>1 DEF CallInv, SetAside
  <2>4. \A q \in Revocation : intent'[q].state \in {"none", "prepared"} => sends'[q] = 0
    BY <1>4, <2>2 DEF CallInv, SetAside
  <2> QED BY <1>3, <2>3, <2>4 DEF SetAside
<1>6. Awaited'
  <2>1. work[d].op = "idle"
    BY DEF Ready, Idle
  <2>2. \A q \in Revocation : intent[q].state = "submitting" => intent[q].issuer \in Device
    BY DEF MemberInv, IntentInOrder
  <2>3. \A q \in Revocation : intent'[q].state = "submitting" =>
            /\ intent'[q].issuer \in Device
            /\ \/ intent[q].state = "submitting" /\ intent'[q].issuer = intent[q].issuer
               \/ work'[intent'[q].issuer].op = "revoke" /\ work'[intent'[q].issuer].id = q
    BY <1>4, <2>2
  <2>4. \A e \in Device : daemon'[e] = "up" =>
           /\ daemon[e] = "up"
           /\ work[e].op = "revoke" => work'[e].op = "revoke" /\ work'[e].id = work[e].id
    BY <1>4, <2>1
  <2> QED BY <2>3, <2>4, AwaitedOn DEF CallInv
<1>7. Bounded'
  BY DEF CallInv, Bounded
<1> QED BY <1>4, <1>5, <1>6, <1>7 DEF CallInv

LEMMA PrepareRevocationCalls ==
  ASSUME MemberInv, CallInv, NEW d \in Device, NEW r \in Revocation, NEW t \in Device,
         PrepareRevocation(d, r, t)
  PROVE  CallInv'
<1>1. /\ Ready(d) /\ intent[r].state = "none" /\ Spend
      /\ UNCHANGED <<invite, pushed, approval, daemon, crashes>>
  BY DEF PrepareRevocation, service
<1>2. PICK submit \in BOOLEAN :
        /\ intent' = [intent EXCEPT ![r] =
              [state |-> IF submit THEN "submitting" ELSE "prepared",
               issuer |-> d, target |-> t, parent |-> chain,
               cutoff |-> pushed[t], canceled |-> FALSE]]
        /\ IF submit THEN Send(d, "revoke", r) ELSE UNCHANGED <<wire, work, sends>>
  BY DEF PrepareRevocation
<1> DEFINE i == [state |-> IF submit THEN "submitting" ELSE "prepared",
                 issuer |-> d, target |-> t, parent |-> chain,
                 cutoff |-> pushed[t], canceled |-> FALSE]
<1>3. /\ intent \in [Revocation -> Intents] /\ chain \in Histories /\ pushed[t] \in Nat
  BY DEF MemberInv, Types
<1>4. /\ i \in Intents /\ i.issuer = d
      /\ i.state = IF submit THEN "submitting" ELSE "prepared"
  BY <1>3 DEF Intents, IntentState, Someone
<1>5. intent' = [intent EXCEPT ![r] = i]
  BY <1>2
<1> HIDE DEF i
<1>6. /\ intent' \in [Revocation -> Intents] /\ intent'[r] = i
      /\ \A q \in Revocation \ {r} : intent'[q] = intent[q]
  BY <1>3, <1>4, <1>5
<1>7. \/ intent'[r].state = "submitting" /\ Send(d, "revoke", r)
      \/ intent'[r].state # "submitting" /\ UNCHANGED <<wire, work, sends>>
  BY <1>2, <1>4, <1>6
<1>8. intent'[r].issuer = d /\ intent'[r].state # "none"
  BY <1>4, <1>6
<1> QED BY <1>1, <1>6, <1>7, <1>8, IntentCalls

LEMMA PublishCalls ==
  ASSUME MemberInv, CallInv, NEW d \in Device, NEW r \in Revocation, Publish(d, r)
  PROVE  CallInv'
<1>1. /\ Ready(d) /\ intent[r].issuer = d /\ Send(d, "revoke", r)
      /\ (intent[r].state = "prepared" /\ UNCHANGED calls) \/ Spend
      /\ UNCHANGED <<invite, pushed, approval, daemon, crashes>>
  BY DEF Publish, service
<1> DEFINE i == [intent[r] EXCEPT !.state = "submitting"]
<1>2. intent \in [Revocation -> Intents] /\ intent[r] \in Intents
  BY DEF MemberInv, Types
<1>3. i \in Intents /\ i.state = "submitting" /\ i.issuer = intent[r].issuer
  BY <1>2 DEF Intents, IntentState
<1>4. intent' = [intent EXCEPT ![r] = i]
  BY DEF Publish
<1> HIDE DEF i
<1>5. /\ intent' \in [Revocation -> Intents] /\ intent'[r] = i
      /\ \A q \in Revocation \ {r} : intent'[q] = intent[q]
  BY <1>2, <1>3, <1>4
<1>6. intent'[r].issuer = d /\ intent'[r].state = "submitting"
  BY <1>1, <1>3, <1>5
<1> QED BY <1>1, <1>5, <1>6, IntentCalls

(* An intent that is settled while nothing is sent.                        *)
LEMMA SettleCalls ==
  ASSUME MemberInv, CallInv, NEW r \in Revocation, intent[r].state \notin {"none", "prepared"},
         NEW s \in IntentState \ Unsent, intent' = [intent EXCEPT ![r].state = s],
         UNCHANGED <<invite, pushed, wire, approval, sends, calls>>
  PROVE  /\ SetAside' /\ Numbered' /\ intent'[r].state = s
         /\ \A q \in Revocation : intent'[q].issuer = intent[q].issuer
         /\ \A q \in Revocation \ {r} : intent'[q] = intent[q]
<1> DEFINE i == [intent[r] EXCEPT !.state = s]
<1>1. intent \in [Revocation -> Intents] /\ intent[r] \in Intents
  BY DEF MemberInv, Types
<1>2. i.state = s /\ i.issuer = intent[r].issuer /\ intent' = [intent EXCEPT ![r] = i]
  BY <1>1 DEF Intents
<1> HIDE DEF i
<1>3. intent'[r] = i /\ \A q \in Revocation \ {r} : intent'[q] = intent[q]
  BY <1>1, <1>2
<1>4. IntentsOn
  BY <1>2, <1>3 DEF IntentsOn, Unsent
<1>5. NothingSent /\ PairingsOn
  BY DEF NothingSent, PairingsOn
<1> QED BY <1>2, <1>3, <1>4, <1>5, NothingSentKeeps DEF CallInv

(* The call about a revocation ends and its intent is settled; it was the  *)
(* only one that the daemon was submitting.                                *)
LEMMA SettledCalls ==
  ASSUME MemberInv, CallInv, NEW d \in Device, NEW r \in Revocation,
         intent[r].state \notin {"none", "prepared"},
         work[d].op = "revoke" => work[d].id = r,
         NEW s \in IntentState \ Unsent, s # "submitting",
         intent' = [intent EXCEPT ![r].state = s], Die(d) \/ Finish(d),
         UNCHANGED <<invite, pushed, wire, approval, sends, calls>>
  PROVE  CallInv'
<1>1. /\ SetAside' /\ Numbered' /\ intent'[r].state = s
      /\ \A q \in Revocation : intent'[q].issuer = intent[q].issuer
      /\ \A q \in Revocation \ {r} : intent'[q] = intent[q]
  BY SettleCalls
<1>2. /\ work' = [work EXCEPT ![d] = Idle] /\ work \in [Device -> Works]
      /\ daemon \in [Device -> {"up", "down", "failed"}] /\ crashes \in Nat
  BY EndTypes DEF MemberInv, Types
<1>3. /\ \A e \in Device \ {d} : work'[e] = work[e] /\ daemon'[e] = daemon[e]
      /\ daemon'[d] = "up" => daemon[d] = "up"
  BY <1>2 DEF Die, Finish
<1>4. Awaited'
  <2>1. \A q \in Revocation : intent[q].state = "submitting" => intent[q].issuer \in Device
    BY DEF MemberInv, IntentInOrder
  <2>2. \A q \in Revocation : intent'[q].state = "submitting" =>
           /\ intent'[q].issuer \in Device
           /\ intent[q].state = "submitting" /\ intent'[q].issuer = intent[q].issuer
    BY <1>1, <2>1
  <2>3. \A e \in Device : daemon'[e] = "up" =>
           /\ daemon[e] = "up"
           /\ work[e].op = "revoke" =>
                 \/ work'[e].op = "revoke" /\ work'[e].id = work[e].id
                 \/ intent'[work[e].id].state # "submitting"
    BY <1>1, <1>3
  <2> QED BY <2>2, <2>3, AwaitedOn DEF CallInv
<1>5. Bounded'
  BY <1>2, MembershipAssumption DEF CallInv, Bounded, Die, Finish
<1> QED BY <1>1, <1>4, <1>5 DEF CallInv

LEMMA ApplyCalls ==
  ASSUME MemberInv, CallInv, NEW d \in Device, NEW r \in Revocation,
         intent[r].state \notin {"none", "prepared"},
         work[d].op = "revoke" => work[d].id = r, Apply(d, r),
         UNCHANGED <<service, wire, approval, joining, sends, calls>>
  PROVE  CallInv'
<1>1. PICK s \in IntentState \ Unsent : s = "accepted"
  BY DEF IntentState, Unsent
<1>2. intent' = [intent EXCEPT ![r].state = s] /\ (Die(d) \/ Finish(d))
  BY <1>1 DEF Apply
<1>3. UNCHANGED <<invite, pushed, wire, approval, sends, calls>>
  BY DEF service
<1> QED BY <1>1, <1>2, <1>3, SettledCalls

LEMMA ReceiveRevocationCalls ==
  ASSUME MemberInv, CallInv, NEW d \in Device, ReceiveRevocation(d)
  PROVE  CallInv'
<1> DEFINE r == work[d].id
<1>1. /\ work[d].op = "revoke" /\ UNCHANGED <<service, wire, approval, joining, sends, calls>>
  BY DEF ReceiveRevocation
<1>2. r \in Revocation /\ intent[r].state \notin Unsent
  BY <1>1 DEF MemberInv, RequestsAreStored, AboutStored
<1>3. intent[r].state \notin {"none", "prepared"}
  BY <1>2 DEF Unsent
<1>4. \/ Apply(d, r)
      \/ intent' = [intent EXCEPT ![r].state = "conflict"] /\ Finish(d)
      \/ intent' = [intent EXCEPT ![r].state = "unconfirmed"] /\ Finish(d)
  BY DEF ReceiveRevocation
<1>5. {"conflict", "unconfirmed"} \subseteq IntentState \ Unsent
  BY DEF IntentState, Unsent
<1>6. UNCHANGED <<invite, pushed, wire, approval, sends, calls>>
  BY <1>1 DEF service
<1> HIDE DEF r
<1>7. work[d].id = r
  BY DEF r
<1>8. CASE Apply(d, r)
  BY <1>1, <1>2, <1>3, <1>7, <1>8, ApplyCalls
<1>9. ASSUME NEW s \in IntentState \ Unsent, s # "submitting",
             intent' = [intent EXCEPT ![r].state = s], Finish(d)
      PROVE  CallInv'
  BY <1>2, <1>3, <1>6, <1>7, <1>9, SettledCalls
<1> QED BY <1>4, <1>5, <1>8, <1>9

LEMMA TimeoutCalls ==
  ASSUME MemberInv, CallInv, NEW d \in Device, Timeout(d)
  PROVE  CallInv'
<1>1. /\ Finish(d) /\ UNCHANGED <<invite, pushed, wire, approval, sends, calls>>
  BY DEF Timeout, service
<1>2. CASE work[d].op = "revoke"
  <2> DEFINE r == work[d].id
  <2>1. r \in Revocation /\ intent[r].state \notin Unsent
    BY <1>2 DEF MemberInv, RequestsAreStored, AboutStored
  <2>2. intent[r].state \notin {"none", "prepared"}
    BY <2>1 DEF Unsent
  <2>3. PICK s \in IntentState \ Unsent : s = "unconfirmed"
    BY DEF IntentState, Unsent
  <2>4. intent' = [intent EXCEPT ![r].state = s]
    BY <1>2, <2>3 DEF Timeout
  <2> HIDE DEF r
  <2>5. work[d].id = r
    BY DEF r
  <2> QED BY <1>1, <2>1, <2>2, <2>3, <2>4, <2>5, SettledCalls
<1>3. CASE work[d].op # "revoke"
  <2>1. UNCHANGED intent
    BY <1>3 DEF Timeout
  <2>2. Awaited' /\ Bounded'
    BY <1>1, <1>3, <2>1, EndsOther
  <2>3. NothingSent /\ PairingsOn /\ IntentsOn
    BY <1>1, <2>1 DEF NothingSent, PairingsOn, IntentsOn
  <2> QED BY <2>2, <2>3, NothingSentKeeps DEF CallInv
<1> QED BY <1>2, <1>3

LEMMA RevocationStatusCalls ==
  ASSUME MemberInv, CallInv, NEW d \in Device, NEW r \in Revocation, RevocationStatus(d, r)
  PROVE  CallInv'
<1>1. /\ work[d].op # "revoke" /\ intent[r].state = "unconfirmed" /\ Apply(d, r)
      /\ UNCHANGED <<service, wire, approval, joining, sends, calls>>
  BY DEF RevocationStatus, Ready, Idle
<1> QED BY <1>1, ApplyCalls

(* What else the daemons do.                                               *)
LEMMA CancelCalls ==
  ASSUME MemberInv, CallInv, NEW d \in Device, NEW r \in Revocation, CancelRevocation(d, r)
  PROVE  CallInv'
<1>1. /\ work[d].op # "revoke" /\ intent[r].state \in {"prepared", "unconfirmed"}
      /\ UNCHANGED <<invite, pushed, wire, approval, daemon, work, sends, calls, crashes>>
  BY DEF CancelRevocation, Ready, Idle, service
<1> DEFINE s == IF intent[r].state = "prepared" THEN "canceled_before_send" ELSE intent[r].state
           i == [intent[r] EXCEPT !.canceled = TRUE, !.state = s]
<1>2. intent \in [Revocation -> Intents] /\ intent[r] \in Intents
  BY DEF MemberInv, Types
<1>3. intent' = [intent EXCEPT ![r] = i]
  BY DEF CancelRevocation
<1>4. i.state = s /\ i.issuer = intent[r].issuer
  BY <1>2 DEF Intents
<1>5. s \in {"canceled_before_send", "unconfirmed"}
  BY <1>1
<1> HIDE DEF s, i
<1>6. intent'[r] = i /\ \A q \in Revocation \ {r} : intent'[q] = intent[q]
  BY <1>2, <1>3
<1>7. NothingSent /\ PairingsOn
  BY <1>1 DEF NothingSent, PairingsOn
<1>8. IntentsOn
  BY <1>1, <1>4, <1>5, <1>6 DEF IntentsOn
<1>9. Awaited'
  <2>1. \A q \in Revocation : intent[q].state = "submitting" => intent[q].issuer \in Device
    BY DEF MemberInv, IntentInOrder
  <2>2. \A q \in Revocation : intent'[q].state = "submitting" =>
           intent'[q].issuer \in Device
           /\ intent[q].state = "submitting" /\ intent'[q].issuer = intent[q].issuer
    BY <1>4, <1>5, <1>6, <2>1
  <2>3. \A e \in Device : daemon'[e] = "up" =>
           /\ daemon[e] = "up"
           /\ work[e].op = "revoke" => work'[e].op = "revoke" /\ work'[e].id = work[e].id
    BY <1>1
  <2> QED BY <2>2, <2>3, AwaitedOn DEF CallInv
<1>10. Bounded'
  BY <1>1 DEF CallInv, Bounded
<1> QED BY <1>7, <1>8, <1>9, <1>10, NothingSentKeeps DEF CallInv

LEMMA CrashCalls ==
  ASSUME MemberInv, CallInv, NEW d \in Device, Crash(d)
  PROVE  CallInv'
<1>1. Die(d) /\ UNCHANGED <<invite, pushed, wire, approval, intent, sends, calls>>
  BY DEF Crash, service, vault
<1>2. /\ work \in [Device -> Works] /\ daemon \in [Device -> {"up", "down", "failed"}]
      /\ crashes \in Nat
  BY DEF MemberInv, Types
<1>3. /\ \A e \in Device \ {d} : work'[e] = work[e] /\ daemon'[e] = daemon[e]
      /\ daemon'[d] = "down"
  BY <1>1, <1>2 DEF Die
<1>4. Awaited'
  BY <1>1, <1>3, AwaitedStays DEF CallInv
<1>5. Bounded'
  BY <1>1, <1>2, MembershipAssumption DEF CallInv, Bounded, Die
<1>6. NothingSent /\ PairingsOn /\ IntentsOn
  BY <1>1 DEF NothingSent, PairingsOn, IntentsOn
<1> QED BY <1>4, <1>5, <1>6, NothingSentKeeps DEF CallInv

(* A startup leaves none of the device's intents as being submitted.       *)
LEMMA StartCalls ==
  ASSUME MemberInv, CallInv, NEW d \in Device, Start(d)
  PROVE  CallInv'
<1>1. /\ intent' = Recovered(d)
      /\ UNCHANGED <<invite, pushed, wire, approval, work, sends, calls, crashes>>
  BY DEF Start, service
<1>2. /\ intent \in [Revocation -> Intents] /\ daemon \in [Device -> {"up", "down", "failed"}]
  BY DEF MemberInv, Types
<1>3. \A e \in Device \ {d} : daemon'[e] = daemon[e]
  BY <1>2 DEF Start
<1>4. ASSUME NEW q \in Revocation
      PROVE  /\ intent'[q].issuer = intent[q].issuer
             /\ intent'[q].state = intent[q].state \/
                   (intent[q].state = "submitting" /\ intent'[q].state = "unconfirmed")
             /\ intent[q].issuer = d => intent'[q].state # "submitting"
  <2> DEFINE i == [intent[q] EXCEPT !.state = "unconfirmed"]
  <2>1. intent[q] \in Intents
    BY <1>2
  <2>2. i.state = "unconfirmed" /\ i.issuer = intent[q].issuer
    BY <2>1 DEF Intents
  <2>3. intent'[q] = IF intent[q].issuer = d /\ intent[q].state = "submitting"
                     THEN i ELSE intent[q]
    BY <1>1 DEF Recovered
  <2> HIDE DEF i
  <2> QED BY <2>2, <2>3
<1>5. NothingSent /\ PairingsOn
  BY <1>1 DEF NothingSent, PairingsOn
<1>6. IntentsOn
  BY <1>4 DEF IntentsOn
<1>7. Awaited'
  <2>1. \A q \in Revocation : intent[q].state = "submitting" => intent[q].issuer \in Device
    BY DEF MemberInv, IntentInOrder
  <2>2. \A q \in Revocation : intent'[q].state = "submitting" =>
           intent'[q].issuer \in Device
           /\ intent[q].state = "submitting" /\ intent'[q].issuer = intent[q].issuer
    BY <1>4, <2>1
  <2>3. \A e \in Device : daemon'[e] = "up" =>
           \/ /\ daemon[e] = "up"
              /\ work[e].op = "revoke" => work'[e].op = "revoke" /\ work'[e].id = work[e].id
           \/ \A q \in Revocation : intent'[q].issuer = e => intent'[q].state # "submitting"
    BY <1>1, <1>3, <1>4
  <2> QED BY <2>2, <2>3, AwaitedOn DEF CallInv
<1>8. Bounded'
  BY <1>1 DEF CallInv, Bounded
<1> QED BY <1>5, <1>6, <1>7, <1>8, NothingSentKeeps DEF CallInv

LEMMA PushCalls ==
  ASSUME MemberInv, CallInv, NEW d \in Device, Push(d)
  PROVE  CallInv'
<1>1. /\ pushed[d] < MaxPushes /\ pushed' = [pushed EXCEPT ![d] = @ + 1]
      /\ UNCHANGED <<invite, wire, approval, intent, daemon, work, sends, calls, crashes>>
  BY DEF Push, vault
<1>2. pushed \in [Device -> Nat] /\ MaxPushes \in Nat
  BY MembershipAssumption DEF MemberInv, Types
<1>3. pushed'[d] = pushed[d] + 1 /\ \A e \in Device \ {d} : pushed'[e] = pushed[e]
  BY <1>1, <1>2
<1>4. pushed[d] \in Nat
  BY <1>2
<1>5. pushed'[d] <= MaxPushes
  BY <1>1, <1>2, <1>3, <1>4
<1>6. Bounded'
  BY <1>1, <1>3, <1>5 DEF CallInv, Bounded
<1>7. NothingSent /\ PairingsOn /\ IntentsOn
  BY <1>1 DEF NothingSent, PairingsOn, IntentsOn
<1>8. Awaited'
  BY <1>1, AwaitedStays DEF CallInv
<1> QED BY <1>6, <1>7, <1>8, NothingSentKeeps DEF CallInv

LEMMA NextCalls ==
  ASSUME MemberInv, CallInv, [Next]_vars
  PROVE  CallInv'
<1>1. ASSUME NEW p \in Pairing, NEW d \in Device,
             CreateInvite(d, p) \/ Withdraw(d, p) \/ Expire(p) \/ Join(d, p)
      PROVE  CallInv'
  BY <1>1, PairingCalls
<1>2. ASSUME NEW p \in Pairing, NEW d \in Device,
             PrepareApproval(d, p) \/ ResumeApproval(d, p)
      PROVE  CallInv'
  BY <1>2, ApprovalCalls
<1>3. ASSUME NEW p \in Pairing, NEW d \in Device,
             JoinStatus(d, p) \/ ConfirmJoin(d, p) \/ ResumeJoin(d, p)
      PROVE  CallInv'
  BY <1>3, EndingCalls
<1>4. ASSUME NEW r \in Revocation, NEW d \in Device, NEW t \in Device, PrepareRevocation(d, r, t)
      PROVE  CallInv'
  BY <1>4, PrepareRevocationCalls
<1>5. ASSUME NEW r \in Revocation, NEW d \in Device,
             Publish(d, r) \/ RevocationStatus(d, r) \/ CancelRevocation(d, r)
      PROVE  CallInv'
  BY <1>5, PublishCalls, RevocationStatusCalls, CancelCalls
<1>6. ASSUME NEW m \in wire,
             VerifyApproval(m) \/ ServeApproval(m) \/ VerifyRevocation(m) \/ PublishRevocation(m)
      PROVE  CallInv'
  BY <1>6, ServiceCalls
<1>7. ASSUME NEW d \in Device,
             \/ ReceiveApproval(d) \/ ReceiveRevocation(d) \/ Timeout(d)
             \/ Reconcile(d) \/ Crash(d) \/ Start(d) \/ Push(d)
      PROVE  CallInv'
  BY <1>7, EndingCalls, ReceiveRevocationCalls, TimeoutCalls, CrashCalls, StartCalls, PushCalls
<1>8. CASE UNCHANGED vars
  <2>1. UNCHANGED <<invite, pushed, wire, approval, intent, daemon, work, sends, calls, crashes>>
    BY <1>8 DEF vars, service, vault
  <2>2. NothingSent /\ PairingsOn /\ IntentsOn
    BY <2>1 DEF NothingSent, PairingsOn, IntentsOn
  <2>3. Awaited' /\ Bounded'
    BY <2>1, AwaitedStays DEF CallInv, Bounded
  <2> QED BY <2>2, <2>3, NothingSentKeeps DEF CallInv
<1>9. Device # {}
  BY MembershipAssumption
<1> QED BY <1>1, <1>2, <1>3, <1>4, <1>5, <1>6, <1>7, <1>8, <1>9 DEF Next

(* Every variable keeps its type and stays within its bound, every call on *)
(* the wire has a number that its sender gave out, and a daemon that runs  *)
(* waits for each revocation that its vault says it is submitting          *)
(* (begin_device_revocation_submission, and                                *)
(* recover_device_revocation_submissions after a death).                   *)
THEOREM MembershipTypes == Spec => []TypeOK
<1>1. Init => CallInv
  <2> SUFFICES ASSUME Init PROVE CallInv
    OBVIOUS
  <2>1. SetAside /\ Awaited
    BY DEF Init, SetAside, Awaited, Ids
  <2>2. Numbered /\ Bounded
    BY MembershipAssumption DEF Init, Numbered, Bounded, Ids
  <2> QED BY <2>1, <2>2 DEF CallInv
<1>2. MemberInv /\ CallInv /\ [Next]_vars => CallInv'
  BY NextCalls
<1>3. MemberInv /\ CallInv => TypeOK
  <2> SUFFICES ASSUME MemberInv, CallInv PROVE TypeOK
    OBVIOUS
  <2>1. Types /\ {MaxCalls, MaxPushes, MaxCrashes} \subseteq Nat
    BY MembershipAssumption DEF MemberInv
  <2>2. \A p \in Pairing :
          /\ invite[p].state \in InviteState
          /\ invite[p].issuer \in Device \union {None}
          /\ invite[p].joiner \in Device \union {None}
          /\ approval[p].state \in {"none", "prepared", "accepted"}
          /\ joining[p].state \in {"none", "requested", "awaiting", "confirmed", "completed"}
    <3> SUFFICES ASSUME NEW p \in Pairing
                 PROVE  /\ invite[p].state \in InviteState
                        /\ invite[p].issuer \in Device \union {None}
                        /\ invite[p].joiner \in Device \union {None}
                        /\ approval[p].state \in {"none", "prepared", "accepted"}
                        /\ joining[p].state \in
                              {"none", "requested", "awaiting", "confirmed", "completed"}
      OBVIOUS
    <3>1. invite[p] \in Invites /\ approval[p] \in Approvals /\ joining[p] \in Joinings
      BY <2>1 DEF Types
    <3> QED BY <3>1 DEF Invites, Approvals, Joinings, Someone
  <2>3. pushed \in [Device -> 0 .. MaxPushes]
    <3>1. \A d \in Device : pushed[d] \in 0 .. MaxPushes
      BY <2>1 DEF Types, CallInv, Bounded
    <3> QED BY <2>1, <3>1 DEF Types
  <2>4. ASSUME NEW m \in wire
        PROVE  m.n \in 1 .. MaxCalls /\ m.stage \in {"sent", "verified"}
    <3>1. m.n \in Nat /\ m.id \in Ids /\ m.stage \in {"sent", "verified"}
      BY <2>1 DEF Types, Messages
    <3>2. /\ sends[m.id] \in Nat /\ sends[m.id] <= calls /\ calls \in 0 .. MaxCalls
          /\ 0 < m.n /\ m.n <= sends[m.id]
      BY <2>1, <3>1 DEF Types, CallInv, Numbered
    <3> QED BY <2>1, <3>1, <3>2
  <2>5. \A d \in Device : control[d] \subseteq Revocation /\ activated[d] \in Nat
    BY <2>1 DEF Types
  <2>6. \A r \in Revocation :
          /\ intent[r].state \in IntentState
          /\ intent[r].state = "submitting" /\ daemon[intent[r].issuer] = "up"
                 => work[intent[r].issuer].id = r
    <3>1. \A r \in Revocation : intent[r] \in Intents
      BY <2>1 DEF Types
    <3>2. \A r \in Revocation : intent[r].state \in IntentState
      BY <3>1 DEF Intents
    <3> QED BY <3>2 DEF CallInv, Awaited
  <2>7. /\ daemon \in [Device -> {"up", "down", "failed"}]
        /\ calls \in 0 .. MaxCalls /\ crashes \in 0 .. MaxCrashes
    BY <2>1 DEF Types, CallInv, Numbered, Bounded
  <2> QED BY <2>2, <2>3, <2>4, <2>5, <2>6, <2>7 DEF TypeOK
<1> QED BY <1>1, <1>2, <1>3, MemberInvariant, PTL DEF Spec

===============================================================================
