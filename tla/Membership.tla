----------------------------- MODULE Membership -----------------------------
(***************************************************************************)
(* Who belongs to a workspace: pairing (version 2 approvals), the signed    *)
(* membership history and device revocation, composed.  Each device keeps   *)
(* its copy of the history, its keys and its unfinished work in its vault   *)
(* (core vault/membership, pairing_v2, revocation); its daemon serves one   *)
(* request at a time (contextd pairing.rs) and talks to the hosted service, *)
(* an edge function in front of SQL transactions that own the one head of   *)
(* the history.  Requests may arrive after the caller stopped waiting, and  *)
(* answers may be lost.                                                     *)
(*                                                                          *)
(* A state hash is the sequence of events it commits to.  An event carries  *)
(* the epoch its issuer signed for.  Admissions keep the epoch; a           *)
(* revocation starts the next one with new keys.                            *)
(***************************************************************************)
EXTENDS Naturals, Sequences, FiniteSets, SequencesExt

CONSTANTS
    Device,       \* all devices
    Genesis,      \* the device that enrolled the workspace
    Peers,        \* devices admitted before the model starts
    Pairing,      \* pairing identifiers
    Revocation,   \* revocation operation identifiers
    None,
    MaxCalls,     \* decisions and revocations sent to the service
    MaxPushes,    \* operations each device appends
    MaxCrashes    \* deaths of a daemon

ASSUME MembershipAssumption ==
    /\ Genesis \in Device
    /\ Peers \subseteq Device \ {Genesis} /\ IsFiniteSet(Peers)
    /\ Pairing \intersect Revocation = {}
    /\ (Pairing \union Revocation) \intersect Device = {}
    /\ None \notin Device
    /\ {MaxCalls, MaxPushes, MaxCrashes} \subseteq Nat

VARIABLES
    chain,      \* the service's membership head
    invite,     \* the service's row of each pairing
    pushed,     \* operations of each device the service holds
    wire,       \* decisions and revocations on their way or being handled
    hist,       \* each vault's accepted history, empty before admission
    activated,  \* the epoch of each vault's activated keys, 0 for none
    control,    \* revocations in each vault's control history
    approval,   \* the approver's transcript of each pairing
    joining,    \* the joiner's join row and transcript of each pairing
    intent,     \* the issuer's revocation intents
    daemon,     \* whether each daemon runs
    work,       \* the service call each daemon waits for
    sends,      \* calls made so far for each pairing and revocation
    calls,      \* calls made or set aside, over all of them
    crashes     \* deaths of a daemon so far

service == <<chain, invite, pushed>>
vault == <<hist, activated, control, approval, joining, intent>>
vars == <<service, wire, vault, daemon, work, sends, calls, crashes>>

----------------------------------------------------------------------------
(* Histories. *)

Add(p, by, dev, epoch) ==
    [kind |-> "add", id |-> p, by |-> by, dev |-> dev, epoch |-> epoch, cutoff |-> 0]
Revoke(r, by, dev, epoch, cutoff) ==
    [kind |-> "revoke", id |-> r, by |-> by, dev |-> dev, epoch |-> epoch, cutoff |-> cutoff]

Of(h, kind) == {i \in DOMAIN h : h[i].kind = kind}
Admitted(h) == {h[i].dev : i \in Of(h, "add")}
Active(h) == Admitted(h) \ {h[i].dev : i \in Of(h, "revoke")}
Epoch(h) == 1 + Cardinality(Of(h, "revoke"))
Has(h, id) == \E i \in DOMAIN h : h[i].id = id

\* The epoch of a member's certificate, which a revocation never reissues.
CertEpoch(d, h) == h[CHOOSE i \in Of(h, "add") : h[i].dev = d].epoch

Founding ==
    <<Add(Genesis, Genesis, Genesis, 1)>> \o
    SetToSeq({Add(d, Genesis, d, 1) : d \in Peers})

----------------------------------------------------------------------------
(* What a device may do. *)

\* load_secret: admission and enrolment keep the keys of the device's own certificate;
\* no caller stages the keys of a later rotation.
Staged(d, epoch) == epoch = CertEpoch(d, hist[d])

\* trusted_workspace_material: activated keys of the current epoch, or the enrolled ones.
Material(d) ==
    \/ activated[d] = Epoch(hist[d])
    \/ activated[d] = 0 /\ d = Genesis /\ Epoch(hist[d]) = 1

\* authority: Some, None and Err.
HasAuthority(d) ==
    /\ d \in Active(hist[d])
    /\ Material(d)
    /\ CertEpoch(d, hist[d]) = Epoch(hist[d])
NoAuthority(d) == d \notin Active(hist[d])
Usable(d) == HasAuthority(d) \/ NoAuthority(d)

Idle == [op |-> "idle", id |-> None, n |-> 0, answer |-> "none"]
Ready(d) == daemon[d] = "up" /\ work[d] = Idle

\* Mutant: only the epoch is compared.
HeadEpochIs(parent) == Epoch(chain) = Epoch(parent)

\* What the service compares with the head before it commits a successor.
HeadIs(parent) == chain = parent

\* lock_current_membership_member
Member(d) == d \in Active(chain)

\* service_control_pairing_invite: the issuer is a member and no rotation intervened.
InviteLive(p) == Member(invite[p].issuer) /\ invite[p].epoch = Epoch(chain)

\* A daemon that dies within a request; the caller says what is already durable.
Die(d) ==
    /\ crashes < MaxCrashes
    /\ crashes' = crashes + 1
    /\ daemon' = [daemon EXCEPT ![d] = "down"]
    /\ work' = [work EXCEPT ![d] = Idle]

Finish(d) ==
    /\ work' = [work EXCEPT ![d] = Idle]
    /\ UNCHANGED <<daemon, crashes>>

\* The bound on calls; an invitation and a stored intent set their first one aside.
Spend == calls < MaxCalls /\ calls' = calls + 1

\* One blocking call of at most fifteen seconds.
Send(d, op, id) ==
    /\ sends' = [sends EXCEPT ![id] = @ + 1]
    /\ wire' = wire \union {[op |-> op, id |-> id, n |-> sends'[id], stage |-> "sent"]}
    /\ work' = [work EXCEPT ![d] = [op |-> op, id |-> id, n |-> sends'[id], answer |-> "none"]]

\* The handler of m ends; its answer reaches a caller that still waits for it.
Answer(d, m, answer) ==
    /\ wire' = wire \ {m}
    /\ work' = IF work[d].id = m.id /\ work[d].n = m.n
                THEN [work EXCEPT ![d].answer = answer] ELSE work

----------------------------------------------------------------------------
Init ==
    /\ chain = Founding
    /\ invite = [p \in Pairing |->
           [state |-> "none", issuer |-> None, epoch |-> 0, joiner |-> None, requested |-> FALSE]]
    /\ pushed = [d \in Device |-> 0]
    /\ wire = {}
    /\ hist = [d \in Device |-> IF d \in Active(Founding) THEN Founding ELSE <<>>]
    /\ activated = [d \in Device |-> IF d \in Peers THEN 1 ELSE 0]
    /\ control = [d \in Device |-> {}]
    /\ approval = [p \in Pairing |-> [state |-> "none", parent |-> <<>>]]
    /\ joining = [p \in Pairing |-> [state |-> "none", cached |-> FALSE]]
    /\ intent = [r \in Revocation |->
           [state |-> "none", issuer |-> None, target |-> None, parent |-> <<>>,
            cutoff |-> 0, canceled |-> FALSE]]
    /\ daemon = [d \in Device |-> "up"]
    /\ work = [d \in Device |-> Idle]
    /\ sends = [id \in Pairing \union Revocation |-> 0]
    /\ calls = 0 /\ crashes = 0

----------------------------------------------------------------------------
(* Invitations. *)

CreateInvite(d, p) ==
    /\ Ready(d) /\ HasAuthority(d) /\ Member(d)
    /\ invite[p].state = "none" /\ Spend
    /\ invite' = [invite EXCEPT ![p].state = "pending", ![p].issuer = d, ![p].epoch = Epoch(chain)]
    /\ UNCHANGED <<chain, pushed, wire, vault, daemon, work, sends, crashes>>

\* Cancel, reject and expiry close an invitation alike.  Rejecting leaves nothing in the
\* vault: finish_pairing_decision refuses one that has a membership history, and the
\* approver sees an error although the service has rejected.
Withdraw(d, p) ==
    /\ Ready(d) /\ HasAuthority(d)
    /\ invite[p].issuer = d /\ InviteLive(p)
    /\ invite[p].state = "pending"
    /\ invite' = [invite EXCEPT ![p].state = "closed"]
    /\ UNCHANGED <<chain, pushed, wire, vault, daemon, work, sends, calls, crashes>>

Expire(p) ==
    /\ invite[p].state = "pending"
    /\ invite' = [invite EXCEPT ![p].state = "closed"]
    /\ UNCHANGED <<chain, pushed, wire, vault, daemon, work, sends, calls, crashes>>

\* join: the code is located for this session and the signed request becomes durable
\* before it is submitted, which may fail.
Join(d, p) ==
    /\ Ready(d) /\ NoAuthority(d)
    /\ invite[p].state = "pending" /\ InviteLive(p)
    /\ invite[p].joiner \in {None, d} /\ ~invite[p].requested
    /\ joining' = [joining EXCEPT ![p].state = "requested"]
    /\ \E submitted \in BOOLEAN :
           invite' = [invite EXCEPT ![p].joiner = d, ![p].requested = submitted]
    /\ UNCHANGED <<chain, pushed, wire, hist, activated, control, approval, intent,
                   daemon, work, sends, calls, crashes>>

----------------------------------------------------------------------------
(* Approval. *)

AdmissionOf(p) == Add(p, invite[p].issuer, invite[p].joiner, Epoch(approval[p].parent))

\* decide_v2: the approver's history must be the service's head; the signed approval is
\* stored before it is sent.
PrepareApproval(d, p) ==
    /\ Ready(d) /\ HasAuthority(d) /\ Member(d)
    /\ invite[p].issuer = d /\ invite[p].requested
    /\ approval[p].state = "none"
    /\ HeadIs(hist[d])
    /\ invite[p].joiner \notin Active(hist[d])
    /\ approval' = [approval EXCEPT ![p] = [state |-> "prepared", parent |-> hist[d]]]
    /\ Send(d, "approve", p)
    /\ UNCHANGED <<service, hist, activated, control, joining, intent, daemon, calls, crashes>>

\* require_v2_issuer and accepted_pairing_v2_endpoint
MayResume(d, p) ==
    LET parent == approval[p].parent
    IN  /\ d \in Active(hist[d])
        /\ Epoch(hist[d]) = Epoch(parent)
        /\ hist[d] = parent \/ (Has(hist[d], p) /\ invite[p].joiner \in Active(hist[d]))

\* resume_prepared_decision, on every status or decision request for the pairing
ResumeApproval(d, p) ==
    /\ Ready(d) /\ HasAuthority(d)
    /\ invite[p].issuer = d
    /\ approval[p].state = "prepared"
    /\ MayResume(d, p)
    /\ Spend
    /\ Send(d, "approve", p)
    /\ UNCHANGED <<service, vault, daemon, crashes>>

\* The edge verifies a decision against the head or, for one already committed, against
\* the parent it was committed to ...
VerifyApproval(m) ==
    LET p == m.id
        Verified == InviteLive(p) /\ (invite[p].state = "approved" \/ HeadIs(approval[p].parent))
    IN  /\ m.op = "approve" /\ m.stage = "sent"
        /\ \/ /\ Verified
              /\ wire' = (wire \ {m}) \union {[m EXCEPT !.stage = "verified"]}
              /\ UNCHANGED work
           \/ /\ ~Verified
              /\ Answer(invite[p].issuer, m, "refused")
        /\ UNCHANGED <<service, vault, daemon, sends, calls, crashes>>

\* Mutant: the transaction trusts what the edge has verified.
UndecidedTrusted(p) ==
    invite[p].state = "pending" /\ invite[p].joiner \notin Admitted(chain)

\* ... and service_decide_pairing_request_v2 checks again before it commits.
Undecided(p) ==
    /\ InviteLive(p) /\ invite[p].state = "pending"
    /\ HeadIs(approval[p].parent)
    /\ invite[p].joiner \notin Admitted(chain)

ServeApproval(m) ==
    LET p == m.id
        d == invite[p].issuer
        Repeated == Member(d) /\ invite[p].state = "approved"
    IN  /\ m.op = "approve" /\ m.stage = "verified"
        /\ \/ /\ Undecided(p)
              /\ chain' = Append(chain, AdmissionOf(p))
              /\ invite' = [invite EXCEPT ![p].state = "approved"]
              /\ Answer(d, m, "receipt")
           \/ /\ Repeated
              /\ Answer(d, m, "receipt")
              /\ UNCHANGED <<chain, invite>>
           \/ /\ ~Undecided(p) /\ ~Repeated
              /\ Answer(d, m, "refused")
              /\ UNCHANGED <<chain, invite>>
        /\ UNCHANGED <<pushed, vault, daemon, sends, calls, crashes>>

\* Mutant: the transcript is marked first.
ReceiveApprovalMarkedFirst(d) ==
    LET p == work[d].id
    IN  /\ daemon[d] = "up" /\ work[d].op = "approve" /\ work[d].answer = "receipt"
        /\ approval' = [approval EXCEPT ![p].state = "accepted"]
        /\ \/ hist' = [hist EXCEPT ![d] = Append(approval[p].parent, AdmissionOf(p))] /\ Finish(d)
           \/ Die(d) /\ UNCHANGED hist
        /\ UNCHANGED <<service, wire, activated, control, joining, intent, sends, calls>>

\* The receipt extends the history and then marks the transcript, in two transactions.
ReceiveApproval(d) ==
    LET p == work[d].id
        Extended == IF Has(hist[d], p) THEN hist
                    ELSE [hist EXCEPT ![d] = Append(approval[p].parent, AdmissionOf(p))]
    IN  /\ daemon[d] = "up" /\ work[d].op = "approve"
        /\ \/ /\ work[d].answer = "refused"
              /\ Finish(d)
              /\ UNCHANGED <<hist, approval>>
           \/ /\ work[d].answer = "receipt"
              /\ hist' = Extended
              /\ approval' = [approval EXCEPT ![p].state = "accepted"]
              /\ Finish(d)
           \/ /\ work[d].answer = "receipt"
              /\ hist' = Extended
              /\ Die(d)
              /\ UNCHANGED approval
        /\ UNCHANGED <<service, wire, activated, control, joining, intent, sends, calls>>

----------------------------------------------------------------------------
(* The joining device. *)

\* join_status: the approval and, if it can be fetched, its whole proof are cached.
JoinStatus(d, p) ==
    /\ Ready(d) /\ NoAuthority(d)
    /\ invite[p].joiner = d /\ joining[p].state = "requested"
    /\ invite[p].state = "approved" /\ Member(d)
    /\ hist[d] = <<>>
    /\ \E cached \in BOOLEAN :
           joining' = [joining EXCEPT ![p] = [state |-> "awaiting", cached |-> cached]]
    /\ UNCHANGED <<service, wire, hist, activated, control, approval, intent,
                   daemon, work, sends, calls, crashes>>

\* require_pristine_join: no trace of another pairing in this vault
Pristine(d, p) ==
    \A q \in Pairing \ {p} : invite[q].joiner = d => joining[q].state = "none"

\* confirm_join that ends with the signed comparison alone: the proof cannot be fetched,
\* the admission is refused, or the daemon dies.
ConfirmJoin(d, p) ==
    /\ Ready(d) /\ Usable(d)
    /\ invite[p].joiner = d /\ joining[p].state = "awaiting"
    /\ joining' = [joining EXCEPT ![p].state = "confirmed"]
    /\ IF joining[p].cached /\ Pristine(d, p) THEN Die(d) ELSE Finish(d)
    /\ UNCHANGED <<service, wire, hist, activated, control, approval, intent, sends, calls>>

\* resume_confirmed_join, after the comparison or on a later status request: admission,
\* activation and completion are three transactions.
ResumeJoin(d, p) ==
    LET proof == joining[p].cached \/ Member(d)
        admitted == Append(approval[p].parent, AdmissionOf(p))
    IN  /\ Ready(d) /\ Usable(d)
        /\ invite[p].joiner = d /\ joining[p].state \in {"awaiting", "confirmed"}
        /\ Has(hist[d], p) \/ (proof /\ Pristine(d, p))
        /\ \E done \in 1..3 :
               /\ hist' = [hist EXCEPT ![d] = IF Has(@, p) THEN @ ELSE admitted]
               /\ activated' = IF done < 2 THEN activated
                               ELSE [activated EXCEPT ![d] = Epoch(hist'[d])]
               /\ joining' = [joining EXCEPT ![p] =
                      [state |-> IF done = 3 THEN "completed" ELSE "confirmed", cached |-> TRUE]]
               /\ IF done = 3 THEN Finish(d) ELSE Die(d)
        /\ UNCHANGED <<service, wire, control, approval, intent, sends, calls>>

----------------------------------------------------------------------------
(* Revocation. *)

Successor(r) ==
    LET i == intent[r]
    IN  Append(i.parent, Revoke(r, i.issuer, i.target, Epoch(i.parent), i.cutoff))

\* DeviceRevoke of a device that is behind: reconcile_membership accepts the service's
\* history, then activates its keys.  When they were never staged, or the target's history
\* is not synced, the request ends here; otherwise PrepareRevocation is the rest of it.
Reconcile(d) ==
    /\ Ready(d) /\ HasAuthority(d) /\ Member(d)
    /\ ~HeadIs(hist[d])
    /\ hist' = [hist EXCEPT ![d] = chain]
    /\ \/ /\ Staged(d, Epoch(chain))
          /\ activated' = [activated EXCEPT ![d] = Epoch(chain)]
          /\ Finish(d)
       \/ /\ ~Staged(d, Epoch(chain))
          /\ Finish(d)
          /\ UNCHANGED activated
       \/ Die(d) /\ UNCHANGED activated
    /\ UNCHANGED <<service, wire, control, approval, joining, intent, sends, calls>>

\* An unused operation identifier; which one makes no difference.
FreshRevocation == CHOOSE r \in Revocation : intent[r].state = "none"

\* DeviceRevoke of a new operation, after reconciliation and with the target's history
\* synced: the intent is stored, then submitted unless the login has gone.
PrepareRevocation(d, r, t) ==
    /\ Ready(d) /\ HasAuthority(d) /\ Member(d) /\ Member(t)
    /\ intent[r].state = "none" /\ r = FreshRevocation /\ Spend
    /\ HeadIs(hist[d])
    /\ \E submit \in BOOLEAN :
           /\ intent' = [intent EXCEPT ![r] =
                  [state |-> IF submit THEN "submitting" ELSE "prepared",
                   issuer |-> d, target |-> t, parent |-> chain,
                   cutoff |-> pushed[t], canceled |-> FALSE]]
           /\ IF submit THEN Send(d, "revoke", r) ELSE UNCHANGED <<wire, work, sends>>
    /\ UNCHANGED <<service, hist, activated, control, approval, joining, daemon, crashes>>

\* publish_revocation_intent for a stored intent
Publish(d, r) ==
    /\ Ready(d)
    /\ intent[r].issuer = d /\ ~intent[r].canceled
    /\ \/ intent[r].state = "prepared" /\ UNCHANGED calls
       \/ intent[r].state = "unconfirmed" /\ Spend
    /\ intent' = [intent EXCEPT ![r].state = "submitting"]
    /\ Send(d, "revoke", r)
    /\ UNCHANGED <<service, hist, activated, control, approval, joining, daemon, crashes>>

\* The edge reads the head and verifies the object against it ...
VerifyRevocation(m) ==
    LET i == intent[m.id]
    IN  /\ m.op = "revoke" /\ m.stage = "sent"
        /\ \/ /\ Member(i.issuer) /\ HeadIs(i.parent)
              /\ wire' = (wire \ {m}) \union {[m EXCEPT !.stage = "verified"]}
              /\ UNCHANGED work
           \/ /\ Member(i.issuer) /\ ~HeadIs(i.parent)
              /\ Answer(i.issuer, m, "conflict")
           \/ /\ ~Member(i.issuer)
              /\ Answer(i.issuer, m, "refused")
        /\ UNCHANGED <<service, vault, daemon, sends, calls, crashes>>

\* Mutant: operations appended since the intent was signed are not noticed.
CutoffUnchecked(r) == pushed[intent[r].target] >= intent[r].cutoff

\* ... and service_publish_revocation compares again before it commits.
CutoffHolds(r) == pushed[intent[r].target] = intent[r].cutoff

PublishRevocation(m) ==
    LET r == m.id
        i == intent[r]
        Commits == HeadIs(i.parent) /\ Member(i.target) /\ CutoffHolds(r)
    IN  /\ m.op = "revoke" /\ m.stage = "verified"
        /\ \/ /\ ~Member(i.issuer)
              /\ Answer(i.issuer, m, "refused")
              /\ UNCHANGED chain
           \/ /\ Member(i.issuer) /\ Has(chain, r)
              /\ Answer(i.issuer, m, "receipt")
              /\ UNCHANGED chain
           \/ /\ Member(i.issuer) /\ ~Has(chain, r) /\ Commits
              /\ chain' = Append(chain, Revoke(r, i.issuer, i.target, Epoch(i.parent), i.cutoff))
              /\ Answer(i.issuer, m, "receipt")
           \/ /\ Member(i.issuer) /\ ~Has(chain, r) /\ ~Commits
              /\ Answer(i.issuer, m, "conflict")
              /\ UNCHANGED chain
        /\ UNCHANGED <<invite, pushed, vault, daemon, sends, calls, crashes>>

\* apply_revocation_receipt.  The receipt, the control row, the history and the keys are
\* four transactions.  A history that already holds the event is left as it is.
AfterApply(d, r) == IF hist[d] = intent[r].parent THEN Successor(r) ELSE hist[d]

\* commit_device_revocation_control: the latest row must be the current state.
Extends(d, r) ==
    /\ hist[d] = intent[r].parent
    /\ control[d] \subseteq {r} \/ Last(hist[d]).id \in control[d]

Applies(d, r) ==
    \/ Extends(d, r)
    \/ hist[d] = Successor(r)
    \/ Has(hist[d], r) /\ r \in control[d]

\* The keys are activated unless the device has revoked itself.
ApplySucceeds(d, r) ==
    /\ Applies(d, r)
    /\ intent[r].target = d \/ Staged(d, Epoch(AfterApply(d, r)))

\* What the first n transactions leave, as far as they succeed.
Applied(d, r, n) ==
    /\ control' = IF n >= 2 /\ Extends(d, r) THEN [control EXCEPT ![d] = @ \union {r}] ELSE control
    /\ hist' = IF n >= 3 /\ Extends(d, r) THEN [hist EXCEPT ![d] = Successor(r)] ELSE hist
    /\ activated' = IF n = 4 /\ ApplySucceeds(d, r) /\ intent[r].target # d
                    THEN [activated EXCEPT ![d] = Epoch(AfterApply(d, r))] ELSE activated

Apply(d, r) ==
    /\ intent' = [intent EXCEPT ![r].state = "accepted"]
    /\ \/ Applied(d, r, 4) /\ Finish(d)
       \/ \E n \in 1..3 : Applied(d, r, n) /\ Die(d)

ReceiveRevocation(d) ==
    LET r == work[d].id
        Becomes(state) == /\ intent' = [intent EXCEPT ![r].state = state]
                          /\ Finish(d)
                          /\ UNCHANGED <<hist, activated, control>>
    IN  /\ daemon[d] = "up" /\ work[d].op = "revoke"
        /\ \/ work[d].answer = "receipt" /\ Apply(d, r)
           \/ work[d].answer = "conflict" /\ Becomes("conflict")
           \/ work[d].answer = "refused" /\ Becomes("unconfirmed")
        /\ UNCHANGED <<service, wire, approval, joining, sends, calls>>

\* Mutant: a call that fails leaves the intent submitting.
TimeoutForgotten(d) ==
    /\ daemon[d] = "up" /\ work[d].op # "idle" /\ work[d].answer = "none"
    /\ Finish(d)
    /\ UNCHANGED <<service, wire, vault, sends, calls>>

\* A call that is not answered in time; its request may still arrive.
Timeout(d) ==
    /\ daemon[d] = "up" /\ work[d].op # "idle" /\ work[d].answer = "none"
    /\ intent' = IF work[d].op = "revoke"
                 THEN [intent EXCEPT ![work[d].id].state = "unconfirmed"] ELSE intent
    /\ Finish(d)
    /\ UNCHANGED <<service, wire, hist, activated, control, approval, joining, sends, calls>>

\* Status asks for the outcome while the device still has authority.  The receipt of an
\* intent that is already accepted is applied again, which changes nothing.
RevocationStatus(d, r) ==
    /\ Ready(d) /\ HasAuthority(d) /\ Member(d)
    /\ intent[r].issuer = d /\ intent[r].state = "unconfirmed"
    /\ Has(chain, r)
    /\ Apply(d, r)
    /\ UNCHANGED <<service, wire, approval, joining, sends, calls>>

\* Mutant: an unconfirmed submission is taken for one that was never sent.
CancelUnconfirmed(d, r) ==
    /\ Ready(d)
    /\ intent[r].issuer = d /\ ~intent[r].canceled
    /\ intent[r].state \in {"prepared", "unconfirmed"}
    /\ intent' = [intent EXCEPT ![r].canceled = TRUE, ![r].state = "canceled_before_send"]
    /\ UNCHANGED <<service, wire, hist, activated, control, approval, joining,
                   daemon, work, sends, calls, crashes>>

\* The flag of an intent that is already settled is raised too, and never read again.
CancelRevocation(d, r) ==
    /\ Ready(d)
    /\ intent[r].issuer = d /\ ~intent[r].canceled
    /\ intent[r].state \in {"prepared", "unconfirmed"}
    /\ intent' = [intent EXCEPT ![r].canceled = TRUE,
                                ![r].state = IF @ = "prepared" THEN "canceled_before_send" ELSE @]
    /\ UNCHANGED <<service, wire, hist, activated, control, approval, joining,
                   daemon, work, sends, calls, crashes>>

----------------------------------------------------------------------------
(* Daemons and the sync traffic that a cutoff closes. *)

\* A daemon that dies idle, with no receipt to apply again, comes back as it was.
Crash(d) ==
    /\ daemon[d] = "up"
    /\ work[d] # Idle \/ \E r \in Revocation : intent[r].issuer = d /\ intent[r].state = "accepted"
    /\ Die(d)
    /\ UNCHANGED <<service, wire, vault, sends, calls>>

\* Mutant: startup leaves interrupted submissions as they are.
NotRecovered(d) == intent

\* Startup settles interrupted submissions, then applies every accepted receipt again.
\* A failure is fatal, and the next startup meets it again.
Recovered(d) ==
    [r \in Revocation |->
        IF intent[r].issuer = d /\ intent[r].state = "submitting"
        THEN [intent[r] EXCEPT !.state = "unconfirmed"] ELSE intent[r]]

Start(d) ==
    LET accepted == {r \in Revocation : intent[r].issuer = d /\ intent[r].state = "accepted"}
    IN  /\ daemon[d] = "down"
        /\ intent' = Recovered(d)
        /\ \/ /\ accepted = {}
              /\ daemon' = [daemon EXCEPT ![d] = "up"]
              /\ UNCHANGED <<hist, activated, control>>
           \/ \E r \in accepted :
                 /\ Applied(d, r, 4)
                 /\ daemon' = [daemon EXCEPT ![d] = IF ApplySucceeds(d, r) THEN "up" ELSE "failed"]
        /\ UNCHANGED <<service, wire, approval, joining, work, sends, calls, crashes>>

\* The service takes operations of members, sealed for the current epoch.
Push(d) ==
    /\ Ready(d) /\ HasAuthority(d) /\ Member(d)
    /\ Epoch(hist[d]) = Epoch(chain)
    /\ pushed[d] < MaxPushes
    /\ pushed' = [pushed EXCEPT ![d] = @ + 1]
    /\ UNCHANGED <<chain, invite, wire, vault, daemon, work, sends, calls, crashes>>

----------------------------------------------------------------------------
Next ==
    \/ \E p \in Pairing, d \in Device :
          \/ CreateInvite(d, p) \/ Withdraw(d, p) \/ Join(d, p) \/ PrepareApproval(d, p) \/ ResumeApproval(d, p)
          \/ JoinStatus(d, p) \/ ConfirmJoin(d, p) \/ ResumeJoin(d, p)
    \/ \E p \in Pairing : Expire(p)
    \/ \E r \in Revocation, d \in Device :
          \/ \E t \in Device : PrepareRevocation(d, r, t)
          \/ Publish(d, r) \/ RevocationStatus(d, r) \/ CancelRevocation(d, r)
    \/ \E m \in wire : VerifyApproval(m) \/ ServeApproval(m)
                   \/ VerifyRevocation(m) \/ PublishRevocation(m)
    \/ \E d \in Device :
          \/ ReceiveApproval(d) \/ ReceiveRevocation(d) \/ Timeout(d)
          \/ Reconcile(d) \/ Crash(d) \/ Start(d) \/ Push(d)

Spec == Init /\ [][Next]_vars

\* A call ends within its timeout and a daemon that died is started again.  Nothing is
\* assumed of the network or of what the user asks for.
FairSpec ==
    /\ Spec
    /\ \A d \in Device :
           /\ WF_vars(Timeout(d)) /\ WF_vars(ReceiveRevocation(d)) /\ WF_vars(ReceiveApproval(d))
           /\ WF_vars(Start(d))

----------------------------------------------------------------------------
(* Properties. *)

InviteState == {"none", "pending", "approved", "closed"}
IntentState == {"none", "prepared", "submitting", "unconfirmed", "accepted", "conflict",
                "canceled_before_send"}

\* Every variable keeps its type, and a device waits for a revocation exactly while its
\* intent says submitting, unless it died.
TypeOK ==
    /\ \A p \in Pairing :
           /\ invite[p].state \in InviteState
           /\ invite[p].issuer \in Device \union {None}
           /\ invite[p].joiner \in Device \union {None}
           /\ approval[p].state \in {"none", "prepared", "accepted"}
           /\ joining[p].state \in {"none", "requested", "awaiting", "confirmed", "completed"}
    /\ pushed \in [Device -> 0..MaxPushes]
    /\ \A m \in wire : m.n \in 1..MaxCalls /\ m.stage \in {"sent", "verified"}
    /\ \A d \in Device : control[d] \subseteq Revocation /\ activated[d] \in Nat
    /\ \A r \in Revocation :
           /\ intent[r].state \in IntentState
           /\ intent[r].state = "submitting" /\ daemon[intent[r].issuer] = "up"
                  => work[intent[r].issuer].id = r
    /\ daemon \in [Device -> {"up", "down", "failed"}]
    /\ calls \in 0..MaxCalls /\ crashes \in 0..MaxCrashes

\* No two devices ever accept histories of which neither continues the other: what a vault
\* has accepted is a beginning of the service's one history, whatever decisions and
\* revocations race (accept_membership_extension, the head compared by the service).
HistoriesAgree == \A d \in Device : IsPrefix(hist[d], chain)

\* Every event of the history was issued by a device that was then a member, for the epoch
\* then current; an admitted device was never admitted before, a revoked one was a member
\* (verify_membership_history, as the races and late requests leave it).
HistoryIsAuthorized ==
    \A i \in 2..Len(chain) :
        LET e == chain[i]
            before == SubSeq(chain, 1, i - 1)
        IN  /\ e.by \in Active(before) /\ e.epoch = Epoch(before)
            /\ e.kind = "add" => e.dev \notin Admitted(before)
            /\ e.kind = "revoke" => e.dev \in Active(before)

\* The service never holds more of a revoked device's operations than the signed cutoff
\* names, and never fewer: appends racing the revocation fall on one side of it.
CutoffIsFinal ==
    \A i \in Of(chain, "revoke") : pushed[chain[i].dev] = chain[i].cutoff

\* A pairing is decided once, whatever late or repeated decisions arrive: the device is in
\* the history if and only if the service says approved, and each party that recorded
\* success has the admission in its own history.
DecidedOnce ==
    \A p \in Pairing :
        /\ (invite[p].state = "approved") <=> Has(chain, p)
        /\ approval[p].state = "accepted" => Has(hist[invite[p].issuer], p)
        /\ joining[p].state = "completed" =>
               Has(hist[invite[p].joiner], p) /\ activated[invite[p].joiner] > 0

\* What an issuer's record claims is so: an accepted revocation is in the history, at most
\* one per issuer, and one recorded as canceled before it was sent never gets there, however
\* late a request arrives (device_revocation_intents, cancel_device_revocation_submission).
RevocationRecordIsTrue ==
    /\ \A r \in Revocation :
           /\ intent[r].state = "accepted" => Has(chain, r)
           /\ intent[r].state \in {"prepared", "canceled_before_send"} =>
                  ~Has(chain, r) /\ \A m \in wire : m.id # r
    /\ \A r, s \in Revocation :
           intent[r].state = "accepted" /\ intent[s].state = "accepted"
               /\ intent[r].issuer = intent[s].issuer => r = s

\* No submission stays pending: the call's timeout or the next startup settles it, although
\* no message need ever be answered (recover_device_revocation_submissions).
SubmissionSettles ==
    \A r \in Revocation : intent[r].state = "submitting" ~> intent[r].state # "submitting"

\* A daemon that has recorded an accepted revocation starts again: contextd's restart test
\* resumes the prepared decisions and unwraps the result.  Violated: nothing stages the keys
\* of the rotation, so activation fails at every startup of the issuer that remains.
StartupCompletes == \A d \in Device : daemon[d] # "failed"

=============================================================================
