----------------------------- MODULE Enrollment -----------------------------
(***************************************************************************)
(* Hosted enrolment of a first device.  Several devices of one user may     *)
(* race for the user's only account: each reserves a scope with a challenge *)
(* that lives ten minutes, shows a recovery phrase, prepares a signed       *)
(* record in its vault once the phrase is confirmed, and commits that       *)
(* record at the hosted service (contextd recovery_enrollment.rs, core      *)
(* devices/recovery.rs and supabase_enrollment.rs, vault/recovery.rs; the   *)
(* edge function enrollment in front of four SQL functions).                *)
(*                                                                          *)
(* A daemon serves one request at a time and waits for each of its calls.   *)
(* Requests may arrive after the daemon stopped waiting or died, answers    *)
(* may be lost, sessions end, reservations expire and are taken by others.  *)
(* Account and workspace are one scope; a scope and a challenge are the     *)
(* numbers of the draws that made them, so that a later challenge has a     *)
(* greater number as it has a later expiry.                                 *)
(***************************************************************************)
EXTENDS Naturals

CONSTANTS
    Device,       \* the devices of one user
    None,
    MaxLogins,    \* sessions the user opens
    MaxOps,       \* enrolments begun with an operation id of their own
    MaxTurns,     \* recovery phrases shown and reservations whose ten minutes pass, together
    MaxFaults     \* lost requests or answers, deaths of a daemon, logins that end

VARIABLES
    alive,    \* sessions the service accepts
    slot,     \* the user's row of enrollment_reservations
    root,     \* the user's row of enrollment_commits, with the account
    session,  \* each daemon's session, 0 when signed out
    intent,   \* each vault's hosted_enrollment_intent
    row,      \* each vault's recovery_enrollments row
    mem,      \* each daemon's coordinator
    call,     \* the exchange each daemon waits for
    wire,     \* requests on their way to the service or inside it
    used      \* how much of each bound is used; the draws give numbers

service == <<alive, slot, root>>
vault == <<intent, row>>
vars == <<service, session, vault, mem, call, wire, used>>

----------------------------------------------------------------------------
(* Data. *)

Sessions == 1..MaxLogins
Records == [by : Device, scope : Nat, id : 1..MaxTurns]
Reservations == [op : 1..MaxOps, scope : Nat, nonce : Nat]
Slots == [session : Sessions, op : 1..MaxOps, scope : Nat, nonce : Nat, live : BOOLEAN]
Roots == [session : Sessions, op : 1..MaxOps, rec : Records]
Intents == [session : Sessions, op : 1..MaxOps, res : Reservations \union {None}]
Rows == [rec : Records, state : {"prepared", "active", "conflict"}]
Coordinators == [session : 0..MaxLogins, res : Reservations, pending : Records \union {None}]
Kinds == {"reserve", "renew", "status", "commit"}
Messages == [kind : Kinds \union {"verified"}, to : Device \union {None}, session : 0..MaxLogins,
             op : 1..MaxOps, nonce : Nat, rec : Records \union {None}]
Answers == [code : {"ok", "unauthorized", "conflict", "expired", "invalid", "transient"},
            res : Reservations \union {None}, receipt : Records \union {None}]
Calls == [req : {"begin", "overview", "confirm", "cancel"}, kind : Kinds,
          session : 0..MaxLogins, ans : Answers \union {None}]
Bounds == [login : Nat, op : Nat, draw : Nat, phrase : Nat, expiry : Nat, fault : Nat]

ASSUME EnrollmentAssumption ==
    /\ None \notin Device /\ None \notin Records /\ None \notin Reservations
    /\ None \notin Slots /\ None \notin Roots /\ None \notin Intents /\ None \notin Rows
    /\ None \notin Coordinators /\ None \notin Answers /\ None \notin Calls
    /\ {MaxLogins, MaxOps, MaxTurns, MaxFaults} \subseteq Nat

MoreTurns == used.phrase + used.expiry < MaxTurns

Use(bound) == used' = [used EXCEPT ![bound] = @ + 1]

----------------------------------------------------------------------------
(* The service. *)

Mine(m) == slot # None /\ slot.session = m.session /\ slot.op = m.op

Committed(m) == root # None /\ root.session = m.session /\ root.op = m.op

\* What the client keeps of a reservation.
Reservation(s) == [op |-> s.op, scope |-> s.scope, nonce |-> s.nonce]

Reply(code) == [code |-> code, res |-> None, receipt |-> None]

\* The service takes m off the wire and answers whoever still waits for it.
Answer(m, a) ==
    /\ wire' = wire \ {m}
    /\ call' = IF m.to = None THEN call ELSE [call EXCEPT ![m.to].ans = a]

\* A refusal by the limit of six draws an hour is a 429, which is a transient answer; for
\* service and client it is a request that was lost (Lose), and is not a verdict of its own.
ReserveVerdict(m) ==
    IF m.session \notin alive THEN "unauthorized"
    ELSE IF root # None THEN "conflict"
    ELSE IF slot = None THEN "draw"
    ELSE IF slot.op = m.op
         THEN IF slot.session = m.session /\ slot.live THEN "ok" ELSE "expired"
    ELSE IF slot.live THEN "conflict" ELSE "draw"

\* A new operation takes the row when it is free or its challenge has expired; a retry of
\* the operation that holds it gets the same challenge again.
HandleReserve(m) ==
    LET verdict == ReserveVerdict(m)
        fresh == [session |-> m.session, op |-> m.op, scope |-> used.draw + 1,
                  nonce |-> used.draw + 1, live |-> TRUE]
    IN  /\ m.kind = "reserve"
        /\ \/ /\ verdict = "draw"
              /\ slot' = fresh
              /\ Use("draw")
              /\ Answer(m, [Reply("ok") EXCEPT !.res = Reservation(fresh)])
           \/ /\ verdict = "ok"
              /\ Answer(m, [Reply("ok") EXCEPT !.res = Reservation(slot)])
              /\ UNCHANGED <<slot, used>>
           \/ /\ verdict \in {"unauthorized", "conflict", "expired"}
              /\ Answer(m, Reply(verdict))
              /\ UNCHANGED <<slot, used>>
        /\ UNCHANGED <<alive, root, session, vault, mem>>

\* The same limit holds for a renewal.
RenewVerdict(m) ==
    IF ~Mine(m) \/ m.session \notin alive THEN "unauthorized"
    ELSE IF Committed(m) \/ slot.live THEN "ok"
    ELSE IF root # None THEN "conflict" ELSE "draw"

\* An expired challenge is replaced, its scope and operation stay.
HandleRenew(m) ==
    LET verdict == RenewVerdict(m)
        fresh == [slot EXCEPT !.nonce = used.draw + 1, !.live = TRUE]
    IN  /\ m.kind = "renew"
        /\ \/ /\ verdict = "draw"
              /\ slot' = fresh
              /\ Use("draw")
              /\ Answer(m, [Reply("ok") EXCEPT !.res = Reservation(fresh)])
           \/ /\ verdict = "ok"
              /\ Answer(m, [Reply("ok") EXCEPT !.res = Reservation(slot)])
              /\ UNCHANGED <<slot, used>>
           \/ /\ verdict \in {"unauthorized", "conflict"}
              /\ Answer(m, Reply(verdict))
              /\ UNCHANGED <<slot, used>>
        /\ UNCHANGED <<alive, root, session, vault, mem>>

StatusVerdict(m) ==
    IF ~Mine(m) \/ m.session \notin alive THEN "unauthorized"
    ELSE IF ~Committed(m) /\ ~slot.live THEN "expired" ELSE "ok"

HandleStatus(m) ==
    /\ m.kind = "status"
    /\ Answer(m, IF StatusVerdict(m) # "ok" THEN Reply(StatusVerdict(m))
                 ELSE [code |-> "ok", res |-> Reservation(slot),
                       receipt |-> IF Committed(m) THEN root.rec ELSE None])
    /\ UNCHANGED <<service, session, vault, mem, used>>

\* The edge reads the reservation and checks the record and the proof against it.
VerifyCommit(m) ==
    LET verdict == IF StatusVerdict(m) # "ok" THEN StatusVerdict(m)
                   ELSE IF m.nonce = slot.nonce /\ m.rec.scope = slot.scope THEN "ok" ELSE "invalid"
    IN  /\ m.kind = "commit"
        /\ IF verdict = "ok"
           THEN wire' = (wire \ {m}) \union {[m EXCEPT !.kind = "verified"]} /\ UNCHANGED call
           ELSE Answer(m, Reply(verdict))
        /\ UNCHANGED <<service, session, vault, mem, used>>

CommitVerdict(m) ==
    IF ~Mine(m) \/ slot.nonce # m.nonce \/ slot.scope # m.rec.scope \/ m.session \notin alive
    THEN "unauthorized"
    ELSE IF root # None THEN IF Committed(m) /\ root.rec = m.rec THEN "ok" ELSE "conflict"
    ELSE IF slot.live THEN "accept" ELSE "expired"

\* The database checks everything that may have changed since, and commits.
HandleCommit(m) ==
    LET verdict == CommitVerdict(m)
    IN  /\ m.kind = "verified"
        /\ \/ /\ verdict = "accept"
              /\ root' = [session |-> m.session, op |-> m.op, rec |-> m.rec]
              /\ Answer(m, [Reply("ok") EXCEPT !.receipt = m.rec])
           \/ /\ verdict = "ok"
              /\ Answer(m, [Reply("ok") EXCEPT !.receipt = root.rec])
              /\ UNCHANGED root
           \/ /\ verdict \in {"unauthorized", "conflict", "expired"}
              /\ Answer(m, Reply(verdict))
              /\ UNCHANGED root
        /\ UNCHANGED <<alive, slot, session, vault, mem, used>>

Handle(m) ==
    HandleReserve(m) \/ HandleRenew(m) \/ HandleStatus(m) \/ VerifyCommit(m) \/ HandleCommit(m)

\* The ten minutes of a challenge pass.
Expire ==
    /\ slot # None /\ slot.live /\ MoreTurns
    /\ slot' = [slot EXCEPT !.live = FALSE]
    /\ Use("expiry")
    /\ UNCHANGED <<alive, root, session, vault, mem, call, wire>>

----------------------------------------------------------------------------
(* The daemon. *)

Init ==
    /\ alive = {}
    /\ slot = None /\ root = None
    /\ session = [d \in Device |-> 0]
    /\ intent = [d \in Device |-> None] /\ row = [d \in Device |-> None]
    /\ mem = [d \in Device |-> None] /\ call = [d \in Device |-> None]
    /\ wire = {}
    /\ used = [login |-> 0, op |-> 0, draw |-> 0, phrase |-> 0, expiry |-> 0, fault |-> 0]

Coordinator(d, res) == [session |-> session[d], res |-> res, pending |-> None]

Done(d) == call' = [call EXCEPT ![d] = None] /\ UNCHANGED wire

\* The request was for the user's session; an answer is heard by that session only.
Send(d, req, kind, op, nonce, rec) ==
    /\ call' = [call EXCEPT ![d] = [req |-> req, kind |-> kind, session |-> session[d], ans |-> None]]
    /\ wire' = wire \union {[kind |-> kind, to |-> d, session |-> session[d],
                             op |-> op, nonce |-> nonce, rec |-> rec]}

SendStatus(d, req, c) == Send(d, req, "status", c.res.op, 0, None)
SendCommit(d, c, rec) == Send(d, "confirm", "commit", c.res.op, c.res.nonce, rec)

\* Faulty variant: the coordinator keeps its reservation for ever.
Fail_KeepsCoordinator(d, c) == mem' = [mem EXCEPT ![d] = c] /\ Done(d)

\* A request ends in an error: the coordinator of a prepared enrolment is given up, so that
\* the next request renews its reservation.
Fail(d, c) == mem' = [mem EXCEPT ![d] = IF row[d] = None THEN c ELSE None] /\ Done(d)

\* The request reaches the coordinator c.
Proceed(d, req, c) ==
    \/ /\ req \in {"begin", "overview"}
       /\ IF c.session = session[d]
          THEN mem' = [mem EXCEPT ![d] = c] /\ SendStatus(d, req, c)
          ELSE Fail(d, c)
       /\ UNCHANGED row
    \/ /\ req = "confirm" /\ c.pending = None
       /\ Fail(d, c)
       /\ UNCHANGED row
    \/ /\ req = "confirm" /\ c.pending # None          \* wrong words
       /\ mem' = [mem EXCEPT ![d] = [c EXCEPT !.pending = None]]
       /\ Done(d)
       /\ UNCHANGED row
    \/ /\ req = "confirm" /\ c.pending # None          \* the phrase's words
       /\ row' = [row EXCEPT ![d] = [rec |-> c.pending, state |-> "prepared"]]
       /\ IF c.session = session[d]
          THEN /\ mem' = [mem EXCEPT ![d] = [c EXCEPT !.pending = None]]
               /\ SendCommit(d, c, c.pending)
          ELSE mem' = [mem EXCEPT ![d] = None] /\ Done(d)
    \/ /\ req = "cancel" /\ (row[d] # None \/ c.pending = None)
       /\ Fail(d, c)
       /\ UNCHANGED row

\* The intent kept while a request runs; only a cancelled phrase takes it away.
Keep(d, it) == intent' = [intent EXCEPT ![d] = it]

Cancelled(d, req, c) == req = "cancel" /\ row[d] = None /\ c.pending # None

Continue(d, req, it, c) ==
    \/ Proceed(d, req, c) /\ Keep(d, it)
    \/ /\ Cancelled(d, req, c)
       /\ Keep(d, None) /\ mem' = [mem EXCEPT ![d] = None] /\ Done(d)
       /\ UNCHANGED row

\* A new enrolment binds its operation to the login before anything is sent.
Reserve(d, req) ==
    /\ used.op < MaxOps
    /\ Use("op")
    /\ Keep(d, [session |-> session[d], op |-> used.op + 1, res |-> None])
    /\ Send(d, req, "reserve", used.op + 1, 0, None)

\* The coordinator is missing: find the reservation of the intent, or make both.
Connect(d, req, it) ==
    \/ /\ it = None /\ req = "begin" /\ session[d] # 0
       /\ Reserve(d, req)
       /\ mem' = [mem EXCEPT ![d] = None]
       /\ UNCHANGED row
    \/ /\ IF it = None THEN req # "begin" \/ session[d] = 0 ELSE it.session # session[d]
       /\ Keep(d, it) /\ mem' = [mem EXCEPT ![d] = None] /\ Done(d)
       /\ UNCHANGED <<row, used>>
    \/ /\ it # None /\ it.session = session[d] /\ (it.res = None \/ row[d] # None)
       /\ Send(d, req, IF it.res = None THEN "reserve" ELSE "renew", it.op, 0, None)
       /\ Keep(d, it) /\ mem' = [mem EXCEPT ![d] = None]
       /\ UNCHANGED <<row, used>>
    \/ /\ it # None /\ it.session = session[d] /\ it.res # None /\ row[d] = None
       /\ Continue(d, req, it, Coordinator(d, it.res))
       /\ UNCHANGED used

\* Faulty variant: the intent of a prepared record is dropped too.
Stale_Prepared(d, late) ==
    /\ intent[d] # None /\ session[d] # 0
    /\ intent[d].session # session[d] \/ (intent[d].res # None /\ late)

\* An intent without a prepared record is dropped for a new login, or when the daemon's own
\* clock says that its reservation has expired.
Stale(d, late) ==
    /\ row[d] = None /\ intent[d] # None /\ session[d] # 0
    /\ intent[d].session # session[d] \/ (intent[d].res # None /\ late)

Execute(d, req, it, c) ==
    IF c = None THEN Connect(d, req, it) ELSE Continue(d, req, it, c) /\ UNCHANGED used

\* With a record already prepared, begin does what a status request does.
Begin(d) ==
    /\ call[d] = None
    /\ \E late \in BOOLEAN :
           IF Stale(d, late) THEN Execute(d, "begin", None, None)
                             ELSE Execute(d, IF row[d] = None THEN "begin" ELSE "overview", intent[d], mem[d])
    /\ UNCHANGED <<service, session>>

\* Overview, or status of one enrolment.
Overview(d) ==
    /\ call[d] = None
    /\ Execute(d, "overview", intent[d], mem[d])
    /\ UNCHANGED <<service, session>>

Confirm(d) ==
    /\ call[d] = None
    /\ Execute(d, "confirm", intent[d], mem[d])
    /\ UNCHANGED <<service, session>>

Cancel(d) ==
    /\ call[d] = None
    /\ Execute(d, "cancel", intent[d], mem[d])
    /\ UNCHANGED <<service, session>>

\* A phrase that was not confirmed within ten minutes is forgotten.
PhraseExpires(d) ==
    /\ call[d] = None /\ mem[d] # None /\ mem[d].pending # None
    /\ mem' = [mem EXCEPT ![d].pending = None]
    /\ UNCHANGED <<service, session, vault, call, wire, used>>

----------------------------------------------------------------------------
(* Answers. *)

\* An answer that comes after the login changed is not heard.
Heard(d) ==
    IF call[d].ans.code # "transient" /\ call[d].session # session[d]
    THEN Reply("unauthorized") ELSE call[d].ans

Waits(d, kind) == call[d] # None /\ call[d].kind = kind /\ call[d].ans # None

\* A challenge that the client's own clock says has expired when it arrives is an error that
\* leaves what a lost answer leaves (Lose).
ReserveAnswer(d) ==
    LET a == Heard(d)
        held == [intent[d] EXCEPT !.res = a.res]
    IN  /\ Waits(d, "reserve")
        /\ \/ /\ a.code = "ok"
              /\ Continue(d, call[d].req, held, Coordinator(d, a.res))
           \/ /\ a.code # "ok"
              /\ Keep(d, IF a.code = "expired" /\ call[d].req = "begin" THEN None ELSE intent[d])
              /\ Done(d)
              /\ UNCHANGED <<row, mem>>
        /\ UNCHANGED <<service, session, used>>

\* Faulty variant: a renewal may bring another scope.
ValidRenewal_AnyScope(new, old) == new.op = old.op /\ new.nonce >= old.nonce

ValidRenewal(new, old) == new.op = old.op /\ new.scope = old.scope /\ new.nonce >= old.nonce

RenewAnswer(d) ==
    LET a == Heard(d)
        held == [intent[d] EXCEPT !.res = a.res]
        valid == a.code = "ok" /\ ValidRenewal(a.res, intent[d].res)
    IN  /\ Waits(d, "renew")
        /\ \/ valid /\ Continue(d, call[d].req, held, Coordinator(d, a.res))
           \/ ~valid /\ Done(d) /\ UNCHANGED <<vault, mem>>
        /\ UNCHANGED <<service, session, used>>

Settle(d, state) == row' = [row EXCEPT ![d].state = state]

\* No record is prepared: a begun enrolment without a phrase shows one, made for the
\* reserved scope; a phrase that is no longer alone is dropped.
Discover(d, receipt) ==
    LET c == mem[d]
        phrase == [by |-> d, scope |-> c.res.scope, id |-> used.phrase + 1]
    IN  \/ /\ c.pending = None /\ receipt = None /\ call[d].req = "begin"
           /\ MoreTurns
           /\ mem' = [mem EXCEPT ![d].pending = phrase]
           /\ Use("phrase")
        \/ /\ c.pending = None /\ (receipt # None \/ call[d].req = "overview" \/ ~MoreTurns)
           /\ UNCHANGED <<mem, used>>
        \/ /\ c.pending # None
           /\ mem' = [mem EXCEPT ![d].pending = IF receipt = None THEN c.pending ELSE None]
           /\ UNCHANGED used

\* A prepared record is activated with its receipt, or sent again.
Reconcile(d, receipt) ==
    \/ /\ row[d] = None
       /\ Discover(d, receipt) /\ Done(d)
       /\ UNCHANGED row
    \/ /\ row[d] # None /\ row[d].state # "prepared"
       /\ Done(d)
       /\ UNCHANGED <<row, mem, used>>
    \/ /\ row[d] # None /\ row[d].state = "prepared" /\ receipt # None
       /\ Settle(d, IF receipt = row[d].rec THEN "active" ELSE "conflict") /\ Done(d)
       /\ UNCHANGED <<mem, used>>
    \/ /\ row[d] # None /\ row[d].state = "prepared" /\ receipt = None
       /\ SendCommit(d, mem[d], row[d].rec)
       /\ UNCHANGED <<row, mem, used>>

StatusAnswer(d) ==
    LET a == Heard(d)
        good == a.code = "ok" /\ a.res = mem[d].res
    IN  /\ Waits(d, "status")
        /\ \/ good /\ Reconcile(d, a.receipt)
           \/ ~good /\ Fail(d, mem[d]) /\ UNCHANGED <<row, used>>
        /\ UNCHANGED <<service, session, intent>>

\* Faulty variant: a commit without an answer is taken for refused.
Verdict_TransientIsConflict(code) ==
    IF code = "ok" THEN "active" ELSE IF code \in {"expired", "unauthorized"} THEN "prepared" ELSE "conflict"

\* What an answer to a commit makes of the prepared record.
Verdict(code) ==
    IF code = "ok" THEN "active" ELSE IF code \in {"conflict", "invalid"} THEN "conflict" ELSE "prepared"

CommitAnswer(d) ==
    LET a == Heard(d)
    IN  /\ Waits(d, "commit")
        /\ Settle(d, Verdict(a.code))
        /\ mem' = [mem EXCEPT ![d] = IF a.code \in {"expired", "unauthorized"} THEN None ELSE @]
        /\ Done(d)
        /\ UNCHANGED <<service, session, intent, used>>

----------------------------------------------------------------------------
(* Faults and logins. *)

Awaited(d) == {m \in wire : m.to = d}

\* A request nobody waits for any more arrives late, or never: nothing makes the service
\* handle it.  A late question for the status changes nothing.
Abandoned(d) ==
    (wire \ Awaited(d)) \union {[m EXCEPT !.to = None] : m \in {a \in Awaited(d) : a.kind # "status"}}

\* The fifteen seconds of a call pass: request or answer was lost, or is late.
Lose(d) ==
    /\ call[d] # None /\ used.fault < MaxFaults
    /\ call' = [call EXCEPT ![d].ans = Reply("transient")]
    /\ wire' = Abandoned(d)
    /\ Use("fault")
    /\ UNCHANGED <<service, session, vault, mem>>

\* The daemon dies and is started again; startup only reads the vault.
Crash(d) ==
    /\ used.fault < MaxFaults
    /\ call' = [call EXCEPT ![d] = None] /\ mem' = [mem EXCEPT ![d] = None]
    /\ wire' = Abandoned(d)
    /\ Use("fault")
    /\ UNCHANGED <<service, session, vault>>

SignIn(d) ==
    /\ session[d] = 0 /\ used.login < MaxLogins
    /\ session' = [session EXCEPT ![d] = used.login + 1]
    /\ alive' = alive \union {used.login + 1}
    /\ Use("login")
    /\ UNCHANGED <<slot, root, vault, mem, call, wire>>

\* The revocation that follows may fail and leave the session alive.
SignOut(d) ==
    /\ session[d] # 0 /\ used.fault < MaxFaults
    /\ session' = [session EXCEPT ![d] = 0]
    /\ alive' \in {alive, alive \ {session[d]}}
    /\ Use("fault")
    /\ UNCHANGED <<slot, root, vault, mem, call, wire>>

----------------------------------------------------------------------------

Next ==
    \/ \E m \in wire : Handle(m)
    \/ Expire
    \/ \E d \in Device :
          \/ Begin(d) \/ Overview(d) \/ Confirm(d) \/ Cancel(d) \/ PhraseExpires(d)
          \/ ReserveAnswer(d) \/ RenewAnswer(d) \/ StatusAnswer(d) \/ CommitAnswer(d)
          \/ Lose(d) \/ Crash(d) \/ SignIn(d) \/ SignOut(d)

Spec == Init /\ [][Next]_vars

\* One step of the exchange a daemon waits for.
Exchange(d) ==
    \/ \E m \in Awaited(d) : Handle(m)
    \/ ReserveAnswer(d) \/ RenewAnswer(d) \/ StatusAnswer(d) \/ CommitAnswer(d)

\* The service answers what is not lost, the daemon hears it, and a status request waiting in
\* the daemon's queue is served between the others: the desktop polls while an enrolment is
\* submitting, and asks for a retry after an error.
FairSpec == Spec /\ \A d \in Device : WF_vars(Exchange(d)) /\ SF_vars(Overview(d))

----------------------------------------------------------------------------
(* Properties. *)

\* Every variable keeps its type; a prepared record has the intent whose reserved scope it
\* was made for, and a coordinator the reservation of the intent.
TypeOK ==
    /\ alive \subseteq Sessions
    /\ slot \in Slots \union {None} /\ root \in Roots \union {None}
    /\ session \in [Device -> 0..MaxLogins]
    /\ intent \in [Device -> Intents \union {None}]
    /\ row \in [Device -> Rows \union {None}]
    /\ mem \in [Device -> Coordinators \union {None}]
    /\ call \in [Device -> Calls \union {None}]
    /\ wire \subseteq Messages
    /\ used \in Bounds
    /\ \A d \in Device :
           /\ row[d] # None => /\ intent[d] # None /\ intent[d].res # None
                              /\ intent[d].res.scope = row[d].rec.scope
           /\ mem[d] # None => intent[d] # None /\ mem[d].res = intent[d].res

\* The record the service accepted is in the vault that made it, prepared or active, never
\* marked as a conflict or replaced, however its answers were lost, its commits came late or
\* its reservation was renewed; its receipt stays within reach of the operation that earned
\* it, because no later reservation takes its row and no renewal changes its scope; and only
\* the accepted record is ever active.
AcceptedIsKept ==
    /\ root # None =>
           LET mine == row[root.rec.by]
           IN  /\ mine # None /\ mine.rec = root.rec /\ mine.state \in {"prepared", "active"}
               /\ slot.op = root.op /\ slot.session = root.session
               /\ slot.scope = root.rec.scope
    /\ \A d \in Device :
           row[d] # None /\ row[d].state = "active" => root # None /\ root.rec = row[d].rec

\* A prepared record is never replaced, its outcome is final, and its intent is never given
\* another login, operation or scope, whatever stale reservation answers a renewal.
NeverRetargeted ==
    [][\A d \in Device : row[d] # None =>
           /\ row'[d] # None /\ row'[d].rec = row[d].rec
           /\ row[d].state # "prepared" => row'[d] = row[d]
           /\ intent'[d] # None /\ intent'[d].session = intent[d].session
           /\ intent'[d].op = intent[d].op /\ intent'[d].res.scope = intent[d].res.scope]_vars

\* A device that is still signed in and still holds the reservation of its prepared record.
Entitled(d) ==
    /\ row[d] # None /\ row[d].state = "prepared"
    /\ session[d] = intent[d].session /\ session[d] \in alive
    /\ slot.op = intent[d].op /\ slot.session = session[d] /\ slot.scope = row[d].rec.scope

\* No prepared enrolment waits for ever while its login lasts and nobody else has taken its
\* reservation: expired challenges are renewed and lost answers found again.
PreparedSettles == \A d \in Device : ~<>[]Entitled(d)

=============================================================================
