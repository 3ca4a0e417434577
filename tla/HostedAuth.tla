----------------------------- MODULE HostedAuth -----------------------------
(***************************************************************************)
(* Hosted sign-in: the daemon's service (contextd hosted_auth.rs), the      *)
(* loopback login flow (hosted_login.rs), the owner of the one hosted       *)
(* session (core auth/owner.rs) and the credential store.                   *)
(*                                                                          *)
(* Three layers run concurrently.  The service keeps the status a client    *)
(* sees and one asynchronous job.  A job awaits blocking calls on other      *)
(* threads; aborting it drops the job at its next await and leaves the call  *)
(* running.  The owner's lock is never held during a network exchange, so    *)
(* what a call brings back is admitted by Finish only if the login it was    *)
(* made for is still the owner's.  A login is identified by a flag, an       *)
(* atomic that anyone holding it may raise without any lock.                 *)
(*                                                                          *)
(* A token stands for the access and refresh tokens of one grant.  "denied"  *)
(* stands for the answers that end a login (Denied, Provider, Expired).      *)
(***************************************************************************)
EXTENDS Naturals, FiniteSets

CONSTANTS
    MaxRequests,     \* sign-in, cancel and sign-out requests accepted
    MaxGrants,       \* tokens the provider issues
    MaxFailures      \* restarts and failed operations of the credential store

ASSUME BoundsAssumption ==
    {MaxRequests, MaxGrants, MaxFailures} \subseteq Nat

VARIABLES
    svc,       \* hosted_auth State: generation, state, cancellation, until, closed
    jobs,      \* the pending job, and aborted ones still ending their last step
    calls,     \* blocking calls in progress
    canceled,  \* the flags that have been raised
    owner,     \* HostedSessionOwner State: generation, initialized, busy, session
    store,     \* the token of the saved login, or None
    flags,     \* flags created so far
    grants,    \* tokens issued so far
    expired,   \* tokens whose lifetime has passed
    failures   \* restarts and failures of the credential store so far

vars == <<svc, jobs, calls, canceled, owner, store, flags, grants, expired, failures>>

None == 0
Transient == {"restoring", "signing_in", "signing_out"}
State == Transient \union {"signed_out", "connected", "failed"}
Ended == {"denied", "canceled", "credential_store"}
Result == Ended \union {"none", "ok", "empty", "unavailable", "busy", "begun", "code"}

NoSession == [token |-> None, flag |-> None]

----------------------------------------------------------------------------
(* The owner and its store. *)

\* active_session: a raised flag or a passed deadline withdraws the session at once.
ActiveSession ==
    IF owner.generation \in canceled \/ owner.session.token \in expired \union {None}
    THEN NoSession ELSE owner.session

\* invalidate: the generation is raised and replaced by a new one.
Invalidate ==
    /\ owner' = [generation |-> flags + 1, initialized |-> TRUE, busy |-> FALSE,
                 session |-> NoSession]
    /\ canceled' = canceled \union {owner.generation}
    /\ flags' = flags + 1

\* A failed operation of the credential store.
StoreFault ==
    /\ failures < MaxFailures
    /\ failures' = failures + 1

\* LoginStore::clear; ok is its answer.
Clear(ok) ==
    \/ ok /\ store' = None /\ UNCHANGED failures
    \/ ~ok /\ StoreFault /\ UNCHANGED store

\* The answer of an operation that ends by clearing the store.
Cleared(ok, result) == IF ok THEN result ELSE "credential_store"

----------------------------------------------------------------------------
(* Calls and jobs.  A call is made by the job of one service generation and *)
(* for one flag; the job waits for it unless it has been aborted.           *)

Call(kind, gen, flag) ==
    [kind |-> kind, gen |-> gen, flag |-> flag, pc |-> "start", res |-> "none", token |-> None]

Job(kind, gen, flag) ==
    [kind |-> kind, gen |-> gen, flag |-> flag, pc |-> "run", res |-> "none",
     token |-> None, aborted |-> FALSE]

\* The call goes on to its next step.
Goes(c, d) == calls' = (calls \ {c}) \union {d} /\ UNCHANGED jobs

\* The call returns to the job that awaits it, if that is still there.
ReturnFor(c, result, flag) ==
    /\ calls' = calls \ {c}
    /\ jobs' = {IF j.gen = c.gen /\ j.pc = c.kind
                THEN [j EXCEPT !.pc = "run", !.res = result, !.flag = flag, !.token = c.token]
                ELSE j : j \in jobs}
Return(c, result) == ReturnFor(c, result, c.flag)

\* Dropping the flow of a login leaves a call that withdraws the attempt.
DropFlow(dropped) ==
    {Call("cancel", j.gen, j.flag) : j \in {i \in dropped : i.kind = "login"}}
DropFlags(dropped) == {j.flag : j \in {i \in dropped : i.kind = "login"}}

\* The running job j reaches an await as k, with a call in progress: an aborted
\* job ends there.
Awaits(j, k, made) ==
    IF j.aborted
    THEN /\ jobs' = jobs \ {j}
         /\ calls' = calls \union made \union DropFlow({k})
         /\ canceled' = canceled \union DropFlags({k})
    ELSE /\ jobs' = (jobs \ {j}) \union {k}
         /\ calls' = calls \union made
         /\ UNCHANGED canceled

Await(j, kind) ==
    Awaits(j, [j EXCEPT !.pc = kind, !.res = "none"], {Call(kind, j.gen, j.flag)})

----------------------------------------------------------------------------
(* Starting the daemon: HostedAuthService::enabled. *)

Restoring(gen) ==
    [generation |-> gen, state |-> "restoring", cancellation |-> None, until |-> None,
     closed |-> FALSE]
NewOwner(flag) ==
    [generation |-> flag, initialized |-> FALSE, busy |-> FALSE, session |-> NoSession]

\* A login saved by an earlier run of the daemon, or none.
Init ==
    /\ svc = Restoring(0)
    /\ jobs = {Job("restore", 0, None)}
    /\ calls = {}
    /\ canceled = {}
    /\ owner = NewOwner(1)
    /\ store \in {None, 1}
    /\ flags = 1
    /\ grants = 1
    /\ expired = {1}
    /\ failures = 0

\* The daemon stops, in good order or not, and is started again.
Restart ==
    /\ failures < MaxFailures
    /\ failures' = failures + 1
    /\ svc' = Restoring(svc.generation + 1)
    /\ jobs' = {Job("restore", svc.generation + 1, None)}
    /\ calls' = {}
    /\ owner' = NewOwner(flags + 1)
    /\ flags' = flags + 1
    /\ UNCHANGED <<canceled, store, grants, expired>>

----------------------------------------------------------------------------
(* Requests of the clients: HostedAuthService::handle, under the service's  *)
(* lock.  A request that names another generation is refused, a repeated    *)
(* one is answered from the status: neither changes anything.               *)

KeepOwner == UNCHANGED <<owner, store, grants, failures>>

\* Any request first notices that the published session has expired.
Observed ==
    IF svc.state = "connected" /\ svc.until \in expired THEN "failed" ELSE svc.state

HandleStatus ==
    /\ ~svc.closed
    /\ Observed # svc.state
    /\ svc' = [svc EXCEPT !.state = Observed]
    /\ UNCHANGED <<jobs, calls, canceled, flags, expired>>
    /\ KeepOwner

\* A job at an await is dropped; one that is running still ends its step.
Dropped == {j \in jobs : j.pc # "run"}
Aborted == {[j EXCEPT !.aborted = TRUE] : j \in jobs \ Dropped}

\* The cancellation of the current login is taken and raised.
Raised == ({svc.cancellation} \ {None}) \union DropFlags(Dropped)

Requested == svc.generation < MaxRequests

HandleStart(expected) ==
    /\ ~svc.closed
    /\ expected = svc.generation
    /\ Observed \in {"signed_out", "failed"}
    /\ Requested
    /\ canceled' = canceled \union Raised
    /\ flags' = flags + 1
    /\ svc' = [svc EXCEPT !.generation = @ + 1, !.state = "signing_in",
                          !.cancellation = flags + 1, !.until = None]
    /\ jobs' = Aborted \union {Job("login", svc.generation + 1, flags + 1)}
    /\ calls' = calls \union DropFlow(Dropped)
    /\ UNCHANGED expired
    /\ KeepOwner

\* HostedAuthCancel, only while signing in, and HostedAuthLogout.
HandleLogout(expected, cancelOnly) ==
    /\ ~svc.closed
    /\ expected = svc.generation
    /\ cancelOnly => Observed = "signing_in"
    /\ Observed # "signing_out"
    /\ Requested
    /\ canceled' = canceled \union Raised
    /\ svc' = [svc EXCEPT !.generation = @ + 1, !.state = "signing_out",
                          !.cancellation = None]
    /\ jobs' = Aborted \union {Job("logout", svc.generation + 1, None)}
    /\ calls' = calls \union DropFlow(Dropped)
    /\ UNCHANGED <<flags, expired>>
    /\ KeepOwner

\* shutdown: stop under the service's lock, then suspend on a blocking thread.
Shutdown ==
    /\ ~svc.closed
    /\ failures < MaxFailures
    /\ canceled' = canceled \union Raised
    /\ svc' = [svc EXCEPT !.closed = TRUE, !.cancellation = None]
    /\ jobs' = Aborted
    /\ calls' = calls \union DropFlow(Dropped) \union {Call("suspend", svc.generation, None)}
    /\ UNCHANGED <<flags, expired>>
    /\ KeepOwner

----------------------------------------------------------------------------
(* Steps of a job between two awaits. *)

\* publish: only the job of the current generation is heard.
Publish(j, state) ==
    svc' = IF ~svc.closed /\ svc.generation = j.gen
           THEN [svc EXCEPT !.state = state, !.until = None] ELSE svc

\* The job ends; a login that did not succeed drops its flow.
Ends(j) ==
    /\ jobs' = jobs \ {j}
    /\ calls' = calls \union DropFlow({j})
    /\ canceled' = canceled \union DropFlags({j})

Running(j, kind) ==
    /\ j.kind = kind
    /\ j.pc = "run"
    /\ UNCHANGED <<flags, expired>>
    /\ KeepOwner

\* The restore job asks the owner for the saved login, again after an outage.
RestoreJob(j) ==
    /\ Running(j, "restore")
    /\ \/ j.res = "none" /\ Await(j, "restore") /\ UNCHANGED svc
       \/ j.res = "empty" /\ Publish(j, "signed_out") /\ Ends(j)
       \/ j.res \in Ended /\ Publish(j, "failed") /\ Ends(j)
       \/ /\ j.res = "unavailable"
          /\ Publish(j, "failed")
          /\ Awaits(j, [j EXCEPT !.pc = "asleep"], {})

\* The login job: begin, wait for the browser's callback, exchange the code.
LoginJob(j) ==
    /\ Running(j, "login")
    /\ \/ j.res = "none" /\ Await(j, "begin") /\ UNCHANGED svc
       \/ j.res = "begun" /\ Awaits(j, [j EXCEPT !.pc = "listen"], {}) /\ UNCHANGED svc
       \/ j.res = "code" /\ Await(j, "complete") /\ UNCHANGED svc
       \/ j.res \in Ended \union {"unavailable"} /\ Publish(j, "failed") /\ Ends(j)

\* A restored or completed login is handed to maintain_session.
Maintained(j) ==
    /\ j.kind \in {"restore", "login"}
    /\ Running(j, j.kind)
    /\ j.res = "ok"
    /\ Awaits(j, [j EXCEPT !.kind = "maintain", !.pc = "metadata", !.res = "none"],
              {Call("metadata", j.gen, None)})
    /\ UNCHANGED svc

\* Mutant: a refusal is taken for an outage.
Retried_Denied == {"unavailable", "busy", "denied"}

\* refresh_with_retry: the answers after which the renewal is tried again.
Retried == {"unavailable", "busy"}

\* maintain_session: publish the session, renew it before it expires, and keep
\* asking through an outage.
MaintainJob(j) ==
    /\ Running(j, "maintain")
    /\ \/ /\ j.res = "ok"
          /\ j.token \notin expired
          /\ IF svc.closed \/ svc.generation # j.gen \/ j.flag \in canceled
             THEN Ends(j) /\ UNCHANGED svc
             ELSE /\ svc' = [svc EXCEPT !.cancellation = j.flag, !.until = j.token,
                                        !.state = "connected"]
                  /\ Awaits(j, [j EXCEPT !.pc = "asleep"], {})
       \/ j.res = "ok" /\ j.token \in expired /\ Publish(j, "failed") /\ Ends(j)
       \/ /\ j.res \in Retried
          /\ Awaits(j, [j EXCEPT !.pc = "asleep"], {})
          /\ UNCHANGED svc
       \/ j.res \in Ended /\ Publish(j, "failed") /\ Ends(j)
       \/ /\ j.res = "none"
          /\ IF j.flag \in canceled
             THEN Publish(j, "failed") /\ Ends(j)
             ELSE Await(j, "refresh") /\ UNCHANGED svc

\* Mutant: a failed deletion is not reported.
LogoutJob_Silent(j) ==
    /\ Running(j, "logout")
    /\ \/ j.res = "none" /\ Await(j, "logout") /\ UNCHANGED svc
       \/ j.res = "ok" /\ Publish(j, "signed_out") /\ Ends(j)
       \/ j.res = "credential_store" /\ Ends(j) /\ UNCHANGED svc

\* The logout job reports what the owner's logout answered locally.
LogoutJob(j) ==
    /\ Running(j, "logout")
    /\ \/ j.res = "none" /\ Await(j, "logout") /\ UNCHANGED svc
       \/ j.res = "ok" /\ Publish(j, "signed_out") /\ Ends(j)
       \/ j.res = "credential_store" /\ Publish(j, "failed") /\ Ends(j)

\* A sleeping job wakes: a retry of the restore, or a renewal.
Wake(j) ==
    /\ j.pc = "asleep"
    /\ jobs' = (jobs \ {j}) \union {[j EXCEPT !.pc = "run", !.res = "none"]}
    /\ UNCHANGED <<svc, calls, canceled, flags, expired>>
    /\ KeepOwner

\* LoopbackLogin::wait: a code, or a refusal, a passed deadline, a browser that
\* does not open.
Callback(j, result) ==
    /\ j.pc = "listen"
    /\ jobs' = (jobs \ {j}) \union {[j EXCEPT !.pc = "run", !.res = result]}
    /\ UNCHANGED <<svc, calls, canceled, flags, expired>>
    /\ KeepOwner

\* The lifetime of a token passes.
Expire(t) ==
    /\ t \notin expired
    /\ expired' = expired \union {t}
    /\ UNCHANGED <<svc, jobs, calls, canceled, flags>>
    /\ KeepOwner

----------------------------------------------------------------------------
(* Steps of the blocking calls.  Each takes the owner's lock once, except    *)
(* that Finish holds it from saving the new login to publishing it.          *)

\* Mutant: nothing waits for the owner's lock.
LockFree_Always == TRUE

LockFree == \A c \in calls : c.pc # "publish"

At(c, kinds, pc) ==
    /\ c.kind \in kinds
    /\ c.pc = pc
    /\ UNCHANGED expired

\* begin_login_cancellable: the attempt takes the place of the current login.
Begin(c, ok) ==
    /\ At(c, {"begin"}, "start")
    /\ LockFree
    /\ UNCHANGED <<svc, grants, flags>>
    /\ IF c.flag \in canceled
       THEN ok /\ Return(c, "canceled") /\ UNCHANGED <<owner, canceled, store, failures>>
       ELSE /\ canceled' = canceled \union {owner.generation}
            /\ owner' = [generation |-> c.flag, initialized |-> TRUE, busy |-> ok,
                         session |-> NoSession]
            /\ Clear(ok)
            /\ Return(c, Cleared(ok, "begun"))

\* cancel_attempt, whose flag has been raised already.
CancelAttempt(c, ok) ==
    /\ At(c, {"cancel"}, "start")
    /\ LockFree
    /\ UNCHANGED <<svc, grants>>
    /\ Return(c, "canceled")
    /\ IF c.flag # owner.generation
       THEN ok /\ UNCHANGED <<owner, canceled, store, failures, flags>>
       ELSE Invalidate /\ Clear(ok)

Suspend(c) ==
    /\ At(c, {"suspend"}, "start")
    /\ LockFree
    /\ Invalidate
    /\ Return(c, "ok")
    /\ UNCHANGED <<svc, grants, store, failures>>

\* logout: local invalidation and deletion, then the remote revocation.
Logout(c, ok) ==
    /\ At(c, {"logout"}, "start")
    /\ LockFree
    /\ Invalidate
    /\ Clear(ok)
    /\ IF owner.session = NoSession
       THEN Return(c, Cleared(ok, "ok"))
       ELSE Goes(c, [c EXCEPT !.pc = "revoke", !.res = Cleared(ok, "ok")])
    /\ UNCHANGED <<svc, grants>>

Revoke(c) ==
    /\ At(c, {"logout"}, "revoke")
    /\ Return(c, c.res)
    /\ UNCHANGED <<svc, owner, canceled, store, flags, grants, failures>>

\* The restore call reads the owner's flag and hands it to the service.
RestoreFlag(c) ==
    /\ At(c, {"restore"}, "start")
    /\ LockFree
    /\ Goes(c, [c EXCEPT !.pc = "reserve", !.flag = owner.generation])
    /\ UNCHANGED <<svc, owner, canceled, store, flags, grants, failures>>

\* Mutant: the service does not keep the flag of the login being restored.
RestoreReserve_NotKept(c) ==
    /\ At(c, {"restore"}, "reserve")
    /\ IF svc.closed \/ svc.generation # c.gen
       THEN Return(c, "canceled")
       ELSE Goes(c, [c EXCEPT !.pc = "load"])
    /\ UNCHANGED <<svc, owner, canceled, store, flags, grants, failures>>

RestoreReserve(c) ==
    /\ At(c, {"restore"}, "reserve")
    /\ IF svc.closed \/ svc.generation # c.gen
       THEN Return(c, "canceled") /\ UNCHANGED svc
       ELSE /\ svc' = [svc EXCEPT !.cancellation = c.flag]
            /\ Goes(c, [c EXCEPT !.pc = "load"])
    /\ UNCHANGED <<owner, canceled, store, flags, grants, failures>>

\* restore_cancellable up to the network exchange.
RestoreLoad(c, ok) ==
    /\ At(c, {"restore"}, "load")
    /\ LockFree
    /\ UNCHANGED <<svc, canceled, store, flags, grants>>
    /\ IF owner.initialized \/ c.flag # owner.generation \/ c.flag \in canceled
       THEN ok /\ Return(c, "canceled") /\ UNCHANGED <<owner, failures>>
       ELSE IF ok
       THEN /\ owner' = [owner EXCEPT !.initialized = TRUE, !.busy = TRUE]
            /\ Goes(c, [c EXCEPT !.pc = IF store = None THEN "finish" ELSE "exchange",
                                 !.res = IF store = None THEN "empty" ELSE "none"])
            /\ UNCHANGED failures
       ELSE StoreFault /\ Return(c, "credential_store") /\ UNCHANGED owner

\* An outage lets the restore be tried again.
RestoreAgain(c) ==
    /\ At(c, {"restore"}, "again")
    /\ LockFree
    /\ owner' = IF c.flag = owner.generation THEN [owner EXCEPT !.initialized = FALSE] ELSE owner
    /\ Return(c, "unavailable")
    /\ UNCHANGED <<svc, canceled, store, flags, grants, failures>>

\* complete_login up to the exchange of the code.
CompleteCheck(c) ==
    /\ At(c, {"complete"}, "start")
    /\ LockFree
    /\ IF ~owner.busy \/ c.flag \in canceled \/ c.flag # owner.generation
       THEN Return(c, "canceled")
       ELSE Goes(c, [c EXCEPT !.pc = "exchange"])
    /\ UNCHANGED <<svc, owner, canceled, store, flags, grants, failures>>

\* refresh_cancellable up to the network exchange.
RefreshCheck(c) ==
    /\ At(c, {"refresh"}, "start")
    /\ LockFree
    /\ IF c.flag # owner.generation \/ c.flag \in canceled
       THEN Return(c, "canceled") /\ UNCHANGED owner
       ELSE IF owner.busy
       THEN Return(c, "busy") /\ UNCHANGED owner
       ELSE IF owner.session = NoSession
       THEN Return(c, "denied") /\ UNCHANGED owner
       ELSE /\ owner' = [owner EXCEPT !.busy = TRUE]
            /\ Goes(c, [c EXCEPT !.pc = "exchange"])
    /\ UNCHANGED <<svc, canceled, store, flags, grants, failures>>

\* The network exchange: a new token, a refusal, or no usable answer.
Exchange(c, result) ==
    /\ At(c, {"restore", "complete", "refresh"}, "exchange")
    /\ result = "ok" => grants < MaxGrants
    /\ grants' = IF result = "ok" THEN grants + 1 ELSE grants
    /\ Goes(c, [c EXCEPT !.pc = "finish", !.res = result,
                         !.token = IF result = "ok" THEN grants + 1 ELSE None])
    /\ UNCHANGED <<svc, owner, canceled, store, flags, failures>>

\* What follows finish: a refresh reads the session it published, a restore
\* that met an outage gives way to a retry.
Finished(c, result) ==
    IF c.kind = "refresh" /\ result = "ok"
    THEN Goes(c, [c EXCEPT !.pc = "session"])
    ELSE IF c.kind = "restore" /\ result = "unavailable"
    THEN Goes(c, [c EXCEPT !.pc = "again"])
    ELSE Return(c, result)

\* Mutant: the result is admitted whatever login the owner has now.
Finish_AnyLogin(c, ok) ==
    /\ At(c, {"restore", "complete", "refresh"}, "finish")
    /\ LockFree
    /\ c.res = "ok"
    /\ ok
    /\ owner' = [owner EXCEPT !.busy = FALSE]
    /\ store' = c.token
    /\ Goes(c, [c EXCEPT !.pc = "publish"])
    /\ UNCHANGED <<svc, canceled, flags, grants, failures>>

\* Mutant: a failed save leaves the old session in place.
Finish_KeepsSession(c, ok) ==
    /\ At(c, {"restore", "complete", "refresh"}, "finish")
    /\ LockFree
    /\ c.flag = owner.generation
    /\ c.flag \notin canceled
    /\ c.res = "ok"
    /\ owner' = [owner EXCEPT !.busy = FALSE]
    /\ UNCHANGED <<svc, canceled, flags, grants>>
    /\ \/ ok /\ store' = c.token /\ Goes(c, [c EXCEPT !.pc = "publish"]) /\ UNCHANGED failures
       \/ ~ok /\ StoreFault /\ store' = None /\ Finished(c, "credential_store")

\* finish, up to the save: nothing is admitted for a login that is not the owner's.
Finish(c, ok) ==
    /\ At(c, {"restore", "complete", "refresh"}, "finish")
    /\ LockFree
    /\ UNCHANGED <<svc, canceled, flags, grants>>
    /\ IF c.flag # owner.generation
       THEN ok /\ Finished(c, "canceled") /\ UNCHANGED <<owner, store, failures>>
       ELSE IF c.flag \in canceled \/ c.res = "denied"
       THEN /\ owner' = [owner EXCEPT !.busy = FALSE, !.session = NoSession]
            /\ Clear(ok)
            /\ Finished(c, Cleared(ok, IF c.flag \in canceled THEN "canceled" ELSE "denied"))
       ELSE IF c.res # "ok"
       THEN /\ ok
            /\ owner' = [owner EXCEPT !.busy = FALSE]
            /\ Finished(c, c.res)
            /\ UNCHANGED <<store, failures>>
       ELSE IF ok
       THEN /\ owner' = [owner EXCEPT !.busy = FALSE]
            /\ store' = c.token
            /\ Goes(c, [c EXCEPT !.pc = "publish"])
            /\ UNCHANGED failures
       ELSE \* A failed save may have written, and the deletion after it may fail.
            /\ StoreFault
            /\ owner' = [owner EXCEPT !.busy = FALSE, !.session = NoSession]
            /\ store' \in {None, store, c.token}
            /\ Finished(c, "credential_store")

\* finish, after the save: the flag and the lifetime are looked at again.
FinishPublish(c, ok) ==
    /\ At(c, {"restore", "complete", "refresh"}, "publish")
    /\ UNCHANGED <<svc, canceled, flags, grants>>
    /\ IF c.flag \in canceled \/ c.token \in expired
       THEN /\ owner' = [owner EXCEPT !.session = NoSession]
            /\ Clear(ok)
            /\ Finished(c, Cleared(ok, IF c.flag \in canceled THEN "canceled" ELSE "denied"))
       ELSE /\ ok
            /\ owner' = [owner EXCEPT !.session = [token |-> c.token, flag |-> c.flag]]
            /\ Finished(c, "ok")
            /\ UNCHANGED <<store, failures>>

\* session_metadata reads the session and the flag under two locks.
MetadataSession(c) ==
    /\ \/ At(c, {"metadata"}, "start")
       \/ At(c, {"refresh"}, "session")
    /\ LockFree
    /\ IF ActiveSession = NoSession
       THEN Return(c, "denied")
       ELSE Goes(c, [c EXCEPT !.pc = "flag", !.token = ActiveSession.token])
    /\ UNCHANGED <<svc, owner, canceled, store, flags, grants, failures>>

MetadataFlag(c) ==
    /\ At(c, {"metadata", "refresh"}, "flag")
    /\ LockFree
    /\ ReturnFor(c, "ok", owner.generation)
    /\ UNCHANGED <<svc, owner, canceled, store, flags, grants, failures>>

----------------------------------------------------------------------------
JobStep(j) ==
    \/ RestoreJob(j) \/ LoginJob(j) \/ Maintained(j) \/ MaintainJob(j) \/ LogoutJob(j)
    \/ Wake(j)
    \/ \E result \in {"code", "denied", "unavailable"} : Callback(j, result)

CallStep(c) ==
    \/ \E ok \in BOOLEAN : \/ Begin(c, ok) \/ CancelAttempt(c, ok) \/ Logout(c, ok)
                           \/ RestoreLoad(c, ok) \/ Finish(c, ok) \/ FinishPublish(c, ok)
    \/ Suspend(c) \/ Revoke(c) \/ RestoreFlag(c) \/ RestoreReserve(c) \/ RestoreAgain(c)
    \/ CompleteCheck(c) \/ RefreshCheck(c)
    \/ MetadataSession(c) \/ MetadataFlag(c)
    \/ \E result \in {"ok", "denied", "unavailable"} : Exchange(c, result)

Generations == 0 .. MaxRequests + MaxFailures

Next ==
    \/ \E j \in jobs : JobStep(j)
    \/ \E c \in calls : CallStep(c)
    \/ HandleStatus
    \/ \E g \in Generations : HandleStart(g)
    \/ \E g \in Generations, cancelOnly \in BOOLEAN : HandleLogout(g, cancelOnly)
    \/ Shutdown
    \/ Restart
    \/ \E t \in 1 .. grants : Expire(t)

Spec == Init /\ [][Next]_vars

\* Tasks and blocking threads are scheduled, every network exchange has a
\* timeout and the callback a deadline.  Requests, expiry and restarts may
\* never come.
FairSpec ==
    /\ Spec
    /\ \A g \in Generations : /\ WF_vars(\E j \in jobs : j.gen = g /\ JobStep(j))
                              /\ WF_vars(\E c \in calls : c.gen = g /\ CallStep(c))

----------------------------------------------------------------------------
(* Properties. *)

Flag == 0 .. flags
Token == 0 .. grants

\* Every variable keeps its type, and the owner's lock is held by one call at a time.
TypeOK ==
    /\ svc \in [generation : Generations, state : State, cancellation : Flag,
                until : Token, closed : BOOLEAN]
    /\ \A j \in jobs : /\ j.gen \in Generations /\ j.flag \in Flag /\ j.token \in Token
                       /\ j.res \in Result /\ j.aborted \in BOOLEAN
    /\ \A c \in calls : /\ c.gen \in Generations /\ c.flag \in Flag /\ c.token \in Token
                        /\ c.res \in Result
    /\ Cardinality({c \in calls : c.pc = "publish"}) <= 1
    /\ canceled \subseteq Flag
    /\ owner \in [generation : Flag, initialized : BOOLEAN, busy : BOOLEAN,
                  session : [token : Token, flag : Flag]]
    /\ store \in Token
    /\ expired \subseteq Token
    /\ failures \in 0 .. MaxFailures

\* A usable session can always be withdrawn by the service alone: the flag it
\* would raise on the next sign-in, sign-out or shutdown is the session's.  From
\* the moment a sign-out or a shutdown is accepted no caller is handed a session,
\* although calls made for the old login are still running.
LiveSessionIsRevocable ==
    ActiveSession # NoSession => /\ svc.cancellation = owner.generation
                                 /\ owner.session.flag = owner.generation
                                 /\ ~svc.closed
                                 /\ svc.state \notin {"signing_out", "signed_out"}

\* A client that is told it is signed out has no login left on the machine: no
\* exchange that was in flight saved one afterwards.
SignedOutIsForgotten ==
    (svc.state = "signed_out" /\ ~svc.closed) => store = None

\* A session in use has been saved, or a newer one has: a daemon that stops while
\* clients use a session finds that login, or its successor, when it starts again
\* (HostedSessionOwner::finish saves before it publishes).  Nothing is said of a
\* death before the save, which leaves a token the provider may have replaced.
SavedBeforePublished ==
    owner.session # NoSession => store >= owner.session.token

\* A status in transition is always followed by a settled one.
Settles == svc.state \in Transient /\ ~svc.closed ~> svc.state \notin Transient \/ svc.closed

\* A client is not left believing in a session the provider has refused.
RefusalIsReported ==
    (Observed = "connected" /\ owner.session = NoSession /\ ~svc.closed)
        ~> (Observed # "connected" \/ svc.closed)

\* "Withdraw in-memory authority at daemon shutdown without deleting restart
\* credentials" (HostedSessionOwner::suspend): once the daemon is stopping, the
\* saved login goes only if a sign-in or sign-out was under way or the provider
\* refused it.
ShutdownKeepsLogin ==
    [][(svc.closed /\ svc'.closed /\ store # None /\ store' = None) =>
         \E c \in calls : c.kind \in {"begin", "cancel", "logout"} \/ c.res = "denied"]_vars
=============================================================================
