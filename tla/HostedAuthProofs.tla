--------------------------- MODULE HostedAuthProofs ---------------------------
(***************************************************************************)
(* Hosted sign-in, for any number of requests, grants, restarts and faults *)
(* of the credential store: a usable session is one the service can        *)
(* withdraw, a client told it is signed out has no login left on the       *)
(* machine, and a published session has been saved.                        *)
(*                                                                         *)
(* The argument follows a flag.  A job or a call may still do something    *)
(* for the login of a flag only if that flag has been raised or is the one *)
(* the service holds (Held); the owner works for one call at a time        *)
(* (OneWorker); and what a job has read from the owner is the owner's flag *)
(* or one that was raised when the owner took another (ReadFlags).         *)
(***************************************************************************)
EXTENDS HostedAuth, FiniteSetTheorems, TLAPS

(* The job or the call x is not of the service's current generation.       *)
Stale(x) == svc.closed \/ x.gen # svc.generation

(* A job waits for every call but those made by dropping or stopping.      *)
Awaited(c) == c.kind \notin {"cancel", "suspend"}

Jobs ==
  [kind : {"restore", "login", "maintain", "logout"}, gen : Nat, flag : Nat,
   pc : {"run", "asleep", "listen", "restore", "begin", "complete", "metadata",
         "refresh", "logout"},
   res : Result, token : Nat, aborted : BOOLEAN]
Calls ==
  [kind : {"restore", "begin", "complete", "metadata", "refresh", "logout",
           "cancel", "suspend"},
   gen : Nat, flag : Nat,
   pc : {"start", "reserve", "load", "exchange", "finish", "publish", "again",
         "session", "flag", "revoke"},
   res : Result, token : Nat]

StateTypes ==
  /\ flags \in Nat /\ grants \in Nat
  /\ failures \in Nat /\ failures <= MaxFailures
  /\ canceled \subseteq Nat /\ \A f \in canceled : f <= flags
  /\ expired \subseteq Nat /\ \A t \in expired : t <= grants
  /\ store \in Nat /\ store <= grants
ServiceTypes ==
  /\ svc \in [generation : Nat, state : State, cancellation : Nat, until : Nat,
              closed : BOOLEAN]
  /\ svc.cancellation <= flags /\ svc.until <= grants
  /\ svc.generation <= MaxRequests + failures
OwnerTypes ==
  /\ owner \in [generation : Nat, initialized : BOOLEAN, busy : BOOLEAN,
                session : [token : Nat, flag : Nat]]
  /\ owner.generation # None /\ owner.generation <= flags
  /\ owner.session.token <= grants /\ owner.session.flag <= flags
ElementTypes ==
  /\ jobs \subseteq Jobs
  /\ calls \subseteq Calls
  /\ \A x \in jobs \union calls : /\ x.gen <= svc.generation
                                  /\ x.flag <= flags /\ x.token <= grants
Types == StateTypes /\ ServiceTypes /\ OwnerTypes /\ ElementTypes

(* A job has a generation of its own; it is aborted when its generation    *)
(* has passed, and then it is not at an await.                             *)
Fits(j) ==
  /\ j.aborted => j.pc = "run"
  /\ j.kind = "restore" => j.pc \in {"run", "restore", "asleep"}
  /\ j.kind = "login" => j.pc \in {"run", "begin", "listen", "complete"}
  /\ j.kind = "maintain" => j.pc \in {"run", "metadata", "refresh", "asleep"}
  /\ j.kind = "logout" => j.pc \in {"run", "logout"}
  /\ j.pc \notin {"run", "asleep", "listen"} => j.res = "none"
  /\ j.pc = "listen" => j.res = "begun"
JobsInOrder ==
  /\ \A i, j \in jobs : i.gen = j.gen => i = j
  /\ \A j \in jobs : (j.aborted <=> Stale(j)) /\ Fits(j)

(* A job has at most one call that it waits for, and is at that await.     *)
Answered(c) ==
  /\ c.pc = "revoke" => c.res \in {"ok", "credential_store"}
  /\ c.pc = "finish" => c.res \in {"ok", "denied", "unavailable", "empty"}
OneCall ==
  /\ \A c \in calls : Answered(c)
  /\ \A c, d \in calls : Awaited(c) /\ Awaited(d) /\ c.gen = d.gen => c = d
  /\ \A c \in calls, j \in jobs : Awaited(c) /\ j.gen = c.gen =>
        j.pc = c.kind /\ (j.kind = "login" => j.flag = c.flag)

(* A sign-in has a flag of its own.                                        *)
Attempt(x) == x.kind \in {"login", "begin", "complete"}
OneAttempt ==
  \A x, y \in jobs \union calls : Attempt(x) /\ Attempt(y) =>
     /\ x.flag # None
     /\ x.flag = y.flag => x.gen = y.gen

Order == JobsInOrder /\ OneCall /\ OneAttempt

(* Before its begin the flag of a sign-in is known to nobody else.         *)
Unbegun(x) ==
  \/ x.kind = "begin"
  \/ x.kind = "login" /\ x.pc = "begin"
  \/ x.kind = "login" /\ x.pc = "run" /\ x.res = "none"
UnbegunIsFresh ==
  \A b \in jobs \union calls : Unbegun(b) =>
     /\ b.flag # owner.generation
     /\ \A x \in jobs \union calls : x.flag = b.flag => x.gen = b.gen

(* The owner works for one call at a time: busy is for the one that has    *)
(* not been answered, and only a renewal has a session to replace.         *)
AtWork(c) == c.pc \in {"exchange", "finish", "publish", "again"}
Works(c) == AtWork(c) /\ c.flag = owner.generation
OneWorker ==
  /\ \A c, d \in calls : Works(c) /\ Works(d) => c = d
  /\ \A c \in calls : AtWork(c) => c.kind \in {"restore", "complete", "refresh"}
  /\ \A c \in calls : c.pc = "again" => c.kind = "restore"
  /\ \A c \in calls : Works(c) =>
        /\ owner.initialized
        /\ owner.busy <=> c.pc \in {"exchange", "finish"}
        /\ c.kind # "refresh" => owner.session = NoSession
  /\ ~owner.initialized => owner.session = NoSession /\ ~owner.busy

(* Between its begin and its exchange a sign-in has the owner to itself.   *)
Begun(x) ==
  \/ x.kind = "login" /\ x.res \in {"begun", "code"}
  \/ x.kind = "complete" /\ x.pc = "start"
BegunIsAlone ==
  \A y \in jobs \union calls : Begun(y) /\ y.flag = owner.generation =>
     /\ owner.session = NoSession /\ owner.initialized
     /\ \A c \in calls : ~Works(c)

(* The login that is saved is not older than the one that is published.    *)
Publication ==
  /\ owner.session # NoSession =>
        owner.session.flag = owner.generation /\ store >= owner.session.token
  /\ \A c \in calls : c.pc = "publish" => c.flag = owner.generation /\ store = c.token
  /\ \A c, d \in calls : c.pc = "publish" /\ d.pc = "publish" => c = d
  /\ \A c \in calls : c.pc = "finish" /\ c.res = "ok" /\ c.flag = owner.generation =>
        c.token >= owner.session.token

(* What the renewals have read is the owner's flag or has been raised.     *)
Renewal(x) == x.kind = "refresh" \/ (x.kind = "maintain" /\ x.pc # "metadata")
ReadFlags ==
  /\ \A x \in jobs \union calls : Renewal(x) =>
        x.flag \in canceled \union {owner.generation, None}
  /\ \A c \in calls : c.kind = "metadata" => c.flag = None
  /\ \A j \in jobs : j.kind = "maintain" /\ j.res = "ok" => j.flag # None

(* A renewal whose generation has passed is not for the login the service  *)
(* holds, nor does it outlive the begin of the next.                       *)
StaleRenewals ==
  \A x \in jobs \union calls :
     Renewal(x) /\ Stale(x) /\ x.flag \notin canceled \union {None} =>
        /\ x.flag # svc.cancellation
        /\ ~svc.closed => \A j \in jobs : j.gen = svc.generation =>
              j.kind # "maintain" /\ (j.res = "ok" => j.kind = "logout")

(* The service holds the flag f and says so to nobody who signed out.      *)
Holds(f) ==
  /\ f # None /\ svc.cancellation = f /\ ~svc.closed
  /\ svc.state \notin {"signing_out", "signed_out"}
Claims(x) ==
  \/ Attempt(x)
  \/ x.kind = "restore" /\ x.pc \in {"load", "exchange", "finish", "publish"}
Held ==
  /\ \A x \in jobs \union calls : Claims(x) =>
        x.flag \in canceled \/ (Holds(x.flag) /\ x.gen = svc.generation)
  /\ \A c \in calls : c.kind = "refresh" /\ c.pc \in {"exchange", "finish", "publish"} =>
        c.flag \in canceled \/ Holds(c.flag)
  /\ owner.session # NoSession =>
        owner.generation \in canceled \/ Holds(owner.generation)

(* Nothing but the restore runs until it ends; what it found missing is    *)
(* missing.                                                                *)
RestoreAlone ==
  /\ \A x \in jobs \union calls : x.kind = "restore" /\ ~Stale(x) =>
        /\ \A y \in jobs \union calls : y.kind = "restore" /\ y.gen = svc.generation
        /\ svc.state \in {"restoring", "failed"}
        /\ x.res = "empty" => owner.session = NoSession /\ store = None
  /\ \A c \in calls : c.kind = "restore" /\ ~Stale(c) /\ c.pc # "start" =>
        c.flag = owner.generation

(* During a sign-out the service holds nothing; what was deleted stays so. *)
LogoutForgets ==
  \A x \in jobs \union calls : x.kind = "logout" /\ ~Stale(x) =>
     /\ svc.cancellation = None
     /\ x.res = "ok" => store = None

Flags ==
  /\ UnbegunIsFresh /\ OneWorker /\ BegunIsAlone /\ Publication /\ ReadFlags
  /\ StaleRenewals /\ Held /\ RestoreAlone /\ LogoutForgets /\ SignedOutIsForgotten

(* The inductive invariant.                                                *)
AuthInv == Types /\ Order /\ Flags

----------------------------------------------------------------------------
(* The shapes of the steps. *)

(* The job k is the job j after its call returned r, with the flag f and   *)
(* the token t.                                                            *)
Receives(k, j, r, f, t) ==
  /\ k \in Jobs /\ k.kind = j.kind /\ k.gen = j.gen /\ k.aborted = j.aborted
  /\ k.pc = "run" /\ k.res = r /\ k.flag = f /\ k.token = t

(* The call c returns r.                                                   *)
Returned(c, r, f) ==
  /\ \A x \in calls' : x \in calls /\ x # c
  /\ \A k \in jobs' :
        \/ k \in jobs /\ (Awaited(c) => k.gen # c.gen)
        \/ \E j \in jobs : /\ j.gen = c.gen /\ j.pc = c.kind
                           /\ Receives(k, j, r, f, c.token)

(* The call c goes on as d.                                                *)
Moved(c, d) ==
  /\ \A x \in calls' : (x \in calls /\ x # c) \/ x = d
  /\ jobs' = jobs
  /\ d \in Calls /\ d.kind = c.kind /\ d.gen = c.gen

(* What both leave: the call c becomes one of D, or returns r.             *)
Stepped(c, D, r, f) ==
  /\ \A x \in calls' : (x \in calls /\ x # c) \/ x \in D
  /\ \A k \in jobs' :
        \/ k \in jobs
        \/ \E j \in jobs : /\ j.gen = c.gen /\ j.pc = c.kind
                           /\ Receives(k, j, r, f, c.token)

SameGeneration == svc'.generation = svc.generation /\ svc'.closed = svc.closed

LEMMA ReturnForm ==
  ASSUME Types, Order, NEW c \in calls, NEW r \in Result, NEW f \in Nat,
         ReturnFor(c, r, f)
  PROVE  Returned(c, r, f)
<1>1. \A x \in calls' : x \in calls /\ x # c
  BY DEF ReturnFor
<1>2. ASSUME NEW k \in jobs'
      PROVE  \/ k \in jobs /\ (Awaited(c) => k.gen # c.gen)
             \/ \E j \in jobs : /\ j.gen = c.gen /\ j.pc = c.kind
                                /\ Receives(k, j, r, f, c.token)
  <2>1. PICK j \in jobs : k = IF j.gen = c.gen /\ j.pc = c.kind
                              THEN [j EXCEPT !.pc = "run", !.res = r, !.flag = f,
                                             !.token = c.token]
                              ELSE j
    BY <1>2 DEF ReturnFor
  <2>2. j \in Jobs /\ c \in Calls
    BY DEF Types, ElementTypes
  <2>3. CASE j.gen = c.gen /\ j.pc = c.kind
    BY <2>1, <2>2, <2>3 DEF Receives, Jobs, Calls
  <2>4. CASE ~(j.gen = c.gen /\ j.pc = c.kind)
    BY <2>1, <2>4 DEF Order, OneCall
  <2> QED BY <2>3, <2>4
<1> QED BY <1>1, <1>2 DEF Returned

LEMMA ReturnedIsStepped ==
  ASSUME NEW c, NEW r, NEW f, Returned(c, r, f)
  PROVE  Stepped(c, {}, r, f)
BY DEF Returned, Stepped

(* A call that goes on keeps the order of jobs and calls.                  *)
LEMMA MovedKeepsOrder ==
  ASSUME Types, Order, NEW c \in calls, NEW d, Moved(c, d),
         d.flag = c.flag \/ c.kind = "restore", Answered(d),
         SameGeneration
  PROVE  Order'
<1>1. JobsInOrder'
  BY DEF Order, JobsInOrder, Moved, SameGeneration, Stale, Fits
<1>2. OneCall'
  BY DEF Types, ElementTypes, Order, OneCall, JobsInOrder, Fits, Moved, Awaited, Jobs, Answered
<1>3. OneAttempt'
  BY DEF Order, OneAttempt, Attempt, Moved
<1> QED BY <1>1, <1>2, <1>3 DEF Order

(* So does a call that returns, since its job had no other.                *)
LEMMA ReturnedKeepsOrder ==
  ASSUME Types, Order, NEW c \in calls, NEW r, NEW f, Returned(c, r, f),
         c.kind \in {"begin", "complete"} => f = c.flag,
         SameGeneration
  PROVE  Order'
<1> DEFINE Came(k) == \E j \in jobs : /\ j.gen = c.gen /\ j.pc = c.kind
                                      /\ Receives(k, j, r, f, c.token)
<1>0. \A k \in jobs' : \/ k \in jobs /\ (Awaited(c) => k.gen # c.gen)
                       \/ Came(k)
  BY DEF Returned
<1>a. \A k : Came(k) => /\ k.gen = c.gen /\ k.pc = "run" /\ Awaited(c)
                        /\ Stale(k) <=> k.aborted
                        /\ ~k.aborted /\ Fits(k)
                        /\ k.kind = "login" => /\ f = c.flag
                                               /\ k.flag = c.flag
  BY DEF Receives, Types, ElementTypes, Order, JobsInOrder, OneCall, Fits, Awaited,
         Jobs, Calls, Stale
<1>1. JobsInOrder'
  <2>1. ASSUME NEW i \in jobs', NEW k \in jobs', i.gen = k.gen  PROVE i = k
    <3>1. CASE i \in jobs /\ k \in jobs
      BY <2>1, <3>1 DEF Order, JobsInOrder
    <3>2. CASE Came(i) /\ Came(k)
      <4>1. PICK j \in jobs : j.gen = c.gen /\ Receives(i, j, r, f, c.token)
        BY <3>2
      <4>2. PICK h \in jobs : h.gen = c.gen /\ Receives(k, h, r, f, c.token)
        BY <3>2
      <4>3. j = h
        BY <4>1, <4>2 DEF Order, JobsInOrder
      <4> QED BY <4>1, <4>2, <4>3 DEF Receives, Jobs
    <3> QED BY <1>0, <1>a, <2>1, <3>1, <3>2
  <2>2. \A k \in jobs' : (k.aborted <=> Stale(k)) /\ Fits(k)
    BY <1>0, <1>a DEF Order, JobsInOrder
  <2>3. \A k : Stale(k)' <=> Stale(k)
    BY DEF SameGeneration, Stale
  <2> QED BY <2>1, <2>2, <2>3 DEF JobsInOrder, Fits
<1>2. OneCall'
  BY <1>0, <1>a DEF Returned, Order, OneCall, Awaited, Answered
<1>3. OneAttempt'
  <2>1. \A x \in jobs' \union calls' : Attempt(x) =>
           \E y \in jobs \union calls : Attempt(y) /\ y.flag = x.flag /\ y.gen = x.gen
    <3>1. \A k : Came(k) /\ Attempt(k) =>
             \E y \in jobs : Attempt(y) /\ y.flag = k.flag /\ y.gen = k.gen
      BY <1>a DEF Receives, Attempt, Order, OneCall, Jobs
    <3>2. \A x \in calls' : x \in calls
      BY DEF Returned
    <3> QED BY <1>0, <3>1, <3>2
  <2> QED BY <2>1 DEF Order, OneAttempt, Attempt
<1> QED BY <1>1, <1>2, <1>3 DEF Order

(* A job j that is at no call becomes one of K and makes the calls M.      *)
JobMoved(j, K, M) ==
  /\ \A i \in jobs' : (i \in jobs /\ i # j) \/ i \in K
  /\ \A x \in calls' : x \in calls \/ x \in M

(* What it may become: nothing if it is aborted, and one that goes on with *)
(* what it has.                                                            *)
Becomes(j, k) ==
  /\ ~j.aborted /\ ~k.aborted
  /\ k \in Jobs /\ k.gen = j.gen /\ k.flag = j.flag /\ k.token = j.token
  /\ Fits(k)
  /\ \/ k.kind = j.kind
     \/ /\ k.kind = "maintain" /\ k.pc = "metadata" /\ k.res = "none"
        /\ j.kind \in {"restore", "login"} /\ j.res = "ok"
  /\ Unbegun(k) => Unbegun(j)
  /\ Begun(k) => Begun(j)
  /\ k.res \in {"ok", "empty"} => k.res = j.res

(* The calls it may make.                                                  *)
Makes(j, x) ==
  /\ x \in Calls /\ x.gen = j.gen
  /\ x.pc = "start" /\ x.res = "none" /\ x.token = None
  /\ x.kind # "suspend"
  /\ x.flag = IF x.kind = "metadata" THEN None ELSE j.flag
  /\ x.kind \in {"begin", "complete", "cancel"} => j.kind = "login"
  /\ x.kind \in {"restore", "logout"} => x.kind = j.kind
  /\ x.kind = "refresh" => j.kind = "maintain"
  /\ x.kind = "metadata" => j.kind \in {"restore", "login"} /\ j.res = "ok"
  /\ Unbegun(x) => Unbegun(j)
  /\ Begun(x) => Begun(j)

Follows(j, K, M) ==
  /\ j.pc \in {"run", "asleep", "listen"}
  /\ \A k \in K : Becomes(j, k)
  /\ \A i, k \in K : i = k
  /\ \A x \in M : Makes(j, x)
  /\ \A x, y \in M : Awaited(x) /\ Awaited(y) => x = y
  /\ \A x \in M, k \in K : Awaited(x) => x.kind = k.pc

LEMMA JobMovedKeepsOrder ==
  ASSUME Types, Order, NEW j \in jobs, NEW K, NEW M, Follows(j, K, M),
         JobMoved(j, K, M), SameGeneration
  PROVE  Order'
<1>1. JobsInOrder'
  <2>1. \A i, k \in jobs' : i.gen = k.gen => i = k
    BY DEF Order, JobsInOrder, JobMoved, Follows, Becomes
  <2>2. \A k \in jobs' : (k.aborted <=> Stale(k)) /\ Fits(k)
    BY DEF Order, JobsInOrder, JobMoved, Follows, Becomes, Stale
  <2>3. \A k : Stale(k)' <=> Stale(k)
    BY DEF SameGeneration, Stale
  <2> QED BY <2>1, <2>2, <2>3 DEF JobsInOrder, Fits
<1>2. OneCall'
  <2>0. \A c \in calls : Awaited(c) => c.gen # j.gen
    BY DEF Order, OneCall, Follows, Types, ElementTypes, Calls
  <2>1. \A c, d \in calls' : Awaited(c) /\ Awaited(d) /\ c.gen = d.gen => c = d
    BY <2>0 DEF Order, OneCall, JobMoved, Follows, Makes
  <2>2. ASSUME NEW c \in calls', NEW k \in jobs', Awaited(c), k.gen = c.gen
        PROVE  k.pc = c.kind /\ (k.kind = "login" => k.flag = c.flag)
    <3>1. CASE k \in jobs /\ k # j
      <4>1. c \in calls
        BY <2>2, <3>1 DEF Order, JobsInOrder, JobMoved, Follows, Makes
      <4> QED BY <2>2, <3>1, <4>1 DEF Order, OneCall
    <3>2. CASE k \in K
      <4>1. c \in M
        BY <2>0, <2>2, <3>2 DEF JobMoved, Follows, Becomes
      <4> QED BY <2>2, <3>2, <4>1 DEF Follows, Makes, Becomes, Fits
    <3> QED BY <2>2, <3>1, <3>2 DEF JobMoved
  <2>3. \A c \in calls' : Answered(c)
    BY DEF Order, OneCall, JobMoved, Follows, Makes, Answered
  <2> QED BY <2>1, <2>2, <2>3 DEF OneCall, Awaited, Answered
<1>3. OneAttempt'
  <2>1. \A x \in jobs' \union calls' : Attempt(x) =>
           \E y \in jobs \union calls : Attempt(y) /\ y.flag = x.flag /\ y.gen = x.gen
    <3>1. \A k \in K : Attempt(k) => Attempt(j) /\ j.flag = k.flag /\ j.gen = k.gen
      BY DEF Follows, Becomes, Attempt
    <3>2. \A x \in M : Attempt(x) => Attempt(j) /\ j.flag = x.flag /\ j.gen = x.gen
      BY DEF Follows, Makes, Attempt, Calls
    <3> QED BY <3>1, <3>2 DEF JobMoved
  <2> QED BY <2>1 DEF Order, OneAttempt, Attempt
<1> QED BY <1>1, <1>2, <1>3 DEF Order

(* A request or the shutdown: every job that stays is aborted, and the     *)
(* calls M for the dropped ones join a new job of N.                       *)
Drops(x) ==
  /\ x \in Calls /\ x.kind = "cancel" /\ x.pc = "start"
  /\ x.res = "none" /\ x.token = None
  /\ \E j \in jobs : j.kind = "login" /\ x.gen = j.gen /\ x.flag = j.flag
Suspends(x) == x = Call("suspend", svc.generation, None)
Aborts(i, j) ==
  /\ j.pc = "run" /\ i \in Jobs /\ i.aborted
  /\ i.kind = j.kind /\ i.gen = j.gen /\ i.flag = j.flag /\ i.pc = j.pc
  /\ i.res = j.res /\ i.token = j.token
Opens(n) == /\ n.gen = svc.generation + 1
            /\ \/ n = Job("login", svc.generation + 1, flags + 1)
               \/ n = Job("logout", svc.generation + 1, None)
Requests(N) ==
  /\ \A i \in jobs' : (\E j \in jobs : Aborts(i, j)) \/ i \in N
  /\ \A x \in calls' : x \in calls \/ Drops(x) \/ Suspends(x)
  /\ \A n \in N : Opens(n) /\ ~svc'.closed
  /\ \A n, m \in N : n = m
  /\ svc'.closed \/ svc'.generation = svc.generation + 1

LEMMA RequestKeepsOrder ==
  ASSUME Types, Order, NEW N, Requests(N)
  PROVE  Order'
<1>0. svc.generation \in Nat /\ \A x \in jobs \union calls : x.gen \in Nat /\ x.gen <= svc.generation
  BY DEF Types, ServiceTypes, ElementTypes, Jobs, Calls
<1>n. \A n \in N : /\ n.gen = svc.generation + 1 /\ ~n.aborted /\ n.pc = "run"
                   /\ n.res = "none" /\ n.kind \in {"login", "logout"}
                   /\ n.kind = "login" => n.flag = flags + 1
  BY DEF Requests, Opens, Job
<1>c. \A x \in calls' : x \in calls \/ (x.gen \in Nat /\ x.gen <= svc.generation /\ x.kind \in {"cancel", "suspend"})
  BY <1>0 DEF Requests, Drops, Suspends, Call, Calls
<1>1. JobsInOrder'
  <2>1. \A i, k \in jobs' : i.gen = k.gen => i = k
    <3>1. ASSUME NEW i, NEW k, NEW j \in jobs, NEW h \in jobs, Aborts(i, j), Aborts(k, h), i.gen = k.gen
          PROVE  i = k
      <4>1. j = h
        BY <3>1 DEF Aborts, Order, JobsInOrder
      <4> QED BY <3>1, <4>1 DEF Aborts, Jobs
    <3>2. \A i, n : \A j \in jobs : n \in N /\ Aborts(i, j) => i.gen # n.gen
      BY <1>0, <1>n DEF Aborts
    <3> QED BY <3>1, <3>2 DEF Requests
  <2>2. \A k \in jobs' : (k.aborted <=> Stale(k)') /\ Fits(k)
    <3>1. ASSUME NEW i, NEW j \in jobs, Aborts(i, j)
          PROVE  i.aborted /\ Stale(i)' /\ Fits(i)
      BY <1>0, <3>1 DEF Aborts, Requests, Stale, Fits
    <3>2. \A n \in N : ~n.aborted /\ ~Stale(n)' /\ Fits(n)
      BY <1>n DEF Requests, Stale, Fits
    <3> QED BY <3>1, <3>2 DEF Requests
  <2> QED BY <2>1, <2>2 DEF JobsInOrder, Fits
<1>2. OneCall'
  <2>1. \A c \in calls' : Awaited(c) => c \in calls
    BY <1>c DEF Awaited
  <2>2. ASSUME NEW c \in calls, NEW k \in jobs', Awaited(c), k.gen = c.gen
        PROVE  FALSE
    <3>1. PICK j \in jobs : Aborts(k, j)
      BY <1>0, <1>n, <2>2 DEF Requests
    <3> QED BY <2>2, <3>1 DEF Aborts, Order, OneCall, Types, ElementTypes, Calls
  <2>3. \A c \in calls' : Answered(c)
    BY DEF Order, OneCall, Requests, Drops, Suspends, Call, Answered
  <2> QED BY <2>1, <2>2, <2>3 DEF Order, OneCall, Awaited, Answered
<1>3. OneAttempt'
  <2>1. \A x \in jobs' \union calls' : Attempt(x) =>
           \/ x \in N
           \/ \E y \in jobs \union calls : Attempt(y) /\ y.flag = x.flag /\ y.gen = x.gen
    BY <1>c DEF Requests, Aborts, Attempt
  <2>2. \A n \in N : Attempt(n) => n.flag = flags + 1
    BY <1>n DEF Attempt
  <2>3. flags \in Nat /\ \A y \in jobs \union calls : y.flag \in Nat /\ y.flag <= flags
    BY DEF Types, StateTypes, ElementTypes, Jobs, Calls
  <2>4. \A x, y \in jobs' \union calls' : Attempt(x) /\ Attempt(y) =>
           x.flag # None /\ (x.flag = y.flag => x.gen = y.gen)
    BY <1>n, <2>1, <2>2, <2>3 DEF Order, OneAttempt, None
  <2> QED BY <2>4 DEF OneAttempt, Attempt
<1> QED BY <1>1, <1>2, <1>3 DEF Order

----------------------------------------------------------------------------
(* Steps of the jobs: the owner and the store are left alone. *)

(* What a job becomes and makes is for its own generation and flag.        *)
LEMMA JobDescends ==
  ASSUME Types, Order, NEW j \in jobs, NEW K, NEW M, Follows(j, K, M)
  PROVE  \A x : x \in K \/ x \in M =>
            /\ x.gen = j.gen
            /\ x.flag = j.flag \/ (x.kind = "metadata" /\ x.flag = None)
            /\ Unbegun(x) => Unbegun(j) /\ x.flag = j.flag
            /\ Begun(x) => Begun(j) /\ x.flag = j.flag
            /\ Attempt(x) => Attempt(j) /\ x.flag = j.flag
            /\ Claims(x) => Attempt(j) /\ x.flag = j.flag
            /\ Renewal(x) => Renewal(j) /\ x.flag = j.flag
<1>1. ASSUME NEW x \in K  PROVE /\ x.gen = j.gen /\ x.flag = j.flag
                                /\ Unbegun(x) => Unbegun(j)
                                /\ Begun(x) => Begun(j)
                                /\ Attempt(x) => Attempt(j)
                                /\ Claims(x) => Attempt(j)
                                /\ Renewal(x) => Renewal(j)
  <2>1. Becomes(j, x) /\ j.pc # "metadata"
    BY DEF Follows
  <2>2. Claims(x) => Attempt(x)
    BY <2>1 DEF Becomes, Claims, Jobs
  <2>3. Attempt(x) => Attempt(j)
    BY <2>1 DEF Becomes, Attempt, Jobs
  <2>4. Renewal(x) => Renewal(j)
    BY <2>1 DEF Becomes, Renewal, Jobs
  <2> QED BY <2>1, <2>2, <2>3, <2>4 DEF Becomes
<1>2. ASSUME NEW x \in M  PROVE /\ x.gen = j.gen
                                /\ x.flag = j.flag \/ (x.kind = "metadata" /\ x.flag = None)
                                /\ Unbegun(x) => Unbegun(j) /\ x.flag = j.flag
                                /\ Begun(x) => Begun(j) /\ x.flag = j.flag
                                /\ Attempt(x) => Attempt(j) /\ x.flag = j.flag
                                /\ Claims(x) => Attempt(j) /\ x.flag = j.flag
                                /\ Renewal(x) => Renewal(j) /\ x.flag = j.flag
  <2>1. Makes(j, x) /\ j.pc # "metadata"
    BY DEF Follows
  <2>2. Attempt(x) => Attempt(j) /\ x.flag = j.flag
    BY <2>1 DEF Makes, Attempt, Calls
  <2>3. Claims(x) => Attempt(j) /\ x.flag = j.flag
    BY <2>1, <2>2 DEF Makes, Claims, Calls
  <2>4. Renewal(x) => Renewal(j) /\ x.flag = j.flag
    BY <2>1 DEF Makes, Renewal, Calls
  <2>5. /\ Unbegun(x) => Unbegun(j) /\ x.flag = j.flag
        /\ Begun(x) => Begun(j) /\ x.flag = j.flag
    BY <2>1 DEF Makes, Unbegun, Begun, Calls
  <2> QED BY <2>1, <2>2, <2>3, <2>4, <2>5 DEF Makes
<1> QED BY <1>1, <1>2

LEMMA JobMovedKeepsOwner ==
  ASSUME Types, Order, Flags, NEW j \in jobs, NEW K, NEW M, Follows(j, K, M),
         JobMoved(j, K, M), owner' = owner, store' = store, canceled \subseteq canceled'
  PROVE  UnbegunIsFresh' /\ OneWorker' /\ BegunIsAlone' /\ Publication' /\ ReadFlags'
<1>0. \A x \in jobs' \union calls' : x \in jobs \union calls \/ x \in K \/ x \in M
  BY DEF JobMoved
<1>a. \A x : x \in K \/ x \in M =>
            /\ x.gen = j.gen
            /\ x.flag = j.flag \/ (x.kind = "metadata" /\ x.flag = None)
            /\ Unbegun(x) => Unbegun(j) /\ x.flag = j.flag
            /\ Begun(x) => Begun(j) /\ x.flag = j.flag
            /\ Attempt(x) => Attempt(j) /\ x.flag = j.flag
            /\ Renewal(x) => Renewal(j) /\ x.flag = j.flag
  BY JobDescends
<1>b. \A x \in calls' : x \in calls \/ (x.pc = "start" /\ (x.kind = "metadata" => x.flag = None))
  BY DEF JobMoved, Follows, Makes
<1>1. UnbegunIsFresh'
  <2>1. \A b \in jobs \union calls : Unbegun(b) =>
           /\ b.flag # owner.generation /\ b.flag # None
           /\ \A x \in jobs \union calls : x.flag = b.flag => x.gen = b.gen
    BY DEF Flags, UnbegunIsFresh, Unbegun, Order, OneAttempt, Attempt
  <2>2. \A b \in jobs' \union calls' : Unbegun(b) =>
           /\ b.flag # owner.generation
           /\ \A x \in jobs' \union calls' : x.flag = b.flag => x.gen = b.gen
    BY <1>0, <1>a, <2>1
  <2> QED BY <2>2 DEF UnbegunIsFresh, Unbegun
<1>2. OneWorker'
  <2>1. \A c \in calls' : AtWork(c) => c \in calls
    BY <1>b DEF AtWork
  <2> QED BY <2>1 DEF Flags, OneWorker, Works, AtWork
<1>3. BegunIsAlone'
  <2>1. \A c \in calls' : Works(c) => c \in calls
    BY <1>b DEF Works, AtWork
  <2>2. \A y \in jobs' \union calls' : Begun(y) /\ y.flag = owner.generation =>
           /\ owner.session = NoSession /\ owner.initialized
           /\ \A c \in calls : ~Works(c)
    BY <1>0, <1>a DEF Flags, BegunIsAlone
  <2> QED BY <2>1, <2>2 DEF BegunIsAlone, Begun, Works, AtWork
<1>4. Publication'
  BY <1>b DEF Flags, Publication
<1>5. ReadFlags'
  <2>1. \A x \in jobs' \union calls' : Renewal(x) =>
           x.flag \in canceled \union {owner.generation, None}
    BY <1>0, <1>a DEF Flags, ReadFlags
  <2>2. \A c \in calls' : c.kind = "metadata" => c.flag = None
    BY <1>b DEF Flags, ReadFlags
  <2>3. \A k \in jobs' : k.kind = "maintain" /\ k.res = "ok" => k.flag # None
    BY DEF Flags, ReadFlags, JobMoved, Follows, Becomes
  <2> QED BY <2>1, <2>2, <2>3 DEF ReadFlags, Renewal
<1> QED BY <1>1, <1>2, <1>3, <1>4, <1>5

(* The service's status is left alone or falls to failed.                  *)
ServiceCalm ==
  /\ SameGeneration /\ svc'.cancellation = svc.cancellation
  /\ svc'.state \in {svc.state, "failed"}

LEMMA JobMovedKeepsService ==
  ASSUME Types, Order, Flags, NEW j \in jobs, NEW K, NEW M, Follows(j, K, M),
         JobMoved(j, K, M), owner' = owner, store' = store, canceled \subseteq canceled',
         ServiceCalm
  PROVE  /\ StaleRenewals' /\ Held' /\ RestoreAlone' /\ LogoutForgets'
         /\ SignedOutIsForgotten'
<1>0. \A x \in jobs' \union calls' : x \in jobs \union calls \/ x \in K \/ x \in M
  BY DEF JobMoved
<1>a. \A x : x \in K \/ x \in M =>
            /\ x.gen = j.gen
            /\ Attempt(x) => Attempt(j) /\ x.flag = j.flag
            /\ Claims(x) => Attempt(j) /\ x.flag = j.flag
            /\ Renewal(x) => Renewal(j) /\ x.flag = j.flag
  BY JobDescends
<1>b. \A x \in calls' : x \in calls \/ (x.pc = "start" /\ x.res = "none")
  BY DEF JobMoved, Follows, Makes
<1>s. /\ \A x : Stale(x)' <=> Stale(x)
      /\ \A f : Holds(f) => Holds(f)'
  BY DEF ServiceCalm, SameGeneration, Stale, Holds
<1>k. \A k \in K : ~Stale(j)
  BY DEF Follows, Becomes, Order, JobsInOrder
<1>1. StaleRenewals'
  <2>1. ASSUME NEW x \in jobs' \union calls', Renewal(x), Stale(x), x.flag \notin canceled' \union {None}
        PROVE  \E y \in jobs \union calls : /\ Renewal(y) /\ Stale(y) /\ y.flag = x.flag
                                            /\ y.flag \notin canceled \union {None}
    BY <1>0, <1>a, <2>1 DEF Stale
  <2>2. ASSUME NEW x \in jobs' \union calls', Renewal(x), Stale(x), x.flag \notin canceled' \union {None}
        PROVE  /\ x.flag # svc.cancellation
               /\ ~svc.closed => \A i \in jobs : i.gen = svc.generation =>
                     i.kind # "maintain" /\ (i.res = "ok" => i.kind = "logout")
    BY <2>1, <2>2 DEF Flags, StaleRenewals
  <2>3. \A k \in K : k.kind = "maintain" => j.kind = "maintain" \/ (j.res = "ok" /\ j.kind # "logout")
    BY DEF Follows, Becomes
  <2>4. \A k \in K : k.res = "ok" /\ k.kind # "logout" => j.res = "ok" /\ j.kind # "logout"
    BY DEF Follows, Becomes
  <2>5. ASSUME NEW x \in jobs' \union calls', Renewal(x), Stale(x), x.flag \notin canceled' \union {None}
        PROVE  /\ x.flag # svc.cancellation
               /\ ~svc.closed => \A i \in jobs' : i.gen = svc.generation =>
                     i.kind # "maintain" /\ (i.res = "ok" => i.kind = "logout")
    BY <1>a, <2>2, <2>3, <2>4, <2>5 DEF JobMoved
  <2> QED BY <1>s, <2>5 DEF StaleRenewals, Renewal, ServiceCalm, SameGeneration
<1>2. Held'
  <2>1. \A x \in jobs' \union calls' : Claims(x) =>
           x.flag \in canceled \/ (Holds(x.flag) /\ x.gen = svc.generation)
    <3>1. Attempt(j) => j.flag \in canceled \/ (Holds(j.flag) /\ j.gen = svc.generation)
      BY DEF Flags, Held, Claims
    <3> QED BY <1>0, <1>a, <3>1 DEF Flags, Held
  <2>2. \A c \in calls' : c.kind = "refresh" /\ c.pc \in {"exchange", "finish", "publish"} =>
           c.flag \in canceled \/ Holds(c.flag)
    BY <1>b DEF Flags, Held
  <2>3. \A x \in jobs' \union calls' : Claims(x) =>
           x.flag \in canceled' \/ (Holds(x.flag)' /\ x.gen = svc'.generation)
    BY <1>s, <2>1 DEF ServiceCalm, SameGeneration
  <2>4. \A c \in calls' : c.kind = "refresh" /\ c.pc \in {"exchange", "finish", "publish"} =>
           c.flag \in canceled' \/ Holds(c.flag)'
    BY <1>s, <2>2
  <2>5. owner.session # NoSession => owner.generation \in canceled' \/ Holds(owner.generation)'
    BY <1>s DEF Flags, Held
  <2> HIDE DEF Holds
  <2>6. owner'.session # NoSession => owner'.generation \in canceled' \/ Holds(owner.generation)'
    BY <2>5
  <2> QED BY <2>3, <2>4, <2>6 DEF Held, Claims, Attempt, Holds
<1>3. RestoreAlone'
  <2>1. ASSUME NEW x \in jobs' \union calls', x.kind = "restore", ~Stale(x)
        PROVE  /\ \A y \in jobs' \union calls' : y.kind = "restore" /\ y.gen = svc.generation
               /\ svc.state \in {"restoring", "failed"}
               /\ x.res = "empty" => owner.session = NoSession /\ store = None
    <3>1. PICK y \in jobs \union calls : /\ y.kind = "restore" /\ ~Stale(y)
                                         /\ x.res = "empty" => y.res = "empty"
      <4>1. CASE x \in jobs \union calls
        BY <2>1, <4>1
      <4>2. CASE x \in K
        <5>1. j.kind = "restore" /\ (x.res = "empty" => j.res = "empty")
          BY <2>1, <4>2 DEF Follows, Becomes
        <5> QED BY <1>k, <4>2, <5>1
      <4>3. CASE x \in M
        <5>1. j.kind = "restore" /\ x.res # "empty" /\ ~Stale(j)
          BY <1>a, <2>1, <4>3 DEF Follows, Makes, Stale
        <5> QED BY <5>1
      <4> QED BY <1>0, <4>1, <4>2, <4>3
    <3>2. /\ \A z \in jobs \union calls : z.kind = "restore" /\ z.gen = svc.generation
          /\ svc.state \in {"restoring", "failed"}
          /\ y.res = "empty" => owner.session = NoSession /\ store = None
      BY <3>1 DEF Flags, RestoreAlone
    <3>3. j.kind = "restore" /\ j.gen = svc.generation
      BY <3>2
    <3>4. \A k \in K : k.kind = "restore"
      <4>1. ASSUME NEW k \in K, k.kind # "restore"  PROVE FALSE
        <5>1. k.kind = "maintain" /\ k.pc = "metadata" /\ j.res = "ok"
          BY <3>3, <4>1 DEF Follows, Becomes
        <5>2. (x \in jobs /\ x # j) \/ x \in calls \/ x \in M
          BY <2>1, <4>1, <5>1 DEF JobMoved, Follows
        <5>3. x \notin jobs \/ x = j
          BY <2>1, <3>3 DEF Order, JobsInOrder, Stale
        <5>4. x \notin calls
          BY <2>1, <3>3 DEF Order, OneCall, Stale, Awaited, Follows
        <5>5. x \notin M
          BY <2>1, <4>1, <5>1 DEF Follows, Awaited
        <5> QED BY <5>2, <5>3, <5>4, <5>5
      <4> QED BY <4>1
    <3>5. \A m \in M : m.kind = "restore"
      <4>1. ASSUME NEW m \in M, m.kind # "restore"  PROVE FALSE
        <5>1. m.kind = "metadata" /\ j.res = "ok"
          BY <3>3, <4>1 DEF Follows, Makes, Calls
        <5>2. x \notin calls
          BY <2>1, <3>3 DEF Order, OneCall, Stale, Awaited, Follows
        <5>3. x \notin M
          BY <2>1, <4>1, <5>1 DEF Follows, Awaited
        <5>4. x \notin jobs \/ x = j
          BY <2>1, <3>3 DEF Order, JobsInOrder, Stale
        <5>5. x \in K
          BY <5>2, <5>3, <5>4, <2>1 DEF JobMoved
        <5>6. x.pc = "metadata"
          BY <4>1, <5>1, <5>5 DEF Follows, Awaited
        <5> QED BY <2>1, <5>5, <5>6 DEF Follows, Becomes, Fits
      <4> QED BY <4>1
    <3> QED BY <1>0, <1>a, <2>1, <3>1, <3>2, <3>3, <3>4, <3>5
  <2>2. \A c \in calls' : c.kind = "restore" /\ ~Stale(c) /\ c.pc # "start" =>
           c.flag = owner.generation
    BY <1>b DEF Flags, RestoreAlone
  <2> QED BY <1>s, <2>1, <2>2 DEF RestoreAlone, ServiceCalm, SameGeneration
<1>4. LogoutForgets'
  <2>1. \A x \in jobs' \union calls' : x.kind = "logout" /\ ~Stale(x) =>
           /\ svc.cancellation = None
           /\ x.res = "ok" => store = None
    <3>1. \A x : (x \in K \/ x \in M) /\ x.kind = "logout" =>
             j.kind = "logout" /\ (x.res = "ok" => j.res = "ok")
      BY DEF Follows, Becomes, Makes
    <3> QED BY <1>0, <1>a, <3>1 DEF Flags, LogoutForgets, Stale
  <2> QED BY <1>s, <2>1 DEF LogoutForgets, ServiceCalm
<1>5. SignedOutIsForgotten'
  BY DEF Flags, SignedOutIsForgotten, ServiceCalm, SameGeneration
<1> QED BY <1>1, <1>2, <1>3, <1>4, <1>5

(* A step of the job j in which it becomes one of K and makes the calls M, *)
(* and may drop the flow of its own flag.                                  *)
Advances(j, K, M) ==
  /\ Follows(j, K, M) /\ JobMoved(j, K, M)
  /\ canceled \subseteq canceled' /\ canceled' \subseteq canceled \union {j.flag}

LEMMA JobAdvancesKeepsTypes ==
  ASSUME Types, NEW j \in jobs, NEW K, NEW M, Advances(j, K, M),
         UNCHANGED <<flags, expired>>, KeepOwner, ServiceTypes',
         svc'.generation = svc.generation
  PROVE  Types'
<1>0. j \in Jobs /\ j.gen <= svc.generation /\ j.flag <= flags /\ j.token <= grants
  BY DEF Types, ElementTypes
<1>1. StateTypes'
  BY <1>0 DEF Types, StateTypes, KeepOwner, Advances, Jobs
<1>2. OwnerTypes'
  BY DEF Types, OwnerTypes, KeepOwner
<1>3. ElementTypes'
  <2>1. \A k \in K : k \in Jobs /\ k.gen <= svc.generation /\ k.flag <= flags /\ k.token <= grants
    BY <1>0 DEF Advances, Follows, Becomes
  <2>2. \A x \in M : x \in Calls /\ x.gen <= svc.generation /\ x.flag <= flags /\ x.token <= grants
    BY <1>0 DEF Advances, Follows, Makes, None, Types, StateTypes
  <2> QED BY <2>1, <2>2 DEF Types, ElementTypes, KeepOwner, Advances, JobMoved
<1> QED BY <1>1, <1>2, <1>3 DEF Types

LEMMA JobAdvances ==
  ASSUME AuthInv, NEW j \in jobs, NEW K, NEW M, Advances(j, K, M),
         UNCHANGED <<flags, expired>>, KeepOwner, ServiceTypes', ServiceCalm
  PROVE  AuthInv'
<1>1. Types'
  BY JobAdvancesKeepsTypes DEF AuthInv, ServiceCalm, SameGeneration
<1>2. Order'
  BY JobMovedKeepsOrder DEF AuthInv, Advances, ServiceCalm
<1>3. UnbegunIsFresh' /\ OneWorker' /\ BegunIsAlone' /\ Publication' /\ ReadFlags'
  BY JobMovedKeepsOwner DEF AuthInv, Advances, KeepOwner
<1>4. StaleRenewals' /\ Held' /\ RestoreAlone' /\ LogoutForgets' /\ SignedOutIsForgotten'
  BY JobMovedKeepsService DEF AuthInv, Advances, KeepOwner
<1> QED BY <1>1, <1>2, <1>3, <1>4 DEF AuthInv, Flags

LEMMA DropFlowMakes ==
  ASSUME Types, NEW j \in jobs, NEW k, k.gen = j.gen, k.flag = j.flag,
         k.kind = "login" => j.kind = "login",
         NEW x \in DropFlow({k})
  PROVE  Makes(j, x) /\ ~Awaited(x)
<1>1. k.kind = "login" /\ x = Call("cancel", k.gen, k.flag)
  BY DEF DropFlow
<1>2. j \in Jobs
  BY DEF Types, ElementTypes
<1> QED BY <1>1, <1>2 DEF Call, Makes, Calls, Jobs, Unbegun, Begun, Awaited, None, Result

LEMMA AwaitsAdvances ==
  ASSUME Types, Order, NEW j \in jobs, j.pc = "run", NEW k, NEW made, Awaits(j, k, made),
         k.gen = j.gen, k.flag = j.flag, k.kind = "login" => j.kind = "login",
         ~j.aborted => Becomes(j, k),
         \A x \in made : Makes(j, x) /\ x.kind = k.pc,
         \A x, y \in made : x = y
  PROVE  \E K, M : Advances(j, K, M)
<1>1. CASE j.aborted
  <2> DEFINE M == made \union DropFlow({k})
  <2>1. \A x \in M : Makes(j, x) /\ (Awaited(x) => x \in made)
    BY DropFlowMakes
  <2>2. Follows(j, {}, M)
    BY <2>1 DEF Follows
  <2>3. JobMoved(j, {}, M)
    BY <1>1 DEF JobMoved, Awaits
  <2>4. canceled \subseteq canceled' /\ canceled' \subseteq canceled \union {j.flag}
    BY <1>1 DEF Awaits, DropFlags
  <2> QED BY <2>2, <2>3, <2>4 DEF Advances
<1>2. CASE ~j.aborted
  <2>1. Follows(j, {k}, made)
    BY <1>2 DEF Follows
  <2>2. JobMoved(j, {k}, made)
    BY <1>2 DEF JobMoved, Awaits
  <2>3. canceled' = canceled
    BY <1>2 DEF Awaits
  <2> QED BY <2>1, <2>2, <2>3 DEF Advances
<1> QED BY <1>1, <1>2

LEMMA EndsAdvances ==
  ASSUME Types, NEW j \in jobs, j.pc = "run", Ends(j)
  PROVE  Advances(j, {}, DropFlow({j}))
<1>1. Follows(j, {}, DropFlow({j}))
  BY DropFlowMakes DEF Follows
<1>2. JobMoved(j, {}, DropFlow({j}))
  BY DEF JobMoved, Ends
<1> QED BY <1>1, <1>2 DEF Advances, Ends, DropFlags

LEMMA PublishFailed ==
  ASSUME Types, NEW j, Publish(j, "failed"), UNCHANGED flags, KeepOwner
  PROVE  ServiceTypes' /\ ServiceCalm
<1>1. svc \in [generation : Nat, state : State, cancellation : Nat, until : Nat,
               closed : BOOLEAN]
  BY DEF Types, ServiceTypes
<1>2. "failed" \in State
  BY DEF State
<1>3. svc' = svc \/ svc' = [svc EXCEPT !.state = "failed", !.until = None]
  BY DEF Publish
<1>4. /\ svc' \in [generation : Nat, state : State, cancellation : Nat, until : Nat,
                   closed : BOOLEAN]
      /\ svc'.generation = svc.generation /\ svc'.closed = svc.closed
      /\ svc'.cancellation = svc.cancellation
      /\ svc'.state \in {svc.state, "failed"} /\ svc'.until \in {svc.until, 0}
  <2>1. CASE svc' = svc
    BY <1>1, <2>1
  <2>2. CASE svc' = [svc EXCEPT !.state = "failed", !.until = None]
    <3>1. None \in Nat /\ None = 0
      BY DEF None
    <3> HIDE DEF None
    <3>2. svc' \in [generation : Nat, state : State, cancellation : Nat, until : Nat,
                    closed : BOOLEAN]
      BY <1>1, <1>2, <2>2, <3>1
    <3> QED BY <1>1, <2>2, <3>1, <3>2
  <2> QED BY <1>3, <2>1, <2>2
<1> QED BY <1>4 DEF Types, ServiceTypes, StateTypes, KeepOwner, ServiceCalm, SameGeneration

LEMMA ServiceSame ==
  ASSUME Types, UNCHANGED <<svc, flags>>, KeepOwner
  PROVE  ServiceTypes' /\ ServiceCalm
BY DEF Types, ServiceTypes, KeepOwner, ServiceCalm, SameGeneration

(* A job asks for a call and waits for it.                                 *)
LEMMA AwaitAdvances ==
  ASSUME Types, Order, NEW j \in jobs, j.pc = "run", NEW kind, Await(j, kind),
         \/ j.kind = "restore" /\ kind = "restore"
         \/ j.kind = "login" /\ kind = "begin" /\ j.res = "none"
         \/ j.kind = "login" /\ kind = "complete" /\ j.res = "code"
         \/ j.kind = "maintain" /\ kind = "refresh"
         \/ j.kind = "logout" /\ kind = "logout"
  PROVE  \E K, M : Advances(j, K, M)
<1> DEFINE k == [j EXCEPT !.pc = kind, !.res = "none"]
           m == Call(kind, j.gen, j.flag)
<1>0. j \in Jobs /\ "none" \in Result /\ "none" \notin {"ok", "empty", "begun", "code"}
  BY DEF Types, ElementTypes, Result, Ended
<1>1. /\ k \in Jobs /\ k.kind = j.kind /\ k.gen = j.gen /\ k.flag = j.flag
      /\ k.token = j.token /\ k.aborted = j.aborted /\ k.pc = kind /\ k.res = "none"
  BY <1>0 DEF Jobs
<1> HIDE DEF k
<1>2. ~j.aborted => Becomes(j, k)
  BY <1>0, <1>1 DEF Becomes, Fits, Unbegun, Begun
<1>3. Makes(j, m) /\ m.kind = k.pc
  BY <1>0, <1>1 DEF Makes, Call, Calls, Jobs, Unbegun, Begun, None
<1>4. Awaits(j, k, {m})
  BY DEF Await, k
<1> HIDE DEF m
<1> QED BY <1>1, <1>2, <1>3, <1>4, AwaitsAdvances

(* A running job falls asleep with the answer it has.                      *)
LEMMA SleepAdvances ==
  ASSUME Types, Order, NEW j \in jobs, j.pc = "run",
         Awaits(j, [j EXCEPT !.pc = "asleep"], {}),
         j.kind \in {"restore", "maintain"}
  PROVE  \E K, M : Advances(j, K, M)
<1> DEFINE k == [j EXCEPT !.pc = "asleep"]
<1>0. j \in Jobs
  BY DEF Types, ElementTypes
<1>1. /\ k \in Jobs /\ k.kind = j.kind /\ k.gen = j.gen /\ k.flag = j.flag
      /\ k.token = j.token /\ k.aborted = j.aborted /\ k.pc = "asleep" /\ k.res = j.res
  BY <1>0 DEF Jobs
<1>2. Awaits(j, k, {})
  OBVIOUS
<1> HIDE DEF k
<1>3. ~j.aborted => Becomes(j, k)
  BY <1>0, <1>1 DEF Becomes, Fits, Unbegun, Begun
<1> QED BY <1>1, <1>2, <1>3, AwaitsAdvances

LEMMA RestoreJobKeeps ==
  ASSUME AuthInv, NEW j \in jobs, RestoreJob(j), j.res # "empty"
  PROVE  AuthInv'
<1>0. /\ Types /\ Order /\ j.kind = "restore" /\ j.pc = "run"
      /\ UNCHANGED <<flags, expired>> /\ KeepOwner
  BY DEF AuthInv, RestoreJob, Running
<1>1. CASE j.res = "none" /\ Await(j, "restore") /\ UNCHANGED svc
  BY <1>0, <1>1, AwaitAdvances, ServiceSame, JobAdvances
<1>2. CASE Publish(j, "failed") /\ Ends(j)
  BY <1>0, <1>2, EndsAdvances, PublishFailed, JobAdvances
<1>3. CASE Publish(j, "failed") /\ Awaits(j, [j EXCEPT !.pc = "asleep"], {})
  BY <1>0, <1>3, SleepAdvances, PublishFailed, JobAdvances
<1> QED BY <1>1, <1>2, <1>3 DEF RestoreJob

LEMMA LoginJobKeeps ==
  ASSUME AuthInv, NEW j \in jobs, LoginJob(j)
  PROVE  AuthInv'
<1>0. /\ Types /\ Order /\ j.kind = "login" /\ j.pc = "run"
      /\ UNCHANGED <<flags, expired>> /\ KeepOwner
  BY DEF AuthInv, LoginJob, Running
<1>1. CASE j.res = "none" /\ Await(j, "begin") /\ UNCHANGED svc
  BY <1>0, <1>1, AwaitAdvances, ServiceSame, JobAdvances
<1>2. CASE j.res = "begun" /\ Awaits(j, [j EXCEPT !.pc = "listen"], {}) /\ UNCHANGED svc
  <2> DEFINE k == [j EXCEPT !.pc = "listen"]
  <2>0. j \in Jobs
    BY <1>0 DEF Types, ElementTypes
  <2>1. /\ k \in Jobs /\ k.kind = j.kind /\ k.gen = j.gen /\ k.flag = j.flag
        /\ k.token = j.token /\ k.aborted = j.aborted /\ k.pc = "listen" /\ k.res = j.res
    BY <2>0 DEF Jobs
  <2>2. Awaits(j, k, {})
    BY <1>2
  <2> HIDE DEF k
  <2>3. ~j.aborted => Becomes(j, k)
    BY <1>0, <1>2, <2>0, <2>1 DEF Becomes, Fits, Unbegun, Begun
  <2>4. \E K, M : Advances(j, K, M)
    BY <1>0, <2>1, <2>2, <2>3, AwaitsAdvances
  <2> QED BY <1>0, <1>2, <2>4, ServiceSame, JobAdvances
<1>3. CASE j.res = "code" /\ Await(j, "complete") /\ UNCHANGED svc
  BY <1>0, <1>3, AwaitAdvances, ServiceSame, JobAdvances
<1>4. CASE Publish(j, "failed") /\ Ends(j)
  BY <1>0, <1>4, EndsAdvances, PublishFailed, JobAdvances
<1> QED BY <1>1, <1>2, <1>3, <1>4 DEF LoginJob

LEMMA MaintainedKeeps ==
  ASSUME AuthInv, NEW j \in jobs, Maintained(j)
  PROVE  AuthInv'
<1> DEFINE k == [j EXCEPT !.kind = "maintain", !.pc = "metadata", !.res = "none"]
           m == Call("metadata", j.gen, None)
<1>0. /\ Types /\ Order /\ j.kind \in {"restore", "login"} /\ j.pc = "run" /\ j.res = "ok"
      /\ UNCHANGED <<flags, expired>> /\ KeepOwner /\ UNCHANGED svc
      /\ Awaits(j, k, {m})
  BY DEF AuthInv, Maintained, Running
<1>a. j \in Jobs /\ "none" \in Result
  BY <1>0 DEF Types, ElementTypes, Result
<1>1. /\ k \in Jobs /\ k.kind = "maintain" /\ k.gen = j.gen /\ k.flag = j.flag
      /\ k.token = j.token /\ k.aborted = j.aborted /\ k.pc = "metadata" /\ k.res = "none"
  BY <1>a DEF Jobs
<1> HIDE DEF k
<1>2. ~j.aborted => Becomes(j, k)
  BY <1>0, <1>a, <1>1 DEF Becomes, Fits, Unbegun, Begun
<1>3. Makes(j, m) /\ m.kind = k.pc
  BY <1>0, <1>a, <1>1 DEF Makes, Call, Calls, Jobs, Unbegun, Begun, None
<1> HIDE DEF m
<1>4. \E K, M : Advances(j, K, M)
  BY <1>0, <1>1, <1>2, <1>3, AwaitsAdvances
<1> QED BY <1>0, <1>4, ServiceSame, JobAdvances

LEMMA WakeKeeps ==
  ASSUME AuthInv, NEW j \in jobs, Wake(j)
  PROVE  AuthInv'
<1> DEFINE k == [j EXCEPT !.pc = "run", !.res = "none"]
<1>0. /\ Types /\ Order /\ j \in Jobs /\ "none" \in Result /\ Fits(j) /\ j.pc = "asleep"
      /\ jobs' = (jobs \ {j}) \union {k}
      /\ UNCHANGED <<svc, calls, canceled, flags, expired>> /\ KeepOwner
  BY DEF AuthInv, Wake, Types, ElementTypes, Result, Order, JobsInOrder
<1>1. /\ k \in Jobs /\ k.kind = j.kind /\ k.gen = j.gen /\ k.flag = j.flag
      /\ k.token = j.token /\ k.aborted = j.aborted /\ k.pc = "run" /\ k.res = "none"
  BY <1>0 DEF Jobs
<1> HIDE DEF k
<1>2. Becomes(j, k)
  BY <1>0, <1>1 DEF Becomes, Fits, Unbegun, Begun, Jobs
<1>3. Advances(j, {k}, {})
  BY <1>0, <1>2 DEF Advances, Follows, JobMoved
<1> QED BY <1>0, <1>3, ServiceSame, JobAdvances

LEMMA CallbackKeeps ==
  ASSUME AuthInv, NEW j \in jobs, NEW result \in {"code", "denied", "unavailable"},
         Callback(j, result)
  PROVE  AuthInv'
<1> DEFINE k == [j EXCEPT !.pc = "run", !.res = result]
<1>0. /\ Types /\ Order /\ j \in Jobs /\ result \in Result /\ Fits(j) /\ j.pc = "listen"
      /\ jobs' = (jobs \ {j}) \union {k}
      /\ UNCHANGED <<svc, calls, canceled, flags, expired>> /\ KeepOwner
  BY DEF AuthInv, Callback, Types, ElementTypes, Result, Ended, Order, JobsInOrder
<1>1. /\ k \in Jobs /\ k.kind = j.kind /\ k.gen = j.gen /\ k.flag = j.flag
      /\ k.token = j.token /\ k.aborted = j.aborted /\ k.pc = "run" /\ k.res = result
  BY <1>0 DEF Jobs
<1> HIDE DEF k
<1>2. Becomes(j, k)
  BY <1>0, <1>1 DEF Becomes, Fits, Unbegun, Begun, Jobs
<1>3. Advances(j, {k}, {})
  BY <1>0, <1>2 DEF Advances, Follows, JobMoved
<1> QED BY <1>0, <1>3, ServiceSame, JobAdvances

(* The end of a restore that found nothing and of a sign-out that deleted  *)
(* the login: the client is told it is signed out.                         *)
LEMMA SignedOutKeeps ==
  ASSUME AuthInv, NEW j \in jobs, j.pc = "run",
         (j.kind = "restore" /\ j.res = "empty") \/ (j.kind = "logout" /\ j.res = "ok"),
         UNCHANGED <<flags, expired>>, KeepOwner, Publish(j, "signed_out"), Ends(j)
  PROVE  AuthInv'
<1>0. Types /\ Order /\ Flags
  BY DEF AuthInv
<1>1. Advances(j, {}, DropFlow({j}))
  BY <1>0, EndsAdvances
<1>2. DropFlow({j}) = {} /\ calls' = calls /\ jobs' = jobs \ {j} /\ canceled' = canceled
  BY DEF Ends, DropFlow, DropFlags
<1>3. CASE svc' = svc
  BY <1>0, <1>1, <1>3, ServiceSame, JobAdvances
<1>4. CASE svc' # svc
  <2>1. /\ ~Stale(j) /\ svc.generation = j.gen /\ ~svc.closed
        /\ svc' = [svc EXCEPT !.state = "signed_out", !.until = None]
    BY <1>4 DEF Publish, Stale
  <2>2. svc \in [generation : Nat, state : State, cancellation : Nat, until : Nat,
                 closed : BOOLEAN]
    BY <1>0 DEF Types, ServiceTypes
  <2>3. None \in Nat /\ None = 0 /\ "signed_out" \in State
    BY DEF None, State
  <2>4. svc' \in [generation : Nat, state : State, cancellation : Nat, until : Nat,
                  closed : BOOLEAN]
    <3> HIDE DEF None
    <3> QED BY <2>1, <2>2, <2>3
  <2>5. /\ svc'.generation = svc.generation /\ svc'.closed = svc.closed
        /\ svc'.cancellation = svc.cancellation /\ svc'.state = "signed_out"
        /\ svc'.until = 0
    BY <2>1, <2>2, <2>3
  <2>6. ServiceTypes'
    BY <1>0, <2>4, <2>5 DEF Types, ServiceTypes, StateTypes, KeepOwner
  <2>7. Types'
    BY <1>0, <1>1, <2>5, <2>6, JobAdvancesKeepsTypes
  <2>8. Order'
    BY <1>0, <1>1, <2>5, JobMovedKeepsOrder DEF Advances, SameGeneration
  <2>9. UnbegunIsFresh' /\ OneWorker' /\ BegunIsAlone' /\ Publication' /\ ReadFlags'
    BY <1>0, <1>1, JobMovedKeepsOwner DEF Advances, KeepOwner
  <2>s. \A x : Stale(x)' <=> Stale(x)
    BY <2>5 DEF Stale
  <2>a. store = None
    BY <1>0, <2>1 DEF Flags, RestoreAlone, LogoutForgets
  <2>b. StaleRenewals'
    <3>1. \A x \in jobs' \union calls' : x \in jobs \union calls
      BY <1>2
    <3> QED BY <1>0, <1>2, <2>5, <2>s, <3>1 DEF Flags, StaleRenewals, Renewal
  <2>c. CASE j.kind = "restore" /\ j.res = "empty"
    <3>1. /\ \A y \in jobs \union calls : y.kind = "restore" /\ y.gen = svc.generation
          /\ owner.session = NoSession
      BY <1>0, <2>1, <2>c DEF Flags, RestoreAlone
    <3>2. calls = {}
      BY <1>0, <2>1, <3>1 DEF Order, OneCall, Awaited
    <3>3. jobs = {j}
      BY <1>0, <2>1, <3>1 DEF Order, JobsInOrder
    <3>4. \A x \in jobs' \union calls' : FALSE
      BY <1>2, <3>2, <3>3
    <3>5. owner'.session = NoSession
      BY <3>1 DEF KeepOwner
    <3>6. Held' /\ RestoreAlone' /\ LogoutForgets'
      BY <3>4, <3>5 DEF Held, RestoreAlone, LogoutForgets
    <3> QED BY <2>5, <2>7, <2>8, <2>9, <2>a, <2>b, <3>6
            DEF AuthInv, Flags, SignedOutIsForgotten, KeepOwner
  <2>d. CASE j.kind = "logout" /\ j.res = "ok"
    <3>1. svc.cancellation = None
      BY <1>0, <2>1, <2>d DEF Flags, LogoutForgets
    <3>2. \A f : ~Holds(f)
      BY <3>1 DEF Holds
    <3>3. Held'
      <4>1. /\ \A x \in jobs' \union calls' : Claims(x) => x.flag \in canceled'
            /\ \A c \in calls' : c.kind = "refresh" /\ c.pc \in {"exchange", "finish", "publish"} =>
                  c.flag \in canceled'
            /\ owner'.session # NoSession => owner'.generation \in canceled'
        BY <1>0, <1>2, <3>2 DEF Flags, Held, KeepOwner
      <4> QED BY <4>1 DEF Held, Claims, Attempt
    <3>4. RestoreAlone'
      BY <1>0, <1>2, <2>d, <2>s DEF Flags, RestoreAlone
    <3>5. LogoutForgets'
      BY <1>0, <1>2, <2>5, <2>s DEF Flags, LogoutForgets, KeepOwner
    <3> QED BY <2>5, <2>7, <2>8, <2>9, <2>a, <2>b, <3>3, <3>4, <3>5
            DEF AuthInv, Flags, SignedOutIsForgotten, KeepOwner
  <2> QED BY <2>c, <2>d
<1> QED BY <1>3, <1>4

LEMMA LogoutJobKeeps ==
  ASSUME AuthInv, NEW j \in jobs, LogoutJob(j)
  PROVE  AuthInv'
<1>0. /\ Types /\ Order /\ j.kind = "logout" /\ j.pc = "run"
      /\ UNCHANGED <<flags, expired>> /\ KeepOwner
  BY DEF AuthInv, LogoutJob, Running
<1>1. CASE Await(j, "logout") /\ UNCHANGED svc
  BY <1>0, <1>1, AwaitAdvances, ServiceSame, JobAdvances
<1>2. CASE j.res = "ok" /\ Publish(j, "signed_out") /\ Ends(j)
  BY <1>0, <1>2, SignedOutKeeps
<1>3. CASE Publish(j, "failed") /\ Ends(j)
  BY <1>0, <1>3, EndsAdvances, PublishFailed, JobAdvances
<1> QED BY <1>1, <1>2, <1>3 DEF LogoutJob

LEMMA RestoreJobEmptyKeeps ==
  ASSUME AuthInv, NEW j \in jobs, RestoreJob(j), j.res = "empty"
  PROVE  AuthInv'
<1>1. /\ j.kind = "restore" /\ j.pc = "run" /\ UNCHANGED <<flags, expired>> /\ KeepOwner
      /\ Publish(j, "signed_out") /\ Ends(j)
  BY DEF RestoreJob, Running, Ended
<1> QED BY <1>1, SignedOutKeeps

(* The session is published: the flag the service takes is the owner's,    *)
(* and nothing that is still under way was for another.                    *)
LEMMA ConnectedKeeps ==
  ASSUME AuthInv, NEW j \in jobs, j.kind = "maintain", j.pc = "run", j.res = "ok",
         UNCHANGED <<flags, expired>>, KeepOwner,
         ~svc.closed, svc.generation = j.gen, j.flag \notin canceled,
         svc' = [svc EXCEPT !.cancellation = j.flag, !.until = j.token, !.state = "connected"],
         Awaits(j, [j EXCEPT !.pc = "asleep"], {})
  PROVE  AuthInv'
<1>0. Types /\ Order /\ Flags
  BY DEF AuthInv
<1>j. /\ j \in Jobs /\ ~Stale(j) /\ ~j.aborted /\ j.flag \in Nat /\ j.token \in Nat
      /\ j.flag <= flags /\ j.token <= grants
  BY <1>0 DEF Types, ElementTypes, Jobs, Order, JobsInOrder, Stale
<1> DEFINE k == [j EXCEPT !.pc = "asleep"]
<1>k. /\ k.kind = "maintain" /\ k.gen = j.gen /\ k.flag = j.flag /\ k.pc = "asleep"
      /\ k.res = "ok"
  BY <1>j DEF Jobs
<1>1. jobs' = (jobs \ {j}) \union {k} /\ calls' = calls /\ canceled' = canceled
  BY <1>j DEF Awaits
<1>2. PICK K, M : Advances(j, K, M)
  BY <1>0, SleepAdvances
<1>3. svc \in [generation : Nat, state : State, cancellation : Nat, until : Nat,
               closed : BOOLEAN]
  BY <1>0 DEF Types, ServiceTypes
<1>4. "connected" \in State
  BY DEF State
<1>5. svc' \in [generation : Nat, state : State, cancellation : Nat, until : Nat,
                closed : BOOLEAN]
  BY <1>3, <1>4, <1>j
<1>6. /\ svc'.generation = svc.generation /\ svc'.closed = svc.closed
      /\ svc'.cancellation = j.flag /\ svc'.state = "connected" /\ svc'.until = j.token
  BY <1>3
<1>7. ServiceTypes'
  BY <1>0, <1>5, <1>6, <1>j DEF Types, ServiceTypes, StateTypes, KeepOwner
<1>8. Types'
  BY <1>0, <1>2, <1>6, <1>7, JobAdvancesKeepsTypes
<1>9. Order'
  BY <1>0, <1>2, <1>6, JobMovedKeepsOrder DEF Advances, SameGeneration
<1>10. UnbegunIsFresh' /\ OneWorker' /\ BegunIsAlone' /\ Publication' /\ ReadFlags'
  BY <1>0, <1>2, JobMovedKeepsOwner DEF Advances, KeepOwner
<1>s. \A x : Stale(x)' <=> Stale(x)
  BY <1>6 DEF Stale
<1>f. j.flag = owner.generation /\ j.flag # None
  BY <1>0 DEF Flags, ReadFlags, Renewal
<1>h. \A f : Holds(f)' <=> f = owner.generation
  BY <1>6, <1>f DEF Holds
<1>c. \A c \in calls : Awaited(c) => c.gen # svc.generation
  BY <1>0 DEF Order, OneCall, Types, ElementTypes, Calls
<1> HIDE DEF k
<1>11. StaleRenewals'
  <2>1. \A x \in jobs \union calls : Renewal(x) /\ Stale(x) => x.flag \in canceled \union {None}
    BY <1>0, <1>j DEF Flags, StaleRenewals
  <2>2. ~Stale(k)
    BY <1>j, <1>k DEF Stale
  <2>3. \A x \in jobs' \union calls' : Renewal(x) /\ Stale(x) => x.flag \in canceled \union {None}
    BY <1>1, <2>1, <2>2
  <2> QED BY <1>1, <1>s, <2>3 DEF StaleRenewals, Renewal
<1>12. Held'
  <2>1. \A x \in jobs \union calls : Claims(x) /\ x # j => x.flag \in canceled
    <3>1. ASSUME NEW x \in jobs, Claims(x), x # j  PROVE x.flag \in canceled
      BY <1>0, <3>1 DEF Flags, Held, Order, JobsInOrder
    <3>2. ASSUME NEW x \in calls, Claims(x)  PROVE x.flag \in canceled
      BY <1>0, <1>c, <3>2 DEF Flags, Held, Claims, Attempt, Awaited
    <3> QED BY <3>1, <3>2
  <2>2. ~Claims(k)
    BY <1>k DEF Claims, Attempt
  <2>3. \A x \in jobs' \union calls' : Claims(x) => x.flag \in canceled
    <3>1. j \notin calls
      BY <1>0, <1>j DEF Types, ElementTypes, Calls
    <3> QED BY <1>1, <2>1, <2>2, <3>1
  <2>4. \A c \in calls : c.kind = "refresh" /\ c.pc \in {"exchange", "finish", "publish"} =>
           c.flag \in canceled \/ c.flag = owner.generation
    BY <1>0 DEF Flags, ReadFlags, Renewal, Held, Holds
  <2>5. \A c \in calls : c.kind = "refresh" /\ c.pc \in {"exchange", "finish", "publish"} =>
           c.flag \in canceled' \/ Holds(c.flag)'
    BY <1>1, <1>h, <2>4
  <2>6. owner'.generation = owner.generation /\ Holds(owner.generation)'
    BY <1>h DEF KeepOwner
  <2> QED BY <1>1, <2>3, <2>5, <2>6 DEF Held, Claims, Attempt, Holds
<1>13. RestoreAlone'
  <2>1. \A x \in jobs \union calls : x.kind = "restore" => Stale(x)
    BY <1>0 DEF Flags, RestoreAlone
  <2> QED BY <1>1, <1>k, <1>s, <2>1 DEF RestoreAlone
<1>14. LogoutForgets'
  <2>1. \A x \in jobs : x.kind = "logout" => Stale(x)
    BY <1>0 DEF Order, JobsInOrder, Stale
  <2>2. \A x \in calls : x.kind = "logout" => Stale(x)
    BY <1>c DEF Stale, Awaited
  <2> QED BY <1>1, <1>k, <1>s, <2>1, <2>2 DEF LogoutForgets
<1>15. SignedOutIsForgotten'
  BY <1>6 DEF SignedOutIsForgotten
<1> QED BY <1>8, <1>9, <1>10, <1>11, <1>12, <1>13, <1>14, <1>15 DEF AuthInv, Flags

LEMMA MaintainJobKeeps ==
  ASSUME AuthInv, NEW j \in jobs, MaintainJob(j)
  PROVE  AuthInv'
<1>0. /\ Types /\ Order /\ j.kind = "maintain" /\ j.pc = "run"
      /\ UNCHANGED <<flags, expired>> /\ KeepOwner
  BY DEF AuthInv, MaintainJob, Running
<1>1. CASE Ends(j) /\ UNCHANGED svc
  BY <1>0, <1>1, EndsAdvances, ServiceSame, JobAdvances
<1>2. CASE /\ j.res = "ok"
           /\ ~(svc.closed \/ svc.generation # j.gen \/ j.flag \in canceled)
           /\ svc' = [svc EXCEPT !.cancellation = j.flag, !.until = j.token,
                                 !.state = "connected"]
           /\ Awaits(j, [j EXCEPT !.pc = "asleep"], {})
  BY <1>0, <1>2, ConnectedKeeps
<1>3. CASE Publish(j, "failed") /\ Ends(j)
  BY <1>0, <1>3, EndsAdvances, PublishFailed, JobAdvances
<1>4. CASE Awaits(j, [j EXCEPT !.pc = "asleep"], {}) /\ UNCHANGED svc
  BY <1>0, <1>4, SleepAdvances, ServiceSame, JobAdvances
<1>5. CASE Await(j, "refresh") /\ UNCHANGED svc
  BY <1>0, <1>5, AwaitAdvances, ServiceSame, JobAdvances
<1> QED BY <1>1, <1>2, <1>3, <1>4, <1>5 DEF MaintainJob

----------------------------------------------------------------------------
(* Requests and the shutdown: the flag the service holds is raised. *)

RequestRaises(N) ==
  /\ canceled \subseteq canceled' /\ svc.cancellation \in canceled' \union {None}
  /\ svc'.closed \/ svc'.state \in {"signing_in", "signing_out"}
  /\ svc'.cancellation \in {None, flags + 1}
  /\ \A n \in N : /\ n.kind = "login" => /\ svc'.cancellation = flags + 1
                                         /\ svc'.state = "signing_in"
                  /\ n.kind = "logout" => svc'.cancellation = None
  /\ owner' = owner /\ store' = store

LEMMA RequestKeepsFlags ==
  ASSUME Types, Order, Flags, NEW N, Requests(N), RequestRaises(N)
  PROVE  Flags'
<1>0. /\ flags \in Nat /\ svc.generation \in Nat /\ svc.cancellation <= flags
      /\ owner.generation \in Nat /\ owner.generation <= flags
      /\ \A x \in jobs \union calls : /\ x.gen \in Nat /\ x.gen <= svc.generation
                                      /\ x.flag \in Nat /\ x.flag <= flags
  BY DEF Types, StateTypes, ServiceTypes, OwnerTypes, ElementTypes, Jobs, Calls
<1>n. \A n \in N : /\ n.gen = svc.generation + 1 /\ n.pc = "run" /\ n.res = "none"
                   /\ n.kind \in {"login", "logout"}
                   /\ n.kind = "login" => n.flag = flags + 1
                   /\ n.kind = "logout" => n.flag = None
  BY DEF Requests, Opens, Job
<1>a. \A i, j : Aborts(i, j) => /\ i.kind = j.kind /\ i.gen = j.gen /\ i.flag = j.flag
                                /\ i.pc = j.pc /\ i.res = j.res
  BY DEF Aborts
<1>c. \A x \in calls' : \/ x \in calls
                        \/ /\ x.kind = "cancel" /\ x.pc = "start"
                           /\ \E j \in jobs : x.gen = j.gen /\ x.flag = j.flag
                        \/ /\ x.kind = "suspend" /\ x.pc = "start" /\ x.flag = None
                           /\ x.gen = svc.generation
  BY DEF Requests, Drops, Suspends, Call
<1>j. \A i \in jobs' : (\E j \in jobs : Aborts(i, j)) \/ i \in N
  BY DEF Requests
(* Whatever was there before is stale now. *)
<1>s. \A x : x.gen \in Nat /\ x.gen <= svc.generation => Stale(x)'
  BY <1>0 DEF Requests, Stale
<1>t. \A x \in jobs' \union calls' : x \in N \/ Stale(x)'
  BY <1>0, <1>a, <1>c, <1>j, <1>s
<1>1. UnbegunIsFresh'
  <2>1. \A b \in jobs \union calls : Unbegun(b) =>
           /\ b.flag # owner.generation /\ b.flag # None
           /\ \A x \in jobs \union calls : x.flag = b.flag => x.gen = b.gen
    BY DEF Flags, UnbegunIsFresh, Unbegun, Order, OneAttempt, Attempt
  <2>2. \A b \in jobs' \union calls' : Unbegun(b) =>
           \/ b \in N /\ b.flag = flags + 1
           \/ \E y \in jobs \union calls : Unbegun(y) /\ y.flag = b.flag /\ y.gen = b.gen
    BY <1>a, <1>c, <1>j, <1>n DEF Unbegun
  <2>3. \A x \in jobs' \union calls' :
           \/ x \in N /\ x.flag \in {None, flags + 1}
           \/ x.flag = None
           \/ \E y \in jobs \union calls : y.flag = x.flag /\ y.gen = x.gen
    BY <1>a, <1>c, <1>j, <1>n
  <2>4. ASSUME NEW b \in jobs' \union calls', Unbegun(b),
               NEW x \in jobs' \union calls', x.flag = b.flag
        PROVE  b.flag # owner.generation /\ x.gen = b.gen
    <3>1. CASE b \in N /\ b.flag = flags + 1
      BY <1>0, <1>n, <2>3, <2>4, <3>1 DEF None
    <3>2. CASE \E y \in jobs \union calls : Unbegun(y) /\ y.flag = b.flag /\ y.gen = b.gen
      <4>1. PICK y \in jobs \union calls : Unbegun(y) /\ y.flag = b.flag /\ y.gen = b.gen
        BY <3>2
      <4>2. y.flag # owner.generation /\ y.flag # None /\ y.flag <= flags /\ y.flag \in Nat
        BY <1>0, <2>1, <4>1
      <4>3. PICK z \in jobs \union calls : z.flag = x.flag /\ z.gen = x.gen
        BY <1>0, <2>3, <2>4, <4>1, <4>2
      <4> QED BY <2>1, <2>4, <4>1, <4>2, <4>3
    <3> QED BY <2>2, <2>4, <3>1, <3>2
  <2> QED BY <2>4 DEF UnbegunIsFresh, Unbegun, RequestRaises
<1>2. OneWorker'
  <2>1. \A c \in calls' : AtWork(c) => c \in calls
    BY <1>c DEF AtWork
  <2> QED BY <2>1 DEF Flags, OneWorker, Works, AtWork, RequestRaises
<1>3. BegunIsAlone'
  <2>1. \A c \in calls' : Works(c) => c \in calls
    BY <1>c DEF Works, AtWork
  <2>2. \A y \in jobs' \union calls' : Begun(y) =>
           \E z \in jobs \union calls : Begun(z) /\ z.flag = y.flag
    BY <1>a, <1>c, <1>j, <1>n DEF Begun
  <2>3. \A y \in jobs' \union calls' : Begun(y) /\ y.flag = owner.generation =>
           /\ owner.session = NoSession /\ owner.initialized
           /\ \A c \in calls : ~Works(c)
    BY <2>2 DEF Flags, BegunIsAlone
  <2> QED BY <2>1, <2>3 DEF BegunIsAlone, Begun, Works, AtWork, RequestRaises
<1>4. Publication'
  <2>1. \A c \in calls' : c.pc \in {"publish", "finish"} => c \in calls
    BY <1>c
  <2> QED BY <2>1 DEF Flags, Publication, RequestRaises
<1>r. \A x \in jobs' \union calls' : Renewal(x) =>
         \E y \in jobs \union calls : Renewal(y) /\ y.flag = x.flag
  BY <1>a, <1>c, <1>j, <1>n DEF Renewal
<1>5. ReadFlags'
  <2>1. \A x \in jobs' \union calls' : Renewal(x) =>
           x.flag \in canceled' \union {owner.generation, None}
    BY <1>r DEF Flags, ReadFlags, RequestRaises
  <2>2. \A c \in calls' : c.kind = "metadata" => c.flag = None
    BY <1>c DEF Flags, ReadFlags
  <2>3. \A i \in jobs' : i.kind = "maintain" /\ i.res = "ok" => i.flag # None
    BY <1>a, <1>j, <1>n DEF Flags, ReadFlags
  <2> QED BY <2>1, <2>2, <2>3 DEF ReadFlags, Renewal, RequestRaises
<1>6. StaleRenewals'
  <2>1. \A x \in jobs' \union calls' : Renewal(x) /\ x.flag # None => x.flag # svc'.cancellation
    BY <1>0, <1>r DEF RequestRaises, None
  <2>2. ~svc'.closed => \A i \in jobs' : i.gen = svc'.generation =>
           i.kind # "maintain" /\ (i.res = "ok" => i.kind = "logout")
    <3>1. ASSUME ~svc'.closed, NEW i \in jobs', i.gen = svc'.generation  PROVE i \in N
      <4>1. \A j \in jobs : Aborts(i, j) => FALSE
        BY <1>0, <1>a, <3>1 DEF Requests
      <4> QED BY <1>j, <4>1
    <3> QED BY <1>n, <3>1
  <2> QED BY <2>1, <2>2 DEF StaleRenewals, Renewal
<1>7. Held'
  <2>1. \A f : Holds(f) => f \in canceled'
    BY DEF Holds, RequestRaises
  <2>2. \A x \in jobs' \union calls' : Claims(x) =>
           \/ x \in N /\ x.kind = "login"
           \/ \E y \in jobs \union calls : Claims(y) /\ y.flag = x.flag
    BY <1>a, <1>c, <1>j, <1>n DEF Claims, Attempt
  <2>3. \A x \in N : x.kind = "login" => Holds(x.flag)' /\ x.gen = svc'.generation
    BY <1>0, <1>n DEF Requests, RequestRaises, Holds, None
  <2>4. \A x \in jobs' \union calls' : Claims(x) =>
           x.flag \in canceled' \/ (Holds(x.flag)' /\ x.gen = svc'.generation)
    BY <2>1, <2>2, <2>3 DEF Flags, Held, RequestRaises
  <2>5. \A c \in calls' : c.kind = "refresh" /\ c.pc \in {"exchange", "finish", "publish"} =>
           c.flag \in canceled'
    BY <1>c, <2>1 DEF Flags, Held, RequestRaises
  <2>6. owner'.session # NoSession => owner'.generation \in canceled'
    BY <2>1 DEF Flags, Held, RequestRaises
  <2> QED BY <2>4, <2>5, <2>6 DEF Held, Claims, Attempt, Holds
<1>8. RestoreAlone'
  BY <1>n, <1>t DEF RestoreAlone
<1>9. LogoutForgets'
  BY <1>n, <1>t DEF LogoutForgets, RequestRaises
<1>10. SignedOutIsForgotten'
  BY DEF SignedOutIsForgotten, RequestRaises
<1> QED BY <1>1, <1>2, <1>3, <1>4, <1>5, <1>6, <1>7, <1>8, <1>9, <1>10 DEF Flags

LEMMA AbortedAborts ==
  ASSUME Types, NEW i \in Aborted
  PROVE  \E j \in jobs : Aborts(i, j)
<1>1. PICK j \in jobs : j.pc = "run" /\ i = [j EXCEPT !.aborted = TRUE]
  BY DEF Aborted, Dropped
<1>2. j \in Jobs
  BY DEF Types, ElementTypes
<1>3. \A b \in BOOLEAN : LET h == [j EXCEPT !.aborted = b]
                         IN  /\ h \in Jobs /\ h.aborted = b
                             /\ h.kind = j.kind /\ h.gen = j.gen /\ h.flag = j.flag /\ h.pc = j.pc
                             /\ h.res = j.res /\ h.token = j.token
  BY <1>2 DEF Jobs
<1>4. /\ i \in Jobs /\ i.aborted = TRUE
      /\ i.kind = j.kind /\ i.gen = j.gen /\ i.flag = j.flag /\ i.pc = j.pc
      /\ i.res = j.res /\ i.token = j.token
  BY <1>1, <1>3
<1> QED BY <1>1, <1>4 DEF Aborts

LEMMA DropFlowDrops ==
  ASSUME Types, NEW x \in DropFlow(Dropped)
  PROVE  Drops(x)
<1>1. PICK j \in jobs : j.kind = "login" /\ x = Call("cancel", j.gen, j.flag)
  BY DEF DropFlow, Dropped
<1>2. j \in Jobs
  BY DEF Types, ElementTypes
<1> QED BY <1>1, <1>2 DEF Drops, Call, Calls, Jobs, None, Result

LEMMA JobType ==
  ASSUME NEW kind \in {"restore", "login", "maintain", "logout"}, NEW g \in Nat, NEW f \in Nat
  PROVE  Job(kind, g, f) \in Jobs /\ Job(kind, g, f).flag = f /\ Job(kind, g, f).token = 0
<1>1. "none" \in Result /\ None = 0
  BY DEF Result, None
<1>2. ASSUME NEW b \in BOOLEAN
      PROVE  [kind |-> kind, gen |-> g, flag |-> f, pc |-> "run", res |-> "none",
              token |-> None, aborted |-> b] \in Jobs
  BY <1>1 DEF Jobs
<1> QED BY <1>1, <1>2 DEF Job

LEMMA RequestKeepsTypes ==
  ASSUME Types, NEW N, Requests(N), canceled' = canceled \union Raised,
         flags' = flags \/ flags' = flags + 1,
         \A n \in N : n.kind = "login" => flags' = flags + 1,
         UNCHANGED expired, KeepOwner, ServiceTypes', svc.generation <= svc'.generation
  PROVE  Types'
<1>0. /\ flags \in Nat /\ grants \in Nat /\ svc.generation \in Nat /\ svc'.generation \in Nat
      /\ svc.cancellation \in Nat /\ svc.cancellation <= flags
      /\ \A x \in jobs \union calls : /\ x.gen \in Nat /\ x.gen <= svc.generation
                                      /\ x.flag \in Nat /\ x.flag <= flags
                                      /\ x.token \in Nat /\ x.token <= grants
  BY DEF Types, StateTypes, ServiceTypes, ElementTypes, Jobs, Calls
<1>1. StateTypes'
  <2>1. \A f \in canceled' : f \in Nat /\ f <= flags
    BY <1>0 DEF Raised, DropFlags, Dropped, Types, StateTypes
  <2>2. flags' \in Nat /\ flags <= flags'
    BY <1>0
  <2>3. \A f \in canceled' : f \in Nat /\ f <= flags'
    BY <1>0, <2>1, <2>2
  <2> QED BY <2>2, <2>3 DEF Types, StateTypes, KeepOwner
<1>2. OwnerTypes'
  BY <1>0 DEF Types, OwnerTypes, KeepOwner
<1>3. ElementTypes'
  <2>1. \A n \in N : n \in Jobs /\ n.gen <= svc'.generation /\ n.flag <= flags' /\ n.token <= grants
    <3>1. "none" \in Result /\ None = 0
      BY DEF Result, None
    <3>2. ASSUME NEW n \in N
          PROVE  \/ n = Job("login", svc.generation + 1, flags + 1) /\ flags' = flags + 1
                 \/ n = Job("logout", svc.generation + 1, None)
      BY <3>2 DEF Requests, Opens, Job
    <3>3. \A n \in N : n.gen = svc.generation + 1 /\ svc'.generation = svc.generation + 1
      BY DEF Requests, Opens
    <3>4. \A n \in N : n \in Jobs /\ n.flag <= flags' /\ n.token <= grants
      <4>1. PICK g \in Nat : g = svc.generation + 1
        BY <1>0
      <4>2. PICK f \in Nat : f = flags + 1
        BY <1>0
      <4>3. /\ Job("login", g, f) \in Jobs /\ Job("login", g, f).flag = f
            /\ Job("login", g, f).token = 0
            /\ Job("logout", g, 0) \in Jobs /\ Job("logout", g, 0).flag = 0
            /\ Job("logout", g, 0).token = 0
        BY JobType
      <4>4. ASSUME NEW n \in N
            PROVE  (n = Job("login", g, f) /\ flags' = f) \/ n = Job("logout", g, 0)
        BY <3>1, <3>2, <4>1, <4>2
      <4> QED BY <1>0, <4>3, <4>4
    <3> QED BY <1>0, <3>3, <3>4
  <2>2. ASSUME NEW i, NEW j \in jobs, Aborts(i, j)
        PROVE  i \in Jobs /\ i.gen <= svc'.generation /\ i.flag <= flags' /\ i.token <= grants
    BY <1>0, <2>2 DEF Aborts
  <2>3. ASSUME NEW x, Drops(x) \/ Suspends(x)
        PROVE  x \in Calls /\ x.gen <= svc'.generation /\ x.flag <= flags' /\ x.token <= grants
    BY <1>0, <2>3 DEF Drops, Suspends, Call, Calls, None, Result
  <2>4. \A x \in calls : x.gen <= svc'.generation /\ x.flag <= flags'
    BY <1>0
  <2> QED BY <1>0, <2>1, <2>2, <2>3, <2>4 DEF Types, ElementTypes, Requests, KeepOwner
<1> QED BY <1>1, <1>2, <1>3 DEF Types

LEMMA HandleStartKeeps ==
  ASSUME AuthInv, NEW expected, HandleStart(expected)
  PROVE  AuthInv'
<1> DEFINE n == Job("login", svc.generation + 1, flags + 1)
<1>0. Types /\ Order /\ Flags
  BY DEF AuthInv
<1>1. /\ ~svc.closed /\ svc.generation < MaxRequests
      /\ canceled' = canceled \union Raised /\ flags' = flags + 1
      /\ svc' = [svc EXCEPT !.generation = svc.generation + 1, !.state = "signing_in",
                            !.cancellation = flags + 1, !.until = None]
      /\ jobs' = Aborted \union {n}
      /\ calls' = calls \union DropFlow(Dropped)
      /\ UNCHANGED expired /\ KeepOwner
  BY DEF HandleStart, Requested
<1>2. /\ svc \in [generation : Nat, state : State, cancellation : Nat, until : Nat,
                  closed : BOOLEAN]
      /\ flags \in Nat /\ failures \in Nat /\ svc.generation + 1 \in Nat /\ flags + 1 \in Nat
      /\ MaxRequests \in Nat /\ grants \in Nat
  BY <1>0, BoundsAssumption DEF Types, ServiceTypes, StateTypes
<1>3. None \in Nat /\ None = 0 /\ "signing_in" \in State
  BY DEF None, State, Transient
<1>4. /\ svc'.generation = svc.generation + 1 /\ svc'.closed = svc.closed
      /\ svc'.cancellation = flags + 1 /\ svc'.state = "signing_in" /\ svc'.until = None
  BY <1>1, <1>2
<1>5. svc' \in [generation : Nat, state : State, cancellation : Nat, until : Nat,
                closed : BOOLEAN]
  <2> HIDE DEF None
  <2>1. PICK g \in Nat : g = svc.generation + 1
    BY <1>2
  <2>2. PICK f \in Nat : f = flags + 1
    BY <1>2
  <2> QED BY <1>1, <1>2, <1>3, <2>1, <2>2
<1>6. ServiceTypes'
  BY <1>1, <1>2, <1>3, <1>4, <1>5 DEF ServiceTypes, KeepOwner
<1>7. /\ n.gen = svc.generation + 1 /\ n.kind = "login"
      /\ Opens(n)
  BY DEF Job, Opens
<1> HIDE DEF n
<1>8. Requests({n})
  BY <1>0, <1>1, <1>4, <1>7, AbortedAborts, DropFlowDrops DEF Requests
<1>9. RequestRaises({n})
  BY <1>1, <1>4, <1>7 DEF RequestRaises, Raised, KeepOwner
<1>10. Types'
  BY <1>0, <1>1, <1>2, <1>4, <1>6, <1>7, <1>8, RequestKeepsTypes
<1> QED BY <1>0, <1>8, <1>9, <1>10, RequestKeepsOrder, RequestKeepsFlags DEF AuthInv

LEMMA HandleLogoutKeeps ==
  ASSUME AuthInv, NEW expected, NEW cancelOnly, HandleLogout(expected, cancelOnly)
  PROVE  AuthInv'
<1> DEFINE n == Job("logout", svc.generation + 1, None)
<1>0. Types /\ Order /\ Flags
  BY DEF AuthInv
<1>1. /\ ~svc.closed /\ svc.generation < MaxRequests
      /\ canceled' = canceled \union Raised /\ flags' = flags
      /\ svc' = [svc EXCEPT !.generation = svc.generation + 1, !.state = "signing_out",
                            !.cancellation = None]
      /\ jobs' = Aborted \union {n}
      /\ calls' = calls \union DropFlow(Dropped)
      /\ UNCHANGED expired /\ KeepOwner
  BY DEF HandleLogout, Requested
<1>2. /\ svc \in [generation : Nat, state : State, cancellation : Nat, until : Nat,
                  closed : BOOLEAN]
      /\ flags \in Nat /\ failures \in Nat /\ svc.generation + 1 \in Nat
      /\ MaxRequests \in Nat /\ grants \in Nat /\ svc.until <= grants
  BY <1>0, BoundsAssumption DEF Types, ServiceTypes, StateTypes
<1>3. None \in Nat /\ None = 0 /\ "signing_out" \in State
  BY DEF None, State, Transient
<1>4. /\ svc'.generation = svc.generation + 1 /\ svc'.closed = svc.closed
      /\ svc'.cancellation = None /\ svc'.state = "signing_out" /\ svc'.until = svc.until
  BY <1>1, <1>2
<1>5. svc' \in [generation : Nat, state : State, cancellation : Nat, until : Nat,
                closed : BOOLEAN]
  <2> HIDE DEF None
  <2>1. PICK g \in Nat : g = svc.generation + 1
    BY <1>2
  <2> QED BY <1>1, <1>2, <1>3, <2>1
<1>6. ServiceTypes'
  BY <1>1, <1>2, <1>3, <1>4, <1>5 DEF ServiceTypes, KeepOwner
<1>7. n.gen = svc.generation + 1 /\ n.kind = "logout" /\ Opens(n)
  BY DEF Job, Opens
<1> HIDE DEF n
<1>8. Requests({n})
  BY <1>0, <1>1, <1>4, <1>7, AbortedAborts, DropFlowDrops DEF Requests
<1>9. RequestRaises({n})
  BY <1>1, <1>4, <1>7 DEF RequestRaises, Raised, KeepOwner
<1>10. Types'
  BY <1>0, <1>1, <1>2, <1>4, <1>6, <1>7, <1>8, RequestKeepsTypes
<1> QED BY <1>0, <1>8, <1>9, <1>10, RequestKeepsOrder, RequestKeepsFlags DEF AuthInv

LEMMA ShutdownKeeps ==
  ASSUME AuthInv, Shutdown
  PROVE  AuthInv'
<1>0. Types /\ Order /\ Flags
  BY DEF AuthInv
<1>1. /\ canceled' = canceled \union Raised /\ flags' = flags
      /\ svc' = [svc EXCEPT !.closed = TRUE, !.cancellation = None]
      /\ jobs' = Aborted
      /\ calls' = calls \union DropFlow(Dropped) \union {Call("suspend", svc.generation, None)}
      /\ UNCHANGED expired /\ KeepOwner
  BY DEF Shutdown
<1>2. /\ svc \in [generation : Nat, state : State, cancellation : Nat, until : Nat,
                  closed : BOOLEAN]
      /\ flags \in Nat /\ svc.until <= grants
      /\ svc.generation <= MaxRequests + failures
  BY <1>0 DEF Types, ServiceTypes, StateTypes
<1>3. None \in Nat /\ None = 0
  BY DEF None
<1>4. \A b \in BOOLEAN, f \in Nat :
         LET s == [svc EXCEPT !.closed = b, !.cancellation = f]
         IN  /\ s \in [generation : Nat, state : State, cancellation : Nat, until : Nat,
                       closed : BOOLEAN]
             /\ s.generation = svc.generation /\ s.closed = b
             /\ s.cancellation = f /\ s.until = svc.until
  BY <1>2
<1>5. /\ svc' \in [generation : Nat, state : State, cancellation : Nat, until : Nat,
                   closed : BOOLEAN]
      /\ svc'.generation = svc.generation /\ svc'.closed = TRUE
      /\ svc'.cancellation = None /\ svc'.until = svc.until
  BY <1>1, <1>3, <1>4
<1>6. ServiceTypes'
  BY <1>1, <1>2, <1>3, <1>5 DEF ServiceTypes, KeepOwner
<1>8. Requests({})
  BY <1>0, <1>1, <1>5, AbortedAborts, DropFlowDrops DEF Requests, Suspends
<1>9. RequestRaises({})
  BY <1>1, <1>5 DEF RequestRaises, Raised, KeepOwner
<1>10. Types'
  BY <1>0, <1>1, <1>2, <1>5, <1>6, <1>8, RequestKeepsTypes
<1> QED BY <1>0, <1>8, <1>9, <1>10, RequestKeepsOrder, RequestKeepsFlags DEF AuthInv

(* Only the status, or only what has expired, changes.                     *)
LEMMA StillKeeps ==
  ASSUME AuthInv, UNCHANGED <<jobs, calls, canceled, owner, store, flags, grants>>,
         StateTypes', ServiceTypes', ServiceCalm
  PROVE  AuthInv'
<1>0. Types /\ Order /\ Flags
  BY DEF AuthInv
<1>s. /\ \A x : Stale(x)' <=> Stale(x)
      /\ \A f : Holds(f) => Holds(f)'
  BY DEF ServiceCalm, SameGeneration, Stale, Holds
<1>1. Types'
  BY <1>0 DEF Types, OwnerTypes, ElementTypes, ServiceCalm, SameGeneration
<1>2. Order'
  BY <1>0, <1>s DEF Order, JobsInOrder, Fits, OneCall, Awaited, Answered, OneAttempt, Attempt
<1>3. UnbegunIsFresh' /\ OneWorker' /\ BegunIsAlone' /\ Publication' /\ ReadFlags'
  <2>1. UnbegunIsFresh'
    BY <1>0 DEF Flags, UnbegunIsFresh, Unbegun
  <2>2. OneWorker'
    BY <1>0 DEF Flags, OneWorker, Works, AtWork
  <2>3. BegunIsAlone'
    BY <1>0 DEF Flags, BegunIsAlone, Begun, Works, AtWork
  <2>4. Publication'
    BY <1>0 DEF Flags, Publication
  <2>5. ReadFlags'
    BY <1>0 DEF Flags, ReadFlags, Renewal
  <2> QED BY <2>1, <2>2, <2>3, <2>4, <2>5
<1>4. StaleRenewals'
  BY <1>0, <1>s DEF Flags, StaleRenewals, Renewal, ServiceCalm, SameGeneration
<1>5. Held'
  <2>1. \A x \in jobs \union calls : Claims(x) =>
           x.flag \in canceled \/ (Holds(x.flag)' /\ x.gen = svc'.generation)
    BY <1>0, <1>s DEF Flags, Held, ServiceCalm, SameGeneration
  <2>2. \A c \in calls : c.kind = "refresh" /\ c.pc \in {"exchange", "finish", "publish"} =>
           c.flag \in canceled \/ Holds(c.flag)'
    BY <1>0, <1>s DEF Flags, Held
  <2>3. owner.session # NoSession => owner.generation \in canceled \/ Holds(owner.generation)'
    BY <1>0, <1>s DEF Flags, Held
  <2> QED BY <2>1, <2>2, <2>3 DEF Held, Claims, Attempt, Holds
<1>6. RestoreAlone'
  BY <1>0, <1>s DEF Flags, RestoreAlone, ServiceCalm, SameGeneration
<1>7. LogoutForgets'
  BY <1>0, <1>s DEF Flags, LogoutForgets, ServiceCalm
<1>8. SignedOutIsForgotten'
  BY <1>0 DEF Flags, SignedOutIsForgotten, ServiceCalm, SameGeneration
<1> QED BY <1>1, <1>2, <1>3, <1>4, <1>5, <1>6, <1>7, <1>8 DEF AuthInv, Flags

LEMMA HandleStatusKeeps ==
  ASSUME AuthInv, HandleStatus
  PROVE  AuthInv'
<1>1. /\ UNCHANGED <<jobs, calls, canceled, owner, store, flags, grants, failures, expired>>
      /\ svc' = [svc EXCEPT !.state = "failed"]
  BY DEF HandleStatus, KeepOwner, Observed
<1>2. svc \in [generation : Nat, state : State, cancellation : Nat, until : Nat,
               closed : BOOLEAN]
  BY DEF AuthInv, Types, ServiceTypes
<1>3. "failed" \in State
  BY DEF State
<1>4. /\ svc' \in [generation : Nat, state : State, cancellation : Nat, until : Nat,
                   closed : BOOLEAN]
      /\ svc'.generation = svc.generation /\ svc'.closed = svc.closed
      /\ svc'.cancellation = svc.cancellation /\ svc'.state = "failed"
      /\ svc'.until = svc.until
  BY <1>1, <1>2, <1>3
<1>5. ServiceTypes' /\ ServiceCalm
  BY <1>1, <1>4 DEF AuthInv, Types, ServiceTypes, ServiceCalm, SameGeneration
<1>6. StateTypes'
  BY <1>1 DEF AuthInv, Types, StateTypes
<1> QED BY <1>1, <1>5, <1>6, StillKeeps

LEMMA ExpireKeeps ==
  ASSUME AuthInv, NEW t \in 1 .. grants, Expire(t)
  PROVE  AuthInv'
<1>1. /\ UNCHANGED <<svc, jobs, calls, canceled, owner, store, flags, grants, failures>>
      /\ expired' = expired \union {t}
  BY DEF Expire, KeepOwner
<1>2. StateTypes'
  BY <1>1 DEF AuthInv, Types, StateTypes
<1>3. ServiceTypes' /\ ServiceCalm
  BY <1>1 DEF AuthInv, Types, ServiceTypes, ServiceCalm, SameGeneration
<1> QED BY <1>1, <1>2, <1>3, StillKeeps

(* A daemon that has just started: one job, no call, nothing in memory.    *)
LEMMA StartedIsSound ==
  ASSUME NEW g \in Nat, NEW f \in Nat, f # 0,
         svc = Restoring(g), jobs = {Job("restore", g, None)}, calls = {},
         owner = NewOwner(f), flags = f, g <= MaxRequests + failures,
         StateTypes
  PROVE  AuthInv
<1>0. None = 0 /\ "none" \in Result /\ "restoring" \in State
  BY DEF None, Result, State, Transient
<1> DEFINE j == Job("restore", g, None)
<1>1. /\ j.kind = "restore" /\ j.gen = g /\ j.flag = 0 /\ j.pc = "run" /\ j.res = "none"
      /\ j.token = 0 /\ j.aborted = FALSE
  BY <1>0 DEF Job
<1>2. j \in Jobs
  BY <1>0, JobType
<1> HIDE DEF j
<1>3. jobs = {j}
  BY DEF j
<1>4. /\ svc.generation = g /\ svc.state = "restoring" /\ svc.cancellation = 0
      /\ svc.until = 0 /\ svc.closed = FALSE
  BY <1>0 DEF Restoring
<1>5. ServiceTypes
  <2>1. ASSUME NEW b \in BOOLEAN
        PROVE  [generation |-> g, state |-> "restoring", cancellation |-> None,
                until |-> None, closed |-> b]
                 \in [generation : Nat, state : State, cancellation : Nat, until : Nat,
                      closed : BOOLEAN]
    BY <1>0
  <2>2. svc \in [generation : Nat, state : State, cancellation : Nat, until : Nat,
                 closed : BOOLEAN]
    BY <2>1 DEF Restoring
  <2> QED BY <1>4, <2>2 DEF ServiceTypes, StateTypes
<1>6. NoSession \in [token : Nat, flag : Nat] /\ NoSession.token = 0 /\ NoSession.flag = 0
  BY <1>0 DEF NoSession
<1>7. /\ owner.generation = f /\ owner.initialized = FALSE /\ owner.busy = FALSE
      /\ owner.session = NoSession
  BY DEF NewOwner
<1>8. OwnerTypes
  <2>1. ASSUME NEW a \in BOOLEAN, NEW b \in BOOLEAN
        PROVE  [generation |-> f, initialized |-> a, busy |-> b, session |-> NoSession]
                 \in [generation : Nat, initialized : BOOLEAN, busy : BOOLEAN,
                      session : [token : Nat, flag : Nat]]
    BY <1>6
  <2>2. owner \in [generation : Nat, initialized : BOOLEAN, busy : BOOLEAN,
                   session : [token : Nat, flag : Nat]]
    BY <2>1 DEF NewOwner
  <2> QED BY <1>0, <1>6, <1>7, <2>2 DEF OwnerTypes, StateTypes
<1>9. Types
  BY <1>1, <1>2, <1>3, <1>4, <1>5, <1>8 DEF Types, ElementTypes, StateTypes
<1>10. Order
  BY <1>1, <1>3, <1>4 DEF Order, JobsInOrder, Fits, Stale, OneCall, OneAttempt, Attempt
<1>11. UnbegunIsFresh /\ BegunIsAlone /\ OneWorker
  BY <1>1, <1>3, <1>7 DEF UnbegunIsFresh, Unbegun, BegunIsAlone, Begun, OneWorker
<1>12. Publication /\ ReadFlags /\ StaleRenewals
  BY <1>1, <1>3, <1>7 DEF Publication, ReadFlags, Renewal, StaleRenewals
<1>13. Held /\ RestoreAlone /\ LogoutForgets /\ SignedOutIsForgotten
  BY <1>1, <1>3, <1>4, <1>7 DEF Held, Claims, Attempt, RestoreAlone, LogoutForgets,
     SignedOutIsForgotten
<1> QED BY <1>9, <1>10, <1>11, <1>12, <1>13 DEF AuthInv, Flags

LEMMA InitIsSound == Init => AuthInv
<1> SUFFICES ASSUME Init  PROVE AuthInv
  OBVIOUS
<1>1. StateTypes
  BY BoundsAssumption DEF Init, StateTypes, None
<1>2. 0 <= MaxRequests + failures
  BY BoundsAssumption DEF Init
<1> QED BY <1>1, <1>2, StartedIsSound DEF Init

Started ==
  /\ svc.generation \in Nat /\ svc.generation <= MaxRequests + failures
  /\ svc = Restoring(svc.generation)
  /\ jobs = {Job("restore", svc.generation, None)} /\ calls = {}
  /\ flags \in Nat /\ flags # 0 /\ owner = NewOwner(flags)
  /\ StateTypes

LEMMA StartedSound == Started => AuthInv
BY StartedIsSound DEF Started

LEMMA StartedSoundNext == Started' => AuthInv'
BY StartedSound, PTL

LEMMA RestartKeeps ==
  ASSUME AuthInv, Restart
  PROVE  AuthInv'
<1>1. /\ svc.generation \in Nat /\ svc.generation <= MaxRequests + failures
      /\ failures \in Nat /\ flags \in Nat
  BY DEF AuthInv, Types, ServiceTypes, StateTypes
<1>2. svc' = Restoring(svc.generation + 1) /\ svc'.generation = svc.generation + 1
  BY DEF Restart, Restoring
<1>3. StateTypes'
  BY <1>1, BoundsAssumption DEF Restart, AuthInv, Types, StateTypes
<1>4. svc'.generation \in Nat /\ svc'.generation <= MaxRequests + failures'
  BY <1>1, <1>2, BoundsAssumption DEF Restart
<1>5. jobs' = {Job("restore", svc'.generation, None)} /\ svc' = Restoring(svc'.generation)
  BY <1>2 DEF Restart
<1>6. calls' = {} /\ flags' = flags + 1 /\ owner' = NewOwner(flags')
  BY DEF Restart
<1>7. Started'
  BY <1>1, <1>3, <1>4, <1>5, <1>6 DEF Started
<1> QED BY <1>7, StartedSoundNext

----------------------------------------------------------------------------
(* Steps of the calls. *)

(* What a step of the call c leaves of itself, as one of D or as the       *)
(* answer r with the flag f, is for the flag it was for or for one read    *)
(* from the owner.                                                         *)
Settled(c) == c.kind = "refresh" /\ c.pc \in {"exchange", "finish", "publish"}
CallFits(c, D, r, f) ==
  /\ \A d \in D :
       /\ d.kind = c.kind /\ d.gen = c.gen /\ c.kind # "begin"
       /\ d.flag = c.flag \/ (c.kind = "restore" /\ d.flag = owner.generation)
       /\ Claims(d) => Claims(c) /\ d.flag = c.flag
       /\ Settled(d) => Settled(c) \/ (owner.session # NoSession /\ c.flag = owner.generation)
  /\ r \notin {"none", "begun", "code"}
  /\ f = c.flag \/ (c.kind \in {"metadata", "refresh"} /\ f = owner.generation)
  /\ r = "ok" /\ c.kind \in {"metadata", "refresh"} => f # None
  /\ r = "ok" /\ c.kind \in {"restore", "begin", "complete"} /\ ~Stale(c) =>
        \A x \in jobs \union calls :
           Renewal(x) /\ Stale(x) => x.flag \in canceled \union {None}

(* The owner keeps its flag or takes a new one, and the flags stay raised. *)
OwnerFits ==
  /\ canceled \subseteq canceled'
  /\ \/ owner'.generation = owner.generation
     \/ owner'.generation = flags + 1 /\ owner.generation \in canceled'
  /\ owner'.session # NoSession =>
        owner'.generation \in canceled' \/ Holds(owner'.generation)

(* Nothing is saved but for the login the service holds; what the answers  *)
(* of a sign-out and of a restore say of the store is so.                  *)
StoreFits(c, D, r) ==
  /\ store' \in {store, None} \/ \E h : Holds(h)
  /\ c.kind = "logout" /\ ~Stale(c) /\ (r = "ok" \/ \E d \in D : d.res = "ok") =>
        store' = None
  /\ c.kind = "restore" /\ ~Stale(c) =>
        /\ (r = "empty" \/ \E d \in D : d.res = "empty") =>
              owner'.session = NoSession /\ store' = None
        /\ \A d \in D : d.pc # "start" => d.flag = owner'.generation

LEMMA CallKeepsRest ==
  ASSUME Types, Order, Flags, NEW c \in calls, NEW D, NEW r, NEW f,
         Stepped(c, D, r, f), CallFits(c, D, r, f), OwnerFits, StoreFits(c, D, r),
         svc' = svc
  PROVE  /\ UnbegunIsFresh' /\ ReadFlags' /\ StaleRenewals' /\ Held' /\ RestoreAlone'
         /\ LogoutForgets' /\ SignedOutIsForgotten'
<1> DEFINE Came(k) == \E j \in jobs : /\ j.gen = c.gen /\ j.pc = c.kind
                                      /\ Receives(k, j, r, f, c.token)
<1>0. /\ \A x \in calls' : (x \in calls /\ x # c) \/ x \in D
      /\ \A k \in jobs' : k \in jobs \/ Came(k)
  BY DEF Stepped
<1>t. /\ flags \in Nat /\ owner.generation \in Nat /\ owner.generation # None
      /\ owner.generation <= flags
      /\ \A x \in jobs \union calls : x.flag \in Nat /\ x.flag <= flags
  BY DEF Types, StateTypes, OwnerTypes, ElementTypes, Jobs, Calls
<1>s. /\ \A x : Stale(x)' <=> Stale(x)
      /\ \A h : Holds(h)' <=> Holds(h)
  BY DEF Stale, Holds
<1>j. ASSUME NEW k, Came(k)
      PROVE  /\ k.gen = c.gen /\ k.pc = "run" /\ k.res = r /\ k.flag = f
             /\ Awaited(c) /\ ~Stale(k) /\ ~Stale(c)
             /\ \E j \in jobs : /\ j.gen = c.gen /\ j.pc = c.kind /\ j.kind = k.kind
                                /\ k.kind = "login" => j.flag = c.flag
             /\ k.kind = "login" => c.kind \in {"begin", "complete"} /\ f = c.flag
             /\ k.kind = "maintain" => c.kind \in {"metadata", "refresh"}
             /\ k.kind = "logout" => c.kind = "logout"
             /\ k.kind = "restore" => c.kind = "restore"
  <2>1. PICK j \in jobs : j.gen = c.gen /\ j.pc = c.kind /\ Receives(k, j, r, f, c.token)
    BY <1>j
  <2>2. Awaited(c) /\ ~j.aborted /\ c.kind \notin {"run", "asleep", "listen"}
    BY <2>1 DEF Types, ElementTypes, Jobs, Calls, Order, JobsInOrder, Fits, Awaited
  <2>3. j.kind = "login" => j.flag = c.flag
    BY <2>1, <2>2 DEF Order, OneCall
  <2>4. ~Stale(j) /\ Fits(j)
    BY <2>2 DEF Order, JobsInOrder
  <2>5. ~Stale(k) /\ ~Stale(c)
    BY <2>1, <2>4 DEF Stale, Receives
  <2>6. /\ k.kind = "login" => c.kind \in {"begin", "complete"} /\ f = c.flag
        /\ k.kind = "maintain" => c.kind \in {"metadata", "refresh"}
        /\ k.kind = "logout" => c.kind = "logout"
        /\ k.kind = "restore" => c.kind = "restore"
    BY <2>1, <2>2, <2>4 DEF Receives, Fits, CallFits
  <2> QED BY <2>1, <2>2, <2>3, <2>5, <2>6 DEF Receives
<1>k. \A k : Came(k) => ~Unbegun(k) /\ (Claims(k) => k.kind = "login")
  <2>1. \A k : Came(k) => k \in Jobs
    BY DEF Receives
  <2>2. ASSUME NEW k, Came(k)  PROVE ~Unbegun(k) /\ (Claims(k) => k.kind = "login")
    BY <1>j, <2>1, <2>2 DEF Unbegun, Claims, Attempt, CallFits, Jobs
  <2> QED BY <2>2
<1> HIDE DEF Came
<1>1. UnbegunIsFresh'
  <2>1. \A b \in jobs \union calls : Unbegun(b) =>
           /\ b.flag # owner.generation /\ b.flag # None
           /\ \A x \in jobs \union calls : x.flag = b.flag => x.gen = b.gen
    BY DEF Flags, UnbegunIsFresh, Unbegun, Order, OneAttempt, Attempt
  <2>2. \A b \in jobs' \union calls' : Unbegun(b) => b \in jobs \union calls
    <3>1. \A d \in D : ~Unbegun(d)
      BY DEF CallFits, Unbegun, Types, ElementTypes, Calls
    <3> QED BY <1>0, <1>k, <3>1
  <2>3. \A x \in jobs' \union calls' :
           \/ x.flag = owner.generation
           \/ \E y \in jobs \union calls : y.flag = x.flag /\ y.gen = x.gen
    BY <1>0, <1>j DEF CallFits
  <2>4. ASSUME NEW b \in jobs' \union calls', Unbegun(b)
        PROVE  /\ b.flag # owner'.generation
               /\ \A x \in jobs' \union calls' : x.flag = b.flag => x.gen = b.gen
    BY <1>t, <2>1, <2>2, <2>3, <2>4 DEF OwnerFits
  <2> QED BY <2>4 DEF UnbegunIsFresh, Unbegun
<1>2. ReadFlags'
  <2>1. \A x \in jobs \union calls : Renewal(x) => x.flag \in canceled' \union {owner'.generation, None}
    BY DEF Flags, ReadFlags, OwnerFits
  <2>2. c.kind = "metadata" => c.flag = None
    BY DEF Flags, ReadFlags
  <2>3. c.kind \in {"metadata", "refresh"} => f \in canceled' \union {owner'.generation, None}
    BY <2>1, <2>2 DEF CallFits, OwnerFits, Renewal
  <2>4. \A x \in jobs' \union calls' : Renewal(x) =>
           x.flag \in canceled' \union {owner'.generation, None}
    <3>1. \A k : Came(k) /\ Renewal(k) => c.kind \in {"metadata", "refresh"} /\ k.flag = f
      <4>1. \A k : Came(k) => k \in Jobs
        BY DEF Came, Receives
      <4> QED BY <1>j, <4>1 DEF Renewal, Jobs
    <3>2. \A d \in D : Renewal(d) => Renewal(c) /\ d.flag = c.flag
      BY DEF CallFits, Renewal, Types, ElementTypes, Calls
    <3> QED BY <1>0, <2>1, <2>3, <3>1, <3>2
  <2>5. \A d \in calls' : d.kind = "metadata" => d.flag = None
    BY <1>0, <2>2 DEF Flags, ReadFlags, CallFits
  <2>6. \A k \in jobs' : k.kind = "maintain" /\ k.res = "ok" => k.flag # None
    BY <1>0, <1>j DEF Flags, ReadFlags, CallFits
  <2> QED BY <2>4, <2>5, <2>6 DEF ReadFlags, Renewal
<1>3. StaleRenewals'
  <2>1. ASSUME NEW x \in jobs' \union calls', Renewal(x), Stale(x), x.flag \notin canceled' \union {None}
        PROVE  \E y \in jobs \union calls : /\ Renewal(y) /\ Stale(y) /\ y.flag = x.flag
                                            /\ y.flag \notin canceled \union {None}
    <3>1. \A d \in D : Renewal(d) => Renewal(c) /\ d.flag = c.flag /\ d.gen = c.gen
      BY DEF CallFits, Renewal, Types, ElementTypes, Calls
    <3>2. canceled \subseteq canceled'
      BY DEF OwnerFits
    <3>3. x \in jobs \union calls \/ x \in D
      BY <1>0, <1>j, <2>1
    <3>4. CASE x \in D
      BY <2>1, <3>1, <3>2, <3>4 DEF Stale
    <3> QED BY <2>1, <3>2, <3>3, <3>4
  <2>2. ASSUME NEW x \in jobs' \union calls', Renewal(x), Stale(x), x.flag \notin canceled' \union {None}
        PROVE  /\ x.flag # svc.cancellation
               /\ ~svc.closed => \A i \in jobs' : i.gen = svc.generation =>
                     i.kind # "maintain" /\ (i.res = "ok" => i.kind = "logout")
    <3>1. PICK y \in jobs \union calls : /\ Renewal(y) /\ Stale(y) /\ y.flag = x.flag
                                         /\ y.flag \notin canceled \union {None}
      BY <2>1, <2>2
    <3>2. /\ y.flag # svc.cancellation
          /\ ~svc.closed => \A i \in jobs : i.gen = svc.generation =>
                i.kind # "maintain" /\ (i.res = "ok" => i.kind = "logout")
      BY <3>1 DEF Flags, StaleRenewals
    <3>3. ASSUME NEW k, Came(k), ~svc.closed, k.gen = svc.generation
          PROVE  k.kind # "maintain" /\ (k.res = "ok" => k.kind = "logout")
      <4>1. k.kind # "maintain"
        BY <1>j, <3>2, <3>3
      <4>2. ~(r = "ok" /\ c.kind \in {"restore", "begin", "complete"})
        BY <1>j, <3>1, <3>3 DEF CallFits
      <4>3. k.kind \in {"restore", "login", "logout"}
        BY <3>3, <4>1 DEF Came, Receives, Jobs
      <4> QED BY <1>j, <3>3, <4>2, <4>3
    <3> QED BY <1>0, <3>1, <3>2, <3>3
  <2> QED BY <1>s, <2>2 DEF StaleRenewals, Renewal
<1>4. Held'
  <2>1. \A x \in jobs' \union calls' : Claims(x) =>
           x.flag \in canceled' \/ (Holds(x.flag) /\ x.gen = svc.generation)
    <3>1. \A y \in jobs \union calls : Claims(y) =>
             y.flag \in canceled' \/ (Holds(y.flag) /\ y.gen = svc.generation)
      BY DEF Flags, Held, OwnerFits
    <3>2. \A d \in D : Claims(d) => Claims(c) /\ d.flag = c.flag /\ d.gen = c.gen
      BY DEF CallFits
    <3>3. \A k : Came(k) /\ Claims(k) => Claims(c) /\ k.flag = c.flag /\ k.gen = c.gen
      BY <1>j, <1>k DEF Claims, Attempt
    <3> QED BY <1>0, <3>1, <3>2, <3>3
  <2>2. \A d \in calls' : Settled(d) => d.flag \in canceled' \/ Holds(d.flag)
    <3>1. \A d \in calls : Settled(d) => d.flag \in canceled' \/ Holds(d.flag)
      BY DEF Flags, Held, Settled, OwnerFits
    <3>2. \A d \in D : Settled(d) => d.flag = c.flag
      BY DEF CallFits, Settled
    <3>3. owner.session # NoSession => owner.generation \in canceled' \/ Holds(owner.generation)
      BY DEF Flags, Held, OwnerFits
    <3> QED BY <1>0, <3>1, <3>2, <3>3 DEF CallFits
  <2>3. owner'.session # NoSession => owner'.generation \in canceled' \/ Holds(owner'.generation)
    BY DEF OwnerFits
  <2>4. \A h : Holds(h) => h # None /\ svc'.cancellation = h /\ ~svc'.closed
                           /\ svc'.state \notin {"signing_out", "signed_out"}
    BY DEF Holds
  <2> QED BY <2>1, <2>2, <2>3, <2>4 DEF Held, Claims, Attempt, Holds, Settled
<1>5. RestoreAlone'
  <2>1. ASSUME NEW x \in jobs' \union calls', x.kind = "restore", ~Stale(x)
        PROVE  \E y \in jobs \union calls : y.kind = "restore" /\ ~Stale(y)
    BY <1>0, <1>j, <2>1 DEF CallFits, Stale
  <2>2. ASSUME NEW x \in jobs' \union calls', x.kind = "restore", ~Stale(x)
        PROVE  /\ \A y \in jobs \union calls : y.kind = "restore" /\ y.gen = svc.generation
               /\ svc.state \in {"restoring", "failed"}
    BY <2>1, <2>2 DEF Flags, RestoreAlone
  <2>3. ASSUME NEW x \in jobs' \union calls', x.kind = "restore", ~Stale(x)
        PROVE  \A y \in jobs' \union calls' : y.kind = "restore" /\ y.gen = svc.generation
    <3>1. \A d \in D : d.kind = c.kind /\ d.gen = c.gen
      BY DEF CallFits
    <3>2. \A y \in jobs \union calls : y.kind = "restore" /\ y.gen = svc.generation
      BY <2>2, <2>3
    <3>3. \A k : Came(k) => k.kind = "restore" /\ k.gen = svc.generation
      BY <1>j, <3>2
    <3> QED BY <1>0, <3>1, <3>2, <3>3
  <2>4. ASSUME NEW x \in jobs' \union calls', x.kind = "restore", ~Stale(x)
        PROVE  c.kind = "restore" /\ ~Stale(c) /\ (x \in calls /\ x # c => FALSE)
    <3>1. c.kind = "restore" /\ c.gen = svc.generation /\ Awaited(c)
      BY <2>2, <2>4 DEF Awaited
    <3> QED BY <2>2, <2>4, <3>1 DEF Order, OneCall, Awaited, Stale
  <2>5. ASSUME NEW x \in jobs' \union calls', x.kind = "restore", ~Stale(x), x.res = "empty"
        PROVE  owner'.session = NoSession /\ store' = None
    <3>1. x \in jobs => FALSE
      <4>1. ASSUME x \in jobs  PROVE FALSE
        <5>1. x.gen = c.gen /\ x.pc = c.kind
          BY <2>2, <2>4, <2>5, <4>1 DEF Order, OneCall, Awaited
        <5> QED BY <2>4, <2>5, <4>1, <5>1 DEF Order, JobsInOrder, Fits
      <4> QED BY <4>1
    <3>2. x \in D \/ Came(x)
      BY <1>0, <2>4, <2>5, <3>1
    <3>3. CASE x \in D
      BY <2>4, <2>5, <3>3 DEF StoreFits
    <3>4. CASE Came(x)
      BY <1>j, <2>4, <2>5, <3>4 DEF StoreFits
    <3> QED BY <3>2, <3>3, <3>4
  <2>6. ASSUME NEW x \in calls', x.kind = "restore", ~Stale(x), x.pc # "start"
        PROVE  x.flag = owner'.generation
    BY <1>0, <2>4, <2>6 DEF StoreFits
  <2> QED BY <1>s, <2>2, <2>3, <2>5, <2>6 DEF RestoreAlone
<1>6. LogoutForgets'
  <2>1. ASSUME NEW x \in jobs' \union calls', x.kind = "logout", ~Stale(x)
        PROVE  \E y \in jobs \union calls : y.kind = "logout" /\ ~Stale(y)
    BY <1>0, <1>j, <2>1 DEF CallFits, Stale
  <2>2. ASSUME NEW x \in jobs' \union calls', x.kind = "logout", ~Stale(x)
        PROVE  svc.cancellation = None /\ store' \in {store, None}
    <3>1. svc.cancellation = None
      BY <2>1, <2>2 DEF Flags, LogoutForgets
    <3> QED BY <3>1 DEF StoreFits, Holds
  <2>3. ASSUME NEW x \in jobs' \union calls', x.kind = "logout", ~Stale(x), x.res = "ok"
        PROVE  store' = None
    <3>1. CASE x \in jobs \union calls
      BY <2>2, <2>3, <3>1 DEF Flags, LogoutForgets
    <3>2. CASE x \in D
      BY <2>3, <3>2 DEF CallFits, StoreFits, Stale
    <3>3. CASE Came(x)
      BY <1>j, <2>3, <3>3 DEF StoreFits
    <3> QED BY <1>0, <3>1, <3>2, <3>3
  <2> QED BY <1>s, <2>2, <2>3 DEF LogoutForgets
<1>7. SignedOutIsForgotten'
  BY DEF Flags, SignedOutIsForgotten, StoreFits, Holds
<1> QED BY <1>1, <1>2, <1>3, <1>4, <1>5, <1>6, <1>7

LEMMA CallKeepsTypes ==
  ASSUME Types, NEW c \in calls, NEW D, NEW r, NEW f, Stepped(c, D, r, f), f <= flags',
         \A d \in D : d \in Calls /\ d.gen = c.gen /\ d.flag <= flags' /\ d.token <= grants',
         flags <= flags', grants <= grants', svc'.generation = svc.generation,
         StateTypes', ServiceTypes', OwnerTypes'
  PROVE  Types'
<1>0. /\ flags \in Nat /\ grants \in Nat /\ flags' \in Nat /\ grants' \in Nat
      /\ svc.generation \in Nat
      /\ \A x \in jobs \union calls : /\ x.gen \in Nat /\ x.gen <= svc.generation
                                      /\ x.flag \in Nat /\ x.flag <= flags
                                      /\ x.token \in Nat /\ x.token <= grants
  BY DEF Types, StateTypes, ServiceTypes, ElementTypes, Jobs, Calls
<1>1. \A x \in jobs \union calls : x.flag <= flags' /\ x.token <= grants'
  BY <1>0
<1>2. \A k \in jobs' : k \in Jobs /\ k.gen <= svc.generation /\ k.flag <= flags' /\ k.token <= grants'
  BY <1>0, <1>1 DEF Stepped, Receives, Types, ElementTypes
<1>3. \A x \in calls' : x \in Calls /\ x.gen <= svc.generation /\ x.flag <= flags' /\ x.token <= grants'
  BY <1>0, <1>1 DEF Stepped, Types, ElementTypes
<1> QED BY <1>2, <1>3 DEF Types, ElementTypes

(* A call that leaves the owner and the store alone, and is not at work    *)
(* for the owner afterwards.                                               *)
LEMMA QuietKeepsOwner ==
  ASSUME Types, Order, Flags, NEW c \in calls, NEW D, NEW r, NEW f, Stepped(c, D, r, f),
         r \notin {"begun", "code"}, owner' = owner, store' = store,
         \A d \in D : d \in Calls /\ ~AtWork(d) /\ d.pc # "start"
  PROVE  OneWorker' /\ BegunIsAlone' /\ Publication'
<1>1. \A x \in calls' : AtWork(x) => x \in calls
  BY DEF Stepped
<1>2. \A y \in jobs' \union calls' : Begun(y) => y \in jobs \union calls
  <2>1. \A d \in D : ~Begun(d)
    BY DEF Begun, Calls
  <2>2. ASSUME NEW k, NEW j \in jobs, Receives(k, j, r, f, c.token)  PROVE ~Begun(k)
    BY <2>2 DEF Begun, Receives, Jobs
  <2> QED BY <2>1, <2>2 DEF Stepped
<1>3. OneWorker'
  BY <1>1 DEF Flags, OneWorker, Works, AtWork
<1>4. BegunIsAlone'
  <2>1. \A y \in jobs' \union calls' : Begun(y) /\ y.flag = owner.generation =>
           /\ owner.session = NoSession /\ owner.initialized
           /\ \A x \in calls : ~Works(x)
    BY <1>2 DEF Flags, BegunIsAlone
  <2>2. \A x \in calls' : Works(x) => x \in calls
    BY <1>1 DEF Works
  <2> QED BY <2>1, <2>2 DEF BegunIsAlone, Begun, Works, AtWork
<1>5. Publication'
  <2>1. \A x \in calls' : x.pc \in {"publish", "finish"} => x \in calls
    BY <1>1 DEF AtWork
  <2> QED BY <2>1 DEF Flags, Publication
<1> QED BY <1>3, <1>4, <1>5

LEMMA QuietKeeps ==
  ASSUME AuthInv, Order', NEW c \in calls, NEW D, NEW r, NEW f, f \in Nat, f <= flags,
         Stepped(c, D, r, f), CallFits(c, D, r, f), StoreFits(c, D, r),
         \A d \in D : /\ d \in Calls /\ ~AtWork(d) /\ d.pc # "start"
                      /\ d.flag <= flags /\ d.token <= grants,
         UNCHANGED <<svc, owner, canceled, store, flags, grants, expired>>,
         failures' \in Nat, failures <= failures', failures' <= MaxFailures
  PROVE  AuthInv'
<1>0. Types /\ Order /\ Flags
  BY DEF AuthInv
<1>1. StateTypes' /\ ServiceTypes' /\ OwnerTypes'
  BY <1>0, BoundsAssumption DEF Types, StateTypes, ServiceTypes, OwnerTypes
<1>2. flags <= flags' /\ grants <= grants'
  BY <1>0 DEF Types, StateTypes
<1>3. \A d \in D : d \in Calls /\ d.gen = c.gen /\ d.flag <= flags' /\ d.token <= grants'
  BY DEF CallFits
<1>4. Types'
  BY <1>0, <1>1, <1>2, <1>3, CallKeepsTypes
<1>5. OneWorker' /\ BegunIsAlone' /\ Publication'
  BY <1>0, QuietKeepsOwner DEF CallFits
<1>6. OwnerFits
  BY <1>0 DEF OwnerFits, Flags, Held
<1>7. /\ UnbegunIsFresh' /\ ReadFlags' /\ StaleRenewals' /\ Held' /\ RestoreAlone'
      /\ LogoutForgets' /\ SignedOutIsForgotten'
  BY <1>0, <1>6, CallKeepsRest
<1> QED BY <1>4, <1>5, <1>7 DEF AuthInv, Flags

(* ... by returning.                                                       *)
LEMMA QuietReturnKeeps ==
  ASSUME AuthInv, NEW c \in calls, NEW r \in Result, NEW f \in Nat, ReturnFor(c, r, f),
         r \notin {"none", "begun", "code", "empty"},
         f = c.flag \/ (c.kind \in {"metadata", "refresh"} /\ f = owner.generation),
         r = "ok" => \/ c.kind \in {"metadata", "refresh"} /\ f # None
                     \/ c.kind = "logout" /\ (~Stale(c) => store = None)
                     \/ c.kind \in {"cancel", "suspend"},
         UNCHANGED <<svc, owner, canceled, store, flags, grants, expired>>,
         failures' \in Nat, failures <= failures', failures' <= MaxFailures
  PROVE  AuthInv'
<1>0. Types /\ Order
  BY DEF AuthInv
<1>1. Returned(c, r, f)
  BY <1>0, ReturnForm
<1>2. Stepped(c, {}, r, f)
  BY <1>1, ReturnedIsStepped
<1>3. Order'
  BY <1>0, <1>1, ReturnedKeepsOrder DEF SameGeneration
<1>4. CallFits(c, {}, r, f)
  BY DEF CallFits
<1>5. StoreFits(c, {}, r)
  BY DEF StoreFits
<1>6. f <= flags
  BY <1>0 DEF Types, OwnerTypes, ElementTypes
<1> QED BY <1>2, <1>3, <1>4, <1>5, <1>6, QuietKeeps

(* ... and by going on.                                                    *)
LEMMA QuietMoveKeeps ==
  ASSUME AuthInv, NEW c \in calls, NEW d \in Calls, Goes(c, d),
         d.kind = c.kind, d.gen = c.gen, d.pc # "start", ~AtWork(d), ~Claims(d), ~Settled(d),
         d.pc # "revoke", d.res = c.res, c.kind \notin {"begin", "logout"},
         d.flag = c.flag \/ (c.kind = "restore" /\ d.flag = owner.generation),
         c.kind = "restore" => d.flag = owner.generation,
         d.token <= grants,
         UNCHANGED <<svc, owner, canceled, store, flags, grants, expired, failures>>
  PROVE  AuthInv'
<1>0. Types /\ Order /\ Flags
  BY DEF AuthInv
<1>1. Moved(c, d)
  BY DEF Moved, Goes
<1>2. Stepped(c, {d}, "canceled", c.flag)
  BY <1>1 DEF Stepped, Moved
<1>3. Order'
  <2>1. Answered(d)
    BY DEF Answered, AtWork
  <2> QED BY <1>0, <1>1, <2>1, MovedKeepsOrder DEF SameGeneration
<1>4. CallFits(c, {d}, "canceled", c.flag)
  BY DEF CallFits
<1>5. StoreFits(c, {d}, "canceled")
  BY <1>0 DEF StoreFits, Flags, RestoreAlone
<1>6. c.flag \in Nat /\ c.flag <= flags /\ d.flag <= flags
  BY <1>0 DEF Types, OwnerTypes, ElementTypes, Calls
<1>7. failures' \in Nat /\ failures <= failures' /\ failures' <= MaxFailures
  BY <1>0 DEF Types, StateTypes
<1> QED BY <1>2, <1>3, <1>4, <1>5, <1>6, <1>7, QuietKeeps

LEMMA RevokeKeeps ==
  ASSUME AuthInv, NEW c \in calls, Revoke(c)
  PROVE  AuthInv'
<1>1. /\ c.kind = "logout" /\ c.pc = "revoke" /\ ReturnFor(c, c.res, c.flag)
      /\ UNCHANGED <<svc, owner, canceled, store, flags, grants, expired, failures>>
  BY DEF Revoke, At, Return
<1>2. c.res \in {"ok", "credential_store"} /\ c.res \in Result /\ c.flag \in Nat
  BY <1>1 DEF AuthInv, Order, OneCall, Answered, Types, ElementTypes, Calls
<1>3. ~Stale(c) /\ c.res = "ok" => store = None
  BY <1>1 DEF AuthInv, Flags, LogoutForgets
<1>4. failures' \in Nat /\ failures <= failures' /\ failures' <= MaxFailures
  BY <1>1 DEF AuthInv, Types, StateTypes
<1> QED BY <1>1, <1>2, <1>3, <1>4, QuietReturnKeeps

LEMMA RestoreFlagKeeps ==
  ASSUME AuthInv, NEW c \in calls, RestoreFlag(c)
  PROVE  AuthInv'
<1> DEFINE d == [c EXCEPT !.pc = "reserve", !.flag = owner.generation]
<1>1. /\ c.kind = "restore" /\ Goes(c, d)
      /\ UNCHANGED <<svc, owner, canceled, store, flags, grants, expired, failures>>
  BY DEF RestoreFlag, At
<1>2. c \in Calls /\ owner.generation \in Nat /\ c.token <= grants
  BY DEF AuthInv, Types, ElementTypes, OwnerTypes
<1>3. /\ d \in Calls /\ d.kind = c.kind /\ d.gen = c.gen /\ d.pc = "reserve"
      /\ d.flag = owner.generation /\ d.res = c.res /\ d.token = c.token
  BY <1>2 DEF Calls
<1> HIDE DEF d
<1>4. ~AtWork(d) /\ ~Claims(d) /\ ~Settled(d)
  BY <1>1, <1>3 DEF AtWork, Claims, Attempt, Settled
<1> QED BY <1>1, <1>2, <1>3, <1>4, QuietMoveKeeps

LEMMA MetadataSessionKeeps ==
  ASSUME AuthInv, NEW c \in calls, MetadataSession(c)
  PROVE  AuthInv'
<1>1. /\ c.kind \in {"metadata", "refresh"}
      /\ UNCHANGED <<svc, owner, canceled, store, flags, grants, expired, failures>>
  BY DEF MetadataSession, At
<1>2. /\ c \in Calls /\ c.flag \in Nat /\ "denied" \in Result
      /\ owner.session.token \in Nat /\ owner.session.token <= grants
      /\ failures' \in Nat /\ failures <= failures' /\ failures' <= MaxFailures
  BY <1>1 DEF AuthInv, Types, ElementTypes, OwnerTypes, StateTypes, Calls, Result, Ended
<1>3. CASE Return(c, "denied")
  BY <1>1, <1>2, <1>3, QuietReturnKeeps DEF Return
<1>4. CASE /\ ActiveSession # NoSession
           /\ Goes(c, [c EXCEPT !.pc = "flag", !.token = ActiveSession.token])
  <2> DEFINE d == [c EXCEPT !.pc = "flag", !.token = owner.session.token]
  <2>1. Goes(c, d)
    BY <1>4 DEF ActiveSession
  <2>2. /\ d \in Calls /\ d.kind = c.kind /\ d.gen = c.gen /\ d.pc = "flag"
        /\ d.flag = c.flag /\ d.res = c.res /\ d.token = owner.session.token
    BY <1>2 DEF Calls
  <2> HIDE DEF d
  <2>3. ~AtWork(d) /\ ~Claims(d) /\ ~Settled(d)
    BY <1>1, <2>2 DEF AtWork, Claims, Attempt, Settled
  <2> QED BY <1>1, <1>2, <2>1, <2>2, <2>3, QuietMoveKeeps
<1> QED BY <1>3, <1>4 DEF MetadataSession

LEMMA MetadataFlagKeeps ==
  ASSUME AuthInv, NEW c \in calls, MetadataFlag(c)
  PROVE  AuthInv'
<1>1. /\ c.kind \in {"metadata", "refresh"} /\ ReturnFor(c, "ok", owner.generation)
      /\ UNCHANGED <<svc, owner, canceled, store, flags, grants, expired, failures>>
  BY DEF MetadataFlag, At
<1>2. /\ owner.generation \in Nat /\ owner.generation # None /\ "ok" \in Result
      /\ failures' \in Nat /\ failures <= failures' /\ failures' <= MaxFailures
  BY <1>1 DEF AuthInv, Types, OwnerTypes, StateTypes, Result
<1> QED BY <1>1, <1>2, QuietReturnKeeps

(* The step of a call c that the owner works for, or begins to work for:   *)
(* nobody else is at work, and c goes on as one of D, for which the owner  *)
(* then has what its place requires.                                       *)
Acts(c, D) ==
  /\ c.flag = owner.generation /\ owner'.generation = owner.generation
  /\ \A x \in calls : Works(x) \/ x.pc = "publish" => x = c
  /\ \A y \in jobs \union calls : y # c => ~(Begun(y) /\ y.flag = owner.generation)
  /\ \A d, e \in D : d = e
  /\ \A d \in D :
       /\ d \in Calls /\ d.flag = c.flag /\ d.pc # "start"
       /\ AtWork(d) => /\ d.kind \in {"restore", "complete", "refresh"}
                       /\ owner'.initialized
                       /\ owner'.busy <=> d.pc \in {"exchange", "finish"}
                       /\ d.kind # "refresh" => owner'.session = NoSession
       /\ d.pc = "again" => d.kind = "restore"
       /\ d.pc = "publish" => store' = d.token
       /\ d.pc = "finish" /\ d.res = "ok" => d.token >= owner'.session.token
  /\ ~owner'.initialized => owner'.session = NoSession /\ ~owner'.busy
  /\ owner'.session # NoSession =>
        owner'.session.flag = owner.generation /\ store' >= owner'.session.token

LEMMA ActsKeepsOwner ==
  ASSUME Types, Order, Flags, NEW c \in calls, NEW D, NEW r, NEW f, Stepped(c, D, r, f),
         r \notin {"begun", "code"}, Acts(c, D)
  PROVE  OneWorker' /\ BegunIsAlone' /\ Publication'
<1>1. \A x \in calls' : (x \in calls /\ x # c /\ ~Works(x) /\ x.pc # "publish") \/ x \in D
  BY DEF Stepped, Acts
<1>2. \A y \in jobs' \union calls' : ~(Begun(y) /\ y.flag = owner.generation)
  <2>1. \A d \in D : ~Begun(d)
    BY DEF Begun, Calls, Acts
  <2>2. ASSUME NEW k, NEW j \in jobs, Receives(k, j, r, f, c.token)  PROVE ~Begun(k)
    BY <2>2 DEF Begun, Receives, Jobs
  <2>3. \A j \in jobs : j = c => ~(Begun(j) /\ j.flag = owner.generation)
    <3>1. ASSUME NEW j \in jobs, j = c, Begun(j)  PROVE FALSE
      <4>1. c \in Calls /\ c \in Jobs
        BY <3>1 DEF Types, ElementTypes
      <4> QED BY <4>1, <3>1 DEF Begun, Calls, Jobs
    <3> QED BY <3>1
  <2> QED BY <2>1, <2>2, <2>3 DEF Stepped, Acts
<1>3. OneWorker'
  BY <1>1 DEF Flags, OneWorker, Works, AtWork, Acts
<1>4. BegunIsAlone'
  BY <1>2 DEF BegunIsAlone, Begun, Acts
<1>5. Publication'
  BY <1>1 DEF Flags, Publication, Acts, Works, AtWork
<1> QED BY <1>3, <1>4, <1>5

(* What the step leaves of the counters.                                   *)
ActsOn ==
  /\ svc' = svc /\ canceled' = canceled /\ flags' = flags /\ expired' = expired
  /\ grants' \in Nat /\ grants <= grants'
  /\ failures' \in Nat /\ failures <= failures' /\ failures' <= MaxFailures
  /\ store' \in Nat /\ store' <= grants'
  /\ owner' \in [generation : Nat, initialized : BOOLEAN, busy : BOOLEAN,
                 session : [token : Nat, flag : Nat]]
  /\ owner'.session.token <= grants' /\ owner'.session.flag <= flags
  /\ owner'.session # NoSession =>
        owner.generation \in canceled \/ Holds(owner.generation)

LEMMA ActKeeps ==
  ASSUME AuthInv, Order', NEW c \in calls, NEW D, NEW r, Stepped(c, D, r, c.flag),
         Acts(c, D), ActsOn, CallFits(c, D, r, c.flag), StoreFits(c, D, r),
         \A d \in D : d.token <= grants'
  PROVE  AuthInv'
<1>0. Types /\ Order /\ Flags
  BY DEF AuthInv
<1>1. StateTypes' /\ ServiceTypes' /\ OwnerTypes'
  <2>0. /\ grants \in Nat /\ svc.until \in Nat /\ svc.generation \in Nat /\ failures \in Nat
        /\ svc.until <= grants /\ svc.generation <= MaxRequests + failures
        /\ \A t \in expired : t \in Nat /\ t <= grants
    BY <1>0 DEF Types, StateTypes, ServiceTypes
  <2>1. StateTypes'
    BY <1>0, <2>0 DEF Types, StateTypes, ActsOn
  <2>2. svc.until <= grants' /\ svc.generation <= MaxRequests + failures'
    BY <2>0, BoundsAssumption DEF ActsOn
  <2>3. ServiceTypes'
    BY <1>0, <2>2 DEF Types, ServiceTypes, ActsOn
  <2>4. OwnerTypes'
    BY <1>0 DEF Types, OwnerTypes, ActsOn, Acts
  <2> QED BY <2>1, <2>3, <2>4
<1>2. /\ c.flag \in Nat /\ c.flag <= flags' /\ flags <= flags' /\ grants <= grants'
      /\ svc'.generation = svc.generation
  BY <1>0 DEF Types, StateTypes, ElementTypes, Calls, ActsOn
<1>3. \A d \in D : d \in Calls /\ d.gen = c.gen /\ d.flag <= flags' /\ d.token <= grants'
  BY <1>2 DEF CallFits, Acts
<1>4. Types'
  BY <1>0, <1>1, <1>2, <1>3, CallKeepsTypes
<1>5. OneWorker' /\ BegunIsAlone' /\ Publication'
  BY <1>0, ActsKeepsOwner DEF CallFits
<1>6. OwnerFits
  BY DEF OwnerFits, ActsOn, Acts
<1>7. /\ UnbegunIsFresh' /\ ReadFlags' /\ StaleRenewals' /\ Held' /\ RestoreAlone'
      /\ LogoutForgets' /\ SignedOutIsForgotten'
  BY <1>0, <1>6, CallKeepsRest DEF ActsOn
<1> QED BY <1>4, <1>5, <1>7 DEF AuthInv, Flags

LEMMA ActGoKeeps ==
  ASSUME AuthInv, NEW c \in calls, NEW d \in Calls, Goes(c, d),
         d.kind = c.kind, d.gen = c.gen, Answered(d), d.token <= grants',
         c.kind \notin {"begin", "logout"}, Claims(d) => Claims(c),
         Settled(d) => Settled(c) \/ owner.session # NoSession,
         Acts(c, {d}), ActsOn, store' \in {store, None} \/ \E h : Holds(h),
         d.res = "empty" /\ c.kind = "restore" => owner'.session = NoSession /\ store' = None
  PROVE  AuthInv'
<1>0. Types /\ Order /\ Flags
  BY DEF AuthInv
<1>1. Moved(c, d)
  BY DEF Moved, Goes
<1>2. Stepped(c, {d}, "canceled", c.flag)
  BY <1>1 DEF Stepped, Moved
<1>3. Order'
  BY <1>0, <1>1, MovedKeepsOrder DEF SameGeneration, ActsOn, Acts
<1>4. CallFits(c, {d}, "canceled", c.flag)
  BY DEF CallFits, Acts
<1>5. StoreFits(c, {d}, "canceled")
  BY DEF StoreFits, Acts
<1> QED BY <1>2, <1>3, <1>4, <1>5, ActKeeps

LEMMA ActReturnKeeps ==
  ASSUME AuthInv, NEW c \in calls, NEW r \in Result, Return(c, r),
         r \notin {"none", "begun", "code"}, c.kind # "logout",
         r = "ok" /\ c.kind \in {"metadata", "refresh"} => c.flag # None,
         r = "ok" /\ c.kind \in {"restore", "begin", "complete"} /\ ~Stale(c) =>
            \A x \in jobs \union calls :
               Renewal(x) /\ Stale(x) => x.flag \in canceled \union {None},
         Acts(c, {}), ActsOn, store' \in {store, None} \/ \E h : Holds(h),
         r = "empty" /\ c.kind = "restore" /\ ~Stale(c) =>
            owner'.session = NoSession /\ store' = None
  PROVE  AuthInv'
<1>0. Types /\ Order /\ Flags /\ c.flag \in Nat
  BY DEF AuthInv, Types, ElementTypes, Calls
<1>1. Returned(c, r, c.flag)
  BY <1>0, ReturnForm DEF Return
<1>2. Stepped(c, {}, r, c.flag)
  BY <1>1, ReturnedIsStepped
<1>3. Order'
  BY <1>0, <1>1, ReturnedKeepsOrder DEF SameGeneration, ActsOn
<1>4. CallFits(c, {}, r, c.flag)
  BY DEF CallFits
<1>5. StoreFits(c, {}, r)
  BY DEF StoreFits
<1> QED BY <1>2, <1>3, <1>4, <1>5, ActKeeps

LEMMA ResultTypes ==
  /\ {"ok", "canceled", "denied", "unavailable", "busy", "credential_store", "empty"} \subseteq Result
  /\ {"none", "begun", "code"} \subseteq Result
BY DEF Result, Ended

(* What the invariant says of the call the owner works for.                *)
LEMMA WorkerIsAlone ==
  ASSUME Flags, NEW c \in calls, Works(c)
  PROVE  /\ \A x \in calls : Works(x) => x = c
         /\ \A y \in jobs \union calls : ~(Begun(y) /\ y.flag = owner.generation)
         /\ c.kind \in {"restore", "complete", "refresh"} /\ c.flag = owner.generation
         /\ owner.initialized
         /\ owner.busy <=> c.pc \in {"exchange", "finish"}
         /\ c.kind # "refresh" => owner.session = NoSession
BY DEF Flags, OneWorker, BegunIsAlone, Works

(* Steps that only touch the owner's own fields.                           *)
LEMMA OwnerActs ==
  ASSUME Types, Flags, UNCHANGED <<svc, canceled, store, flags, grants, expired, failures>>,
         NEW i \in BOOLEAN, NEW b \in BOOLEAN,
         owner' = [owner EXCEPT !.initialized = i, !.busy = b]
  PROVE  /\ ActsOn
         /\ owner'.generation = owner.generation /\ owner'.session = owner.session
         /\ owner'.initialized = i /\ owner'.busy = b
         /\ owner.session # NoSession =>
               owner.session.flag = owner.generation /\ store >= owner.session.token
<1>1. /\ owner' \in [generation : Nat, initialized : BOOLEAN, busy : BOOLEAN,
                     session : [token : Nat, flag : Nat]]
      /\ owner'.generation = owner.generation /\ owner'.session = owner.session
      /\ owner'.initialized = i /\ owner'.busy = b
  BY DEF Types, OwnerTypes
<1>2. ActsOn
  BY <1>1 DEF ActsOn, Types, StateTypes, OwnerTypes, Flags, Held
<1> QED BY <1>1, <1>2 DEF Flags, Publication

LEMMA CompleteCheckKeeps ==
  ASSUME AuthInv, NEW c \in calls, CompleteCheck(c)
  PROVE  AuthInv'
<1>0. Types /\ Order /\ Flags /\ c \in Calls /\ c.token <= grants
  BY DEF AuthInv, Types, ElementTypes
<1>1. /\ c.kind = "complete" /\ c.pc = "start" /\ LockFree
      /\ UNCHANGED <<svc, owner, canceled, store, flags, grants, expired, failures>>
  BY DEF CompleteCheck, At
<1>2. CASE Return(c, "canceled")
  <2>1. /\ c.flag \in Nat /\ failures' \in Nat /\ failures <= failures'
        /\ failures' <= MaxFailures
    BY <1>0, <1>1 DEF Types, StateTypes, Calls
  <2> QED BY <1>1, <1>2, <2>1, ResultTypes, QuietReturnKeeps DEF Return
<1>3. CASE /\ owner.busy /\ c.flag = owner.generation
           /\ Goes(c, [c EXCEPT !.pc = "exchange"])
  <2> DEFINE d == [c EXCEPT !.pc = "exchange"]
  <2>1. /\ d \in Calls /\ d.kind = c.kind /\ d.gen = c.gen /\ d.pc = "exchange"
        /\ d.flag = c.flag /\ d.res = c.res /\ d.token = c.token /\ Goes(c, d)
    BY <1>0, <1>3 DEF Calls
  <2> HIDE DEF d
  <2>2. Begun(c) /\ owner.session = NoSession /\ owner.initialized /\ \A x \in calls : ~Works(x)
    BY <1>0, <1>1, <1>3 DEF Flags, BegunIsAlone, Begun
  <2>3. ASSUME NEW y \in jobs \union calls, Begun(y), y.flag = c.flag  PROVE y = c
    <3>1. Attempt(y) /\ Attempt(c)
      BY <1>1, <2>3 DEF Begun, Attempt
    <3>2. y.gen = c.gen
      BY <1>0, <2>3, <3>1 DEF Order, OneAttempt
    <3>3. CASE y \in calls
      <4>1. Awaited(y) /\ Awaited(c)
        BY <1>0, <1>1, <2>3, <3>3 DEF Types, ElementTypes, Calls, Begun, Awaited
      <4> QED BY <1>0, <3>2, <3>3, <4>1 DEF Order, OneCall
    <3>4. CASE y \in jobs
      <4>1. y.pc = "complete" /\ y.kind # "complete"
        BY <1>0, <1>1, <3>2, <3>4 DEF Order, OneCall, Awaited, Types, ElementTypes, Jobs
      <4>2. y.res = "none"
        BY <1>0, <3>4, <4>1 DEF Order, JobsInOrder, Fits
      <4> QED BY <2>3, <4>1, <4>2 DEF Begun
    <3> QED BY <3>3, <3>4
  <2>4. Acts(c, {d})
    BY <1>1, <1>3, <2>1, <2>2, <2>3 DEF Acts, AtWork, LockFree
  <2>5. ActsOn
    BY <1>0, <1>1 DEF ActsOn, Types, StateTypes, OwnerTypes, Flags, Held
  <2>6. Answered(d) /\ Claims(c) /\ ~Settled(d) /\ d.token <= grants'
    BY <1>0, <1>1, <2>1 DEF Answered, Claims, Attempt, Settled
  <2> QED BY <1>1, <2>1, <2>4, <2>5, <2>6, ActGoKeeps
<1> QED BY <1>2, <1>3 DEF CompleteCheck

LEMMA RefreshCheckKeeps ==
  ASSUME AuthInv, NEW c \in calls, RefreshCheck(c)
  PROVE  AuthInv'
<1>0. Types /\ Order /\ Flags /\ c \in Calls /\ c.token <= grants
  BY DEF AuthInv, Types, ElementTypes
<1>1. /\ c.kind = "refresh" /\ c.pc = "start" /\ LockFree
      /\ UNCHANGED <<svc, canceled, store, flags, grants, expired, failures>>
  BY DEF RefreshCheck, At
<1>2. ASSUME NEW r \in {"canceled", "busy", "denied"}, Return(c, r), owner' = owner
      PROVE  AuthInv'
  <2>1. /\ c.flag \in Nat /\ failures' \in Nat /\ failures <= failures'
        /\ failures' <= MaxFailures /\ r \in Result
    BY <1>0, <1>1, ResultTypes DEF Types, StateTypes, Calls
  <2> QED BY <1>1, <1>2, <2>1, QuietReturnKeeps DEF Return
<1>3. CASE /\ ~owner.busy /\ c.flag = owner.generation /\ owner.session # NoSession
           /\ owner' = [owner EXCEPT !.busy = TRUE]
           /\ Goes(c, [c EXCEPT !.pc = "exchange"])
  <2> DEFINE d == [c EXCEPT !.pc = "exchange"]
  <2>1. /\ d \in Calls /\ d.kind = c.kind /\ d.gen = c.gen /\ d.pc = "exchange"
        /\ d.flag = c.flag /\ d.res = c.res /\ d.token = c.token /\ Goes(c, d)
    BY <1>0, <1>3 DEF Calls
  <2> HIDE DEF d
  <2>2. owner.initialized /\ owner.initialized \in BOOLEAN
    BY <1>0, <1>3 DEF Flags, OneWorker, Types, OwnerTypes
  <2>3. owner' = [owner EXCEPT !.initialized = TRUE, !.busy = TRUE]
    BY <1>0, <1>3, <2>2 DEF Types, OwnerTypes
  <2>4. /\ ActsOn /\ owner'.generation = owner.generation /\ owner'.session = owner.session
        /\ owner'.initialized /\ owner'.busy
        /\ owner.session.flag = owner.generation /\ store >= owner.session.token
    BY <1>0, <1>1, <1>3, <2>3, OwnerActs
  <2>5. \A x \in calls : ~Works(x)
    <3>1. ASSUME NEW x \in calls, Works(x)  PROVE FALSE
      <4>1. x.pc = "again"
        BY <1>0, <1>1, <1>3, <3>1 DEF Flags, OneWorker, Works, AtWork, LockFree
      <4> QED BY <1>0, <1>3, <3>1, <4>1 DEF Flags, OneWorker
    <3> QED BY <3>1
  <2>6. \A y \in jobs \union calls : ~(Begun(y) /\ y.flag = owner.generation)
    BY <1>0, <1>3 DEF Flags, BegunIsAlone
  <2>7. Acts(c, {d})
    BY <1>1, <1>3, <2>1, <2>4, <2>5, <2>6 DEF Acts, AtWork, LockFree
  <2>8. Answered(d) /\ ~Claims(d) /\ d.token <= grants'
    BY <1>0, <1>1, <2>1 DEF Answered, Claims, Attempt
  <2> QED BY <1>1, <1>3, <2>1, <2>4, <2>7, <2>8, ActGoKeeps
<1> QED BY <1>2, <1>3 DEF RefreshCheck

LEMMA RestoreLoadKeeps ==
  ASSUME AuthInv, NEW c \in calls, NEW ok \in BOOLEAN, RestoreLoad(c, ok)
  PROVE  AuthInv'
<1>0. /\ Types /\ Order /\ Flags /\ c \in Calls /\ c.token <= grants /\ c.flag \in Nat
      /\ failures \in Nat /\ failures <= MaxFailures
  BY DEF AuthInv, Types, ElementTypes, StateTypes, Calls
<1>1. /\ c.kind = "restore" /\ c.pc = "load" /\ LockFree
      /\ UNCHANGED <<svc, canceled, store, flags, grants, expired>>
  BY DEF RestoreLoad, At
<1>2. ASSUME NEW r \in {"canceled", "credential_store"}, Return(c, r), owner' = owner,
             failures' = failures \/ StoreFault
      PROVE  AuthInv'
  <2>1. failures' \in Nat /\ failures <= failures' /\ failures' <= MaxFailures /\ r \in Result
    BY <1>0, <1>2, BoundsAssumption, ResultTypes DEF StoreFault
  <2> QED BY <1>0, <1>1, <1>2, <2>1, QuietReturnKeeps DEF Return
<1>3. ASSUME ~owner.initialized, c.flag = owner.generation, failures' = failures,
             owner' = [owner EXCEPT !.initialized = TRUE, !.busy = TRUE],
             NEW p, NEW r, Goes(c, [c EXCEPT !.pc = p, !.res = r]),
             \/ p = "finish" /\ r = "empty" /\ store = None
             \/ p = "exchange" /\ r = "none"
      PROVE  AuthInv'
  <2> DEFINE d == [c EXCEPT !.pc = p, !.res = r]
  <2>1. /\ d \in Calls /\ d.kind = c.kind /\ d.gen = c.gen /\ d.pc = p
        /\ d.flag = c.flag /\ d.res = r /\ d.token = c.token /\ Goes(c, d)
    BY <1>0, <1>3, ResultTypes DEF Calls
  <2> HIDE DEF d
  <2>2. owner.session = NoSession /\ \A x \in calls : ~Works(x)
    BY <1>0, <1>3 DEF Flags, OneWorker
  <2>3. \A y \in jobs \union calls : ~(Begun(y) /\ y.flag = owner.generation)
    BY <1>0, <1>3 DEF Flags, BegunIsAlone
  <2>4. /\ ActsOn /\ owner'.generation = owner.generation /\ owner'.session = owner.session
        /\ owner'.initialized /\ owner'.busy
    BY <1>0, <1>1, <1>3, OwnerActs
  <2>5. Acts(c, {d})
    BY <1>1, <1>3, <2>1, <2>2, <2>3, <2>4 DEF Acts, AtWork, LockFree
  <2>6. Answered(d) /\ Claims(c) /\ ~Settled(d) /\ d.token <= grants'
    BY <1>0, <1>1, <1>3, <2>1 DEF Answered, Claims, Settled
  <2>7. d.res = "empty" => owner'.session = NoSession /\ store' = None
    BY <1>1, <1>3, <2>1, <2>2, <2>4
  <2> QED BY <1>1, <2>1, <2>4, <2>5, <2>6, <2>7, ActGoKeeps
<1> QED BY <1>2, <1>3 DEF RestoreLoad

LEMMA RestoreAgainKeeps ==
  ASSUME AuthInv, NEW c \in calls, RestoreAgain(c)
  PROVE  AuthInv'
<1>0. /\ Types /\ Order /\ Flags /\ c.flag \in Nat
      /\ failures \in Nat /\ failures <= MaxFailures
  BY DEF AuthInv, Types, ElementTypes, StateTypes, Calls
<1>1. /\ c.kind = "restore" /\ c.pc = "again" /\ LockFree /\ Return(c, "unavailable")
      /\ UNCHANGED <<svc, canceled, store, flags, grants, expired, failures>>
  BY DEF RestoreAgain, At
<1>2. CASE c.flag # owner.generation
  <2>1. owner' = owner
    BY <1>2 DEF RestoreAgain
  <2> QED BY <1>0, <1>1, <2>1, ResultTypes, QuietReturnKeeps DEF Return
<1>3. CASE c.flag = owner.generation
  <2>1. Works(c)
    BY <1>1, <1>3 DEF Works, AtWork
  <2>2. /\ \A x \in calls : Works(x) => x = c
        /\ \A y \in jobs \union calls : ~(Begun(y) /\ y.flag = owner.generation)
        /\ ~owner.busy /\ owner.session = NoSession
    BY <1>0, <1>1, <2>1, WorkerIsAlone
  <2>3. owner' = [owner EXCEPT !.initialized = FALSE, !.busy = FALSE]
    BY <1>0, <1>3, <2>2 DEF RestoreAgain, Types, OwnerTypes
  <2>4. /\ ActsOn /\ owner'.generation = owner.generation /\ owner'.session = owner.session
        /\ ~owner'.initialized /\ ~owner'.busy
    BY <1>0, <1>1, <2>3, OwnerActs
  <2>5. Acts(c, {})
    BY <1>1, <1>3, <2>2, <2>4 DEF Acts, LockFree
  <2> QED BY <1>1, <2>4, <2>5, ResultTypes, ActReturnKeeps
<1> QED BY <1>2, <1>3

LEMMA ExchangeKeeps ==
  ASSUME AuthInv, NEW c \in calls, NEW result \in {"ok", "denied", "unavailable"},
         Exchange(c, result)
  PROVE  AuthInv'
<1>0. /\ Types /\ Order /\ Flags /\ c \in Calls /\ c.flag \in Nat /\ c.flag <= flags
      /\ grants \in Nat /\ failures \in Nat /\ failures <= MaxFailures
  BY DEF AuthInv, Types, ElementTypes, StateTypes, Calls
<1>1. /\ c.kind \in {"restore", "complete", "refresh"} /\ c.pc = "exchange"
      /\ UNCHANGED <<svc, owner, canceled, store, flags, expired, failures>>
      /\ grants' \in Nat /\ grants <= grants'
  BY <1>0 DEF Exchange, At
<1>2. PICK t \in Nat : /\ t <= grants' /\ (result = "ok" => t = grants + 1)
                       /\ Goes(c, [c EXCEPT !.pc = "finish", !.res = result, !.token = t])
  <2> DEFINE t == IF result = "ok" THEN grants + 1 ELSE None
  <2>0. t \in Nat /\ t <= grants' /\ (result = "ok" => t = grants + 1)
    BY <1>0, <1>1 DEF Exchange, None
  <2>1. Goes(c, [c EXCEPT !.pc = "finish", !.res = result, !.token = t])
    BY DEF Exchange
  <2> HIDE DEF t
  <2> QED BY <2>0, <2>1
<1> DEFINE d == [c EXCEPT !.pc = "finish", !.res = result, !.token = t]
<1>3. /\ d \in Calls /\ d.kind = c.kind /\ d.gen = c.gen /\ d.pc = "finish"
      /\ d.flag = c.flag /\ d.res = result /\ d.token = t /\ Goes(c, d)
  BY <1>0, <1>2, ResultTypes DEF Calls
<1> HIDE DEF d
<1>4. ActsOn
  <2>1. owner.session.token \in Nat /\ owner.session.token <= grants /\ store \in Nat /\ store <= grants
    BY <1>0 DEF Types, StateTypes, OwnerTypes
  <2> QED BY <1>0, <1>1, <2>1 DEF ActsOn, Types, OwnerTypes, Flags, Held
<1>5. /\ Answered(d) /\ (Claims(d) => Claims(c)) /\ (Settled(d) => Settled(c))
      /\ d.token <= grants'
  BY <1>1, <1>2, <1>3 DEF Answered, Claims, Attempt, Settled
<1>6. CASE c.flag = owner.generation
  <2>1. Works(c)
    BY <1>1, <1>6 DEF Works, AtWork
  <2>2. /\ \A x \in calls : Works(x) => x = c
        /\ \A y \in jobs \union calls : ~(Begun(y) /\ y.flag = owner.generation)
        /\ owner.busy /\ owner.initialized
        /\ c.kind # "refresh" => owner.session = NoSession
    BY <1>0, <1>1, <2>1, WorkerIsAlone
  <2>3. \A x \in calls : x.pc = "publish" => x = c
    BY <1>0, <2>2 DEF Flags, Publication, Works, AtWork
  <2>4. d.res = "ok" => d.token >= owner.session.token
    BY <1>0, <1>2, <1>3 DEF Types, OwnerTypes
  <2>5. Acts(c, {d})
    BY <1>0, <1>1, <1>3, <1>6, <2>2, <2>3, <2>4 DEF Acts, AtWork, Flags, Publication
  <2> QED BY <1>1, <1>3, <1>4, <1>5, <2>5, ActGoKeeps
<1>7. CASE c.flag # owner.generation
  <2>1. Moved(c, d)
    BY <1>3 DEF Moved, Goes
  <2>2. Stepped(c, {d}, "canceled", c.flag)
    BY <2>1 DEF Stepped, Moved
  <2>3. Order'
    BY <1>0, <1>1, <1>3, <1>5, <2>1, MovedKeepsOrder DEF SameGeneration
  <2>4. CallFits(c, {d}, "canceled", c.flag)
    BY <1>1, <1>3, <1>5 DEF CallFits
  <2>5. StoreFits(c, {d}, "canceled")
    BY <1>0, <1>1, <1>3, <1>7 DEF StoreFits, Flags, RestoreAlone
  <2>6. OwnerFits
    BY <1>0, <1>1 DEF OwnerFits, Flags, Held
  <2>7. StateTypes' /\ ServiceTypes' /\ OwnerTypes'
    <3>0. /\ svc.until \in Nat /\ svc.until <= grants /\ store \in Nat /\ store <= grants
          /\ owner.session.token \in Nat /\ owner.session.token <= grants
          /\ \A u \in expired : u \in Nat /\ u <= grants
      BY <1>0 DEF Types, StateTypes, ServiceTypes, OwnerTypes
    <3> QED BY <1>0, <1>1, <3>0 DEF Types, StateTypes, ServiceTypes, OwnerTypes
  <2>8. Types'
    <3>1. /\ flags <= flags' /\ c.flag <= flags' /\ svc'.generation = svc.generation
      BY <1>0, <1>1 DEF Types, StateTypes
    <3> QED BY <1>0, <1>1, <1>3, <1>5, <2>2, <2>7, <3>1, CallKeepsTypes
  <2>9. /\ UnbegunIsFresh' /\ ReadFlags' /\ StaleRenewals' /\ Held' /\ RestoreAlone'
        /\ LogoutForgets' /\ SignedOutIsForgotten'
    BY <1>0, <1>1, <2>2, <2>4, <2>5, <2>6, CallKeepsRest
  <2>10. \A x \in calls' : x \in calls \/ x = d
    BY <1>3 DEF Goes
  <2>11. OneWorker'
    BY <1>0, <1>1, <1>3, <1>7, <2>10 DEF Flags, OneWorker, Works, AtWork
  <2>12. BegunIsAlone'
    <3>1. ~Begun(d)
      BY <1>1, <1>3 DEF Begun
    <3>2. \A y \in jobs' \union calls' : Begun(y) => y \in jobs \union calls
      BY <2>1, <2>10, <3>1 DEF Moved
    <3>3. \A y \in jobs' \union calls' : Begun(y) /\ y.flag = owner.generation =>
             /\ owner.session = NoSession /\ owner.initialized
             /\ \A x \in calls : ~Works(x)
      BY <1>0, <3>2 DEF Flags, BegunIsAlone
    <3>4. \A x \in calls' : Works(x) => x \in calls
      BY <1>3, <1>7, <2>10 DEF Works
    <3> QED BY <1>1, <3>3, <3>4 DEF BegunIsAlone, Begun, Works, AtWork
  <2>13. Publication'
    BY <1>0, <1>1, <1>3, <1>7, <2>10 DEF Flags, Publication
  <2> QED BY <2>3, <2>8, <2>9, <2>11, <2>12, <2>13 DEF AuthInv, Flags
<1> QED BY <1>6, <1>7

LEMMA ClearTypes ==
  ASSUME Types, NEW ok \in BOOLEAN, Clear(ok)
  PROVE  /\ store' \in {store, None} /\ store' \in Nat /\ store' <= grants
         /\ ok => store' = None
         /\ failures' \in Nat /\ failures <= failures' /\ failures' <= MaxFailures
BY BoundsAssumption DEF Clear, StoreFault, Types, StateTypes, None

LEMMA ClearedResults ==
  ASSUME NEW ok \in BOOLEAN, NEW r
  PROVE  /\ Cleared(ok, r) \in {r, "credential_store"}
         /\ ok => Cleared(ok, r) = r
         /\ ~ok => Cleared(ok, r) = "credential_store"
BY DEF Cleared

(* The owner is not busy any more, and the call that it worked for ends    *)
(* with r.                                                                 *)
LEMMA FinishedKeeps ==
  ASSUME AuthInv, NEW c \in calls, Works(c), \A x \in calls : x.pc = "publish" => x = c,
         NEW r \in {"ok", "canceled", "denied", "credential_store", "unavailable", "empty"},
         Finished(c, r), ActsOn,
         owner'.generation = owner.generation, owner'.initialized, ~owner'.busy,
         owner'.session # NoSession =>
            owner'.session.flag = owner.generation /\ store' >= owner'.session.token,
         store' \in {store, None} \/ \E h : Holds(h),
         r = "ok" /\ c.kind # "refresh" /\ ~Stale(c) =>
            \A x \in jobs \union calls :
               Renewal(x) /\ Stale(x) => x.flag \in canceled \union {None},
         r = "unavailable" => c.res = r /\ owner'.session = owner.session,
         r = "empty" /\ c.kind = "restore" /\ ~Stale(c) =>
            owner'.session = NoSession /\ store' = None
  PROVE  AuthInv'
<1>0. /\ Types /\ Order /\ Flags /\ c \in Calls /\ c.token \in Nat /\ c.token <= grants
      /\ grants \in Nat /\ grants' \in Nat /\ grants <= grants'
  BY DEF AuthInv, Types, ElementTypes, StateTypes, Calls, ActsOn
<1>1. /\ \A x \in calls : Works(x) => x = c
      /\ \A y \in jobs \union calls : ~(Begun(y) /\ y.flag = owner.generation)
      /\ c.kind \in {"restore", "complete", "refresh"} /\ c.flag = owner.generation
      /\ c.kind # "refresh" => owner.session = NoSession
  BY <1>0, WorkerIsAlone
<1>2. CASE c.kind = "refresh" /\ r = "ok"
  <2> DEFINE d == [c EXCEPT !.pc = "session"]
  <2>1. /\ d \in Calls /\ d.kind = c.kind /\ d.gen = c.gen /\ d.pc = "session"
        /\ d.flag = c.flag /\ d.res = c.res /\ d.token = c.token /\ Goes(c, d)
    BY <1>0, <1>2 DEF Calls, Finished
  <2> HIDE DEF d
  <2>2. Acts(c, {d})
    BY <1>1, <2>1 DEF Acts, AtWork
  <2>3. Answered(d) /\ ~Claims(d) /\ ~Settled(d) /\ d.token <= grants'
    BY <1>0, <1>2, <2>1 DEF Answered, Claims, Attempt, Settled
  <2> QED BY <1>2, <2>1, <2>2, <2>3, ActGoKeeps
<1>3. CASE c.kind = "restore" /\ r = "unavailable"
  <2> DEFINE d == [c EXCEPT !.pc = "again"]
  <2>1. /\ d \in Calls /\ d.kind = c.kind /\ d.gen = c.gen /\ d.pc = "again"
        /\ d.flag = c.flag /\ d.res = c.res /\ d.token = c.token /\ Goes(c, d)
    BY <1>0, <1>3 DEF Calls, Finished
  <2> HIDE DEF d
  <2>2. Acts(c, {d})
    BY <1>1, <1>3, <2>1 DEF Acts, AtWork
  <2>3. Answered(d) /\ ~Claims(d) /\ ~Settled(d) /\ d.token <= grants'
    BY <1>0, <1>3, <2>1 DEF Answered, Claims, Attempt, Settled
  <2> QED BY <1>3, <2>1, <2>2, <2>3, ActGoKeeps
<1>4. CASE Return(c, r) /\ ~(c.kind = "refresh" /\ r = "ok")
  <2>1. Acts(c, {})
    BY <1>1 DEF Acts
  <2> QED BY <1>1, <1>4, <2>1, ResultTypes, ActReturnKeeps
<1> QED BY <1>2, <1>3, <1>4 DEF Finished

(* The call the owner works for is for a login that the service holds.     *)
LEMMA WorkerIsHeld ==
  ASSUME Types, Flags, NEW c \in calls, c.kind \in {"restore", "complete", "refresh"},
         c.pc \in {"exchange", "finish", "publish"}, c.flag \notin canceled
  PROVE  Holds(c.flag) /\ (c.kind # "refresh" => c.gen = svc.generation)
BY DEF Flags, Held, Claims, Attempt

(* The owner's login is withdrawn and the store cleared.                   *)
LEMMA WithdrawnKeeps ==
  ASSUME AuthInv, NEW c \in calls, Works(c), \A x \in calls : x.pc = "publish" => x = c,
         owner' = [owner EXCEPT !.busy = FALSE, !.session = NoSession],
         NEW r \in {"canceled", "denied", "credential_store"}, Finished(c, r),
         UNCHANGED <<svc, canceled, flags, grants, expired>>,
         store' \in {store, None} \/ \E h : Holds(h), store' \in Nat, store' <= grants,
         failures' \in Nat, failures <= failures', failures' <= MaxFailures
  PROVE  AuthInv'
<1>0. Types /\ Flags /\ owner.initialized
  BY WorkerIsAlone DEF AuthInv
<1>1. NoSession \in [token : Nat, flag : Nat] /\ NoSession.token = 0 /\ NoSession.flag = 0
  BY DEF NoSession, None
<1> DEFINE s == NoSession
<1>2. s \in [token : Nat, flag : Nat] /\ owner' = [owner EXCEPT !.busy = FALSE, !.session = s]
  BY <1>1
<1> HIDE DEF s
<1>3. /\ owner' \in [generation : Nat, initialized : BOOLEAN, busy : BOOLEAN,
                     session : [token : Nat, flag : Nat]]
      /\ owner'.generation = owner.generation /\ owner'.session = s
      /\ owner'.initialized = owner.initialized /\ owner'.busy = FALSE
  BY <1>0, <1>2 DEF Types, OwnerTypes
<1>4. s = NoSession
  BY DEF s
<1>5. ActsOn
  BY <1>0, <1>1, <1>3, <1>4 DEF ActsOn, Types, StateTypes
<1> QED BY <1>0, <1>3, <1>4, <1>5, FinishedKeeps

LEMMA FinishKeeps ==
  ASSUME AuthInv, NEW c \in calls, NEW ok \in BOOLEAN, Finish(c, ok)
  PROVE  AuthInv'
<1>0. /\ Types /\ Order /\ Flags /\ c \in Calls /\ c.flag \in Nat
      /\ c.token \in Nat /\ c.token <= grants /\ store \in Nat /\ store <= grants
      /\ grants \in Nat /\ failures \in Nat /\ failures <= MaxFailures
  BY DEF AuthInv, Types, ElementTypes, StateTypes, Calls
<1>1. /\ c.kind \in {"restore", "complete", "refresh"} /\ c.pc = "finish" /\ LockFree
      /\ UNCHANGED <<svc, canceled, flags, grants, expired>>
  BY DEF Finish, At
<1>2. \A x \in calls : x.pc = "publish" => x = c
  BY <1>1 DEF LockFree
<1>3. CASE c.flag # owner.generation
  <2>1. Return(c, "canceled") /\ UNCHANGED <<owner, store, failures>>
    BY <1>3 DEF Finish, Finished
  <2> QED BY <1>0, <1>1, <2>1, ResultTypes, QuietReturnKeeps DEF Return
<1>4. CASE c.flag = owner.generation
  <2>1. Works(c)
    BY <1>1, <1>4 DEF Works, AtWork
  <2>2. /\ owner.initialized
        /\ c.kind # "refresh" => owner.session = NoSession
        /\ owner.session # NoSession =>
              owner.session.flag = owner.generation /\ store >= owner.session.token
        /\ c.res = "ok" => c.token >= owner.session.token
    BY <1>0, <1>1, <1>4, <2>1, WorkerIsAlone DEF Flags, Publication
  <2>3. CASE c.flag \in canceled \/ c.res = "denied"
    <3> DEFINE q == IF c.flag \in canceled THEN "canceled" ELSE "denied"
    <3>1. /\ owner' = [owner EXCEPT !.busy = FALSE, !.session = NoSession]
          /\ Clear(ok) /\ Finished(c, Cleared(ok, q))
      BY <1>4, <2>3 DEF Finish
    <3>2. Cleared(ok, q) \in {"canceled", "denied", "credential_store"}
      BY DEF Cleared
    <3> QED BY <1>0, <1>1, <1>2, <2>1, <3>1, <3>2, ClearTypes, WithdrawnKeeps
  <2> DEFINE b == FALSE
  <2>4. b \in BOOLEAN /\ b = FALSE
    OBVIOUS
  <2> HIDE DEF b
  <2>5. ASSUME owner' = [owner EXCEPT !.busy = FALSE]
        PROVE  /\ owner' \in [generation : Nat, initialized : BOOLEAN, busy : BOOLEAN,
                              session : [token : Nat, flag : Nat]]
               /\ owner'.generation = owner.generation /\ owner'.session = owner.session
               /\ owner'.initialized = owner.initialized /\ ~owner'.busy
               /\ owner.session.token <= grants /\ owner.session.flag <= flags
    <3>1. owner' = [owner EXCEPT !.busy = b]
      BY <2>4, <2>5
    <3> QED BY <1>0, <2>4, <3>1 DEF Types, OwnerTypes
  <2>6. CASE c.flag \notin canceled /\ c.res \notin {"denied", "ok"}
    <3>1. /\ owner' = [owner EXCEPT !.busy = FALSE]
          /\ Finished(c, c.res) /\ UNCHANGED <<store, failures>>
      BY <1>4, <2>6 DEF Finish
    <3>2. c.res \in {"unavailable", "empty"}
      BY <1>0, <1>1, <2>6 DEF Order, OneCall, Answered
    <3>3. ActsOn
      BY <1>0, <1>1, <2>5, <3>1 DEF ActsOn, Flags, Held
    <3>4. c.res = "empty" /\ c.kind = "restore" /\ ~Stale(c) =>
             owner.session = NoSession /\ store = None
      BY <1>0 DEF Flags, RestoreAlone
    <3> QED BY <1>2, <2>1, <2>2, <2>5, <3>1, <3>2, <3>3, <3>4, FinishedKeeps
  <2>7. CASE c.flag \notin canceled /\ c.res = "ok" /\ ok
    <3> DEFINE d == [c EXCEPT !.pc = "publish"]
    <3>1. /\ owner' = [owner EXCEPT !.busy = FALSE]
          /\ store' = c.token /\ failures' = failures /\ Goes(c, d)
      BY <1>4, <2>7 DEF Finish
    <3>2. /\ d \in Calls /\ d.kind = c.kind /\ d.gen = c.gen /\ d.pc = "publish"
          /\ d.flag = c.flag /\ d.res = c.res /\ d.token = c.token
      BY <1>0 DEF Calls
    <3> HIDE DEF d
    <3>3. Holds(c.flag)
      BY <1>0, <1>1, <2>7, WorkerIsHeld
    <3>4. ActsOn
      BY <1>0, <1>1, <1>4, <2>5, <3>1, <3>3 DEF ActsOn
    <3>5. /\ \A x \in calls : Works(x) => x = c
          /\ \A y \in jobs \union calls : ~(Begun(y) /\ y.flag = owner.generation)
      BY <1>0, <2>1, WorkerIsAlone
    <3>6. Acts(c, {d})
      BY <1>1, <1>2, <1>4, <2>2, <2>5, <2>7, <3>1, <3>2, <3>5 DEF Acts, AtWork
    <3>7. /\ Answered(d) /\ (Claims(d) => Claims(c)) /\ (Settled(d) => Settled(c))
          /\ d.token <= grants' /\ d.res # "empty"
      BY <1>0, <1>1, <2>7, <3>2 DEF Answered, Claims, Attempt, Settled
    <3> QED BY <1>1, <3>2, <3>1, <3>3, <3>4, <3>6, <3>7, ActGoKeeps
  <2>8. CASE c.flag \notin canceled /\ c.res = "ok" /\ ~ok
    <3>1. /\ owner' = [owner EXCEPT !.busy = FALSE, !.session = NoSession]
          /\ StoreFault /\ store' \in {None, store, c.token}
          /\ Finished(c, "credential_store")
      BY <1>4, <2>8 DEF Finish
    <3>2. Holds(c.flag)
      BY <1>0, <1>1, <2>8, WorkerIsHeld
    <3>3. /\ store' \in Nat /\ store' <= grants
          /\ failures' \in Nat /\ failures <= failures' /\ failures' <= MaxFailures
      BY <1>0, <3>1, BoundsAssumption DEF StoreFault, None
    <3> QED BY <1>1, <1>2, <2>1, <3>1, <3>2, <3>3, WithdrawnKeeps
  <2> QED BY <2>3, <2>6, <2>7, <2>8
<1> QED BY <1>3, <1>4

LEMMA FinishPublishKeeps ==
  ASSUME AuthInv, NEW c \in calls, NEW ok \in BOOLEAN, FinishPublish(c, ok)
  PROVE  AuthInv'
<1>0. /\ Types /\ Order /\ Flags /\ c \in Calls /\ c.flag \in Nat /\ c.flag <= flags
      /\ c.token \in Nat /\ c.token <= grants /\ store \in Nat /\ store <= grants
      /\ grants \in Nat /\ failures \in Nat /\ failures <= MaxFailures
  BY DEF AuthInv, Types, ElementTypes, StateTypes, Calls
<1>1. /\ c.kind \in {"restore", "complete", "refresh"} /\ c.pc = "publish"
      /\ UNCHANGED <<svc, canceled, flags, grants, expired>>
  BY DEF FinishPublish, At
<1>2. /\ \A x \in calls : x.pc = "publish" => x = c
      /\ c.flag = owner.generation /\ store = c.token
  BY <1>0, <1>1 DEF Flags, Publication
<1>3. Works(c)
  BY <1>1, <1>2 DEF Works, AtWork
<1>4. owner.initialized /\ ~owner.busy
  BY <1>0, <1>1, <1>3, WorkerIsAlone
<1>5. CASE c.flag \in canceled \/ c.token \in expired
  <2> DEFINE q == IF c.flag \in canceled THEN "canceled" ELSE "denied"
  <2>1. /\ owner' = [owner EXCEPT !.session = NoSession]
        /\ Clear(ok) /\ Finished(c, Cleared(ok, q))
    BY <1>5 DEF FinishPublish
  <2>2. Cleared(ok, q) \in {"canceled", "denied", "credential_store"}
    BY DEF Cleared
  <2>3. owner' = [owner EXCEPT !.busy = FALSE, !.session = NoSession]
    BY <1>0, <1>4, <2>1 DEF Types, OwnerTypes
  <2> QED BY <1>0, <1>1, <1>2, <1>3, <2>1, <2>2, <2>3, ClearTypes, WithdrawnKeeps
<1>6. CASE c.flag \notin canceled /\ c.token \notin expired
  <2> DEFINE s == [token |-> c.token, flag |-> c.flag]
  <2>1. owner' = [owner EXCEPT !.session = s] /\ Finished(c, "ok") /\ UNCHANGED <<store, failures>>
    BY <1>6 DEF FinishPublish
  <2>2. s \in [token : Nat, flag : Nat] /\ s.token = c.token /\ s.flag = c.flag
    BY <1>0
  <2> HIDE DEF s
  <2>3. /\ owner' \in [generation : Nat, initialized : BOOLEAN, busy : BOOLEAN,
                       session : [token : Nat, flag : Nat]]
        /\ owner'.generation = owner.generation /\ owner'.session = s
        /\ owner'.initialized = owner.initialized /\ owner'.busy = owner.busy
    BY <1>0, <2>1, <2>2 DEF Types, OwnerTypes
  <2>4. Holds(c.flag) /\ (c.kind # "refresh" => c.gen = svc.generation)
    BY <1>0, <1>1, <1>6, WorkerIsHeld
  <2>5. ActsOn
    BY <1>0, <1>1, <1>2, <2>1, <2>2, <2>3, <2>4 DEF ActsOn
  <2>6. ASSUME c.kind # "refresh", ~Stale(c),
               NEW x \in jobs \union calls, Renewal(x), Stale(x)
        PROVE  x.flag \in canceled \union {None}
    <3>1. CASE c.kind = "restore"
      <4>1. x.kind = "restore"
        BY <1>0, <2>6, <3>1 DEF Flags, RestoreAlone
      <4> QED BY <2>6, <4>1 DEF Renewal
    <3>2. CASE c.kind = "complete"
      <4>1. x.flag \notin canceled \union {None} => x.flag = svc.cancellation
        BY <1>0, <1>2, <2>4, <2>6 DEF Flags, ReadFlags, Holds
      <4> QED BY <1>0, <2>6, <4>1 DEF Flags, StaleRenewals
    <3> QED BY <1>1, <2>6, <3>1, <3>2
  <2>7. store' >= owner'.session.token /\ owner'.session.flag = owner.generation
    BY <1>0, <1>2, <2>1, <2>2, <2>3
  <2> QED BY <1>2, <1>3, <1>4, <2>1, <2>3, <2>5, <2>6, <2>7, FinishedKeeps
<1> QED BY <1>5, <1>6

(* The owner's flag is raised and replaced by one that nobody has.         *)
LEMMA InvalidatedKeeps ==
  ASSUME AuthInv, Order', NEW c \in calls, NEW D, NEW r, Stepped(c, D, r, c.flag),
         CallFits(c, D, r, c.flag), StoreFits(c, D, r), Invalidate, LockFree,
         \A d \in D : d \in Calls /\ d.flag = c.flag /\ d.token = c.token /\ ~AtWork(d)
                      /\ d.pc # "start",
         UNCHANGED <<svc, grants, expired>>,
         store' \in Nat, store' <= grants,
         failures' \in Nat, failures <= failures', failures' <= MaxFailures
  PROVE  AuthInv'
<1>0. /\ Types /\ Order /\ Flags /\ c.flag \in Nat /\ c.flag <= flags
      /\ c.token \in Nat /\ c.token <= grants /\ flags \in Nat /\ grants \in Nat
      /\ \A x \in jobs \union calls : x.flag \in Nat /\ x.flag <= flags
  BY DEF AuthInv, Types, ElementTypes, StateTypes, Jobs, Calls
<1>1. PICK n \in Nat : n = flags + 1
  BY <1>0
<1>2. /\ owner'.generation = n /\ owner'.session = NoSession /\ owner'.initialized
      /\ ~owner'.busy /\ flags' = n /\ canceled' = canceled \union {owner.generation}
  BY <1>1 DEF Invalidate
<1>3. owner' \in [generation : Nat, initialized : BOOLEAN, busy : BOOLEAN,
                  session : [token : Nat, flag : Nat]]
  <2>1. owner' = [generation |-> n, initialized |-> TRUE, busy |-> FALSE, session |-> NoSession]
    BY <1>1 DEF Invalidate
  <2>2. NoSession \in [token : Nat, flag : Nat]
    BY DEF NoSession, None
  <2>3. \A s \in [token : Nat, flag : Nat], i \in BOOLEAN, b \in BOOLEAN :
           [generation |-> n, initialized |-> i, busy |-> b, session |-> s]
             \in [generation : Nat, initialized : BOOLEAN, busy : BOOLEAN,
                  session : [token : Nat, flag : Nat]]
    OBVIOUS
  <2> QED BY <2>1, <2>2, <2>3
<1>4. StateTypes' /\ ServiceTypes' /\ OwnerTypes'
  <2>1. /\ owner.generation \in Nat /\ owner.generation <= flags
        /\ \A h \in canceled : h \in Nat /\ h <= flags
        /\ svc.cancellation \in Nat /\ svc.cancellation <= flags /\ svc.generation \in Nat
        /\ svc.generation <= MaxRequests + failures /\ failures \in Nat
    BY <1>0 DEF Types, StateTypes, OwnerTypes, ServiceTypes
  <2>2. StateTypes'
    <3>1. \A h \in canceled \union {owner.generation} : h \in Nat /\ h <= n
      BY <1>0, <1>1, <2>1
    <3>2. canceled' \subseteq Nat /\ \A h \in canceled' : h <= flags'
      BY <1>2, <3>1
    <3> QED BY <1>0, <1>2, <3>2 DEF Types, StateTypes
  <2>3. svc.generation <= MaxRequests + failures' /\ svc.cancellation <= n
    BY <1>0, <1>1, <2>1, BoundsAssumption
  <2>4. ServiceTypes'
    BY <1>0, <1>2, <2>3 DEF Types, ServiceTypes
  <2>5. NoSession.token = 0 /\ NoSession.flag = 0
    BY DEF NoSession, None
  <2>6. OwnerTypes'
    BY <1>0, <1>1, <1>2, <1>3, <2>5 DEF OwnerTypes, None
  <2> QED BY <2>2, <2>4, <2>6
<1>5. Types'
  <2>1. c.flag <= flags' /\ flags <= flags' /\ grants <= grants' /\ svc'.generation = svc.generation
    BY <1>0, <1>1, <1>2
  <2>2. \A d \in D : d \in Calls /\ d.gen = c.gen /\ d.flag <= flags' /\ d.token <= grants'
    BY <1>0, <2>1 DEF CallFits
  <2> QED BY <1>0, <1>4, <2>1, <2>2, CallKeepsTypes
<1>6. OwnerFits
  BY <1>1, <1>2 DEF OwnerFits
<1>7. /\ UnbegunIsFresh' /\ ReadFlags' /\ StaleRenewals' /\ Held' /\ RestoreAlone'
      /\ LogoutForgets' /\ SignedOutIsForgotten'
  BY <1>0, <1>6, CallKeepsRest
<1>8. \A x \in jobs' \union calls' : x.flag # n
  <2>1. \A x \in jobs \union calls : x.flag # n
    BY <1>0, <1>1
  <2>2. c.flag # n
    BY <2>1
  <2> QED BY <2>1, <2>2 DEF Stepped, Receives
<1>9. \A x \in calls' : AtWork(x) => x \in calls /\ x.pc # "publish"
  BY DEF Stepped, LockFree
<1>10. OneWorker'
  BY <1>0, <1>2, <1>8, <1>9 DEF OneWorker, Flags, Works, AtWork
<1>11. BegunIsAlone'
  BY <1>2, <1>8 DEF BegunIsAlone, Begun
<1>12. Publication'
  BY <1>2, <1>8, <1>9 DEF Publication, AtWork
<1> QED BY <1>5, <1>7, <1>10, <1>11, <1>12 DEF AuthInv, Flags

LEMMA InvalidatedReturnKeeps ==
  ASSUME AuthInv, NEW c \in calls, NEW r \in Result, Return(c, r),
         r \in {"ok", "canceled", "credential_store"}, c.kind \in {"cancel", "suspend", "logout"},
         Invalidate, LockFree, UNCHANGED <<svc, grants, expired>>,
         store' \in {store, None}, store' \in Nat, store' <= grants,
         c.kind = "logout" /\ r = "ok" => store' = None,
         failures' \in Nat, failures <= failures', failures' <= MaxFailures
  PROVE  AuthInv'
<1>0. Types /\ Order /\ c.flag \in Nat
  BY DEF AuthInv, Types, ElementTypes, Calls
<1>1. Returned(c, r, c.flag)
  BY <1>0, ReturnForm DEF Return
<1>2. Stepped(c, {}, r, c.flag)
  BY <1>1, ReturnedIsStepped
<1>3. Order'
  BY <1>0, <1>1, ReturnedKeepsOrder DEF SameGeneration
<1>4. CallFits(c, {}, r, c.flag)
  BY DEF CallFits
<1>5. StoreFits(c, {}, r)
  BY DEF StoreFits
<1> QED BY <1>2, <1>3, <1>4, <1>5, InvalidatedKeeps

LEMMA CancelAttemptKeeps ==
  ASSUME AuthInv, NEW c \in calls, NEW ok \in BOOLEAN, CancelAttempt(c, ok)
  PROVE  AuthInv'
<1>0. /\ Types /\ c.flag \in Nat /\ failures \in Nat /\ failures <= MaxFailures
  BY DEF AuthInv, Types, ElementTypes, Calls, StateTypes
<1>1. /\ c.kind = "cancel" /\ LockFree /\ UNCHANGED <<svc, grants, expired>>
      /\ Return(c, "canceled")
  BY DEF CancelAttempt, At
<1>2. CASE c.flag # owner.generation
  <2>1. UNCHANGED <<owner, canceled, store, failures, flags>>
    BY <1>2 DEF CancelAttempt
  <2> QED BY <1>0, <1>1, <2>1, ResultTypes, QuietReturnKeeps DEF Return
<1>3. CASE c.flag = owner.generation
  <2>1. Invalidate /\ Clear(ok)
    BY <1>3 DEF CancelAttempt
  <2> QED BY <1>0, <1>1, <2>1, ClearTypes, ResultTypes, InvalidatedReturnKeeps
<1> QED BY <1>2, <1>3

LEMMA SuspendKeeps ==
  ASSUME AuthInv, NEW c \in calls, Suspend(c)
  PROVE  AuthInv'
<1>1. /\ c.kind = "suspend" /\ LockFree /\ Invalidate /\ Return(c, "ok")
      /\ UNCHANGED <<svc, grants, store, failures, expired>>
  BY DEF Suspend, At
<1>2. /\ store \in Nat /\ store <= grants /\ failures \in Nat /\ failures <= failures
      /\ failures <= MaxFailures
  BY DEF AuthInv, Types, StateTypes
<1> QED BY <1>1, <1>2, ResultTypes, InvalidatedReturnKeeps

LEMMA LogoutKeeps ==
  ASSUME AuthInv, NEW c \in calls, NEW ok \in BOOLEAN, Logout(c, ok)
  PROVE  AuthInv'
<1>0. Types /\ Order /\ Flags /\ c \in Calls
  BY DEF AuthInv, Types, ElementTypes
<1>1. /\ c.kind = "logout" /\ LockFree /\ Invalidate /\ Clear(ok)
      /\ UNCHANGED <<svc, grants, expired>>
  BY DEF Logout, At
<1>2. PICK r : r = Cleared(ok, "ok") /\ r \in {"ok", "credential_store"} /\ (r = "ok" => ok)
  BY ClearedResults
<1>3. CASE Return(c, Cleared(ok, "ok"))
  BY <1>0, <1>1, <1>2, <1>3, ClearTypes, ResultTypes, InvalidatedReturnKeeps
<1>4. CASE Goes(c, [c EXCEPT !.pc = "revoke", !.res = Cleared(ok, "ok")])
  <2> DEFINE d == [c EXCEPT !.pc = "revoke", !.res = r]
  <2>1. /\ d \in Calls /\ d.kind = c.kind /\ d.gen = c.gen /\ d.pc = "revoke"
        /\ d.flag = c.flag /\ d.res = r /\ d.token = c.token /\ Goes(c, d)
    BY <1>0, <1>2, <1>4, ResultTypes DEF Calls
  <2> HIDE DEF d
  <2>2. Moved(c, d)
    BY <2>1 DEF Moved, Goes
  <2>3. Stepped(c, {d}, "canceled", c.flag)
    BY <2>2 DEF Stepped, Moved
  <2>4. Answered(d) /\ ~Claims(d) /\ ~Settled(d) /\ ~AtWork(d)
    BY <1>1, <1>2, <2>1 DEF Answered, Claims, Attempt, Settled, AtWork
  <2>5. Order'
    BY <1>0, <1>1, <2>1, <2>2, <2>4, MovedKeepsOrder DEF SameGeneration
  <2>6. CallFits(c, {d}, "canceled", c.flag)
    BY <1>1, <2>1, <2>4 DEF CallFits
  <2>7. /\ store' \in {store, None} /\ store' \in Nat /\ store' <= grants /\ (ok => store' = None)
        /\ failures' \in Nat /\ failures <= failures' /\ failures' <= MaxFailures
    BY <1>0, <1>1, ClearTypes
  <2>8. StoreFits(c, {d}, "canceled")
    BY <1>1, <1>2, <2>1, <2>7 DEF StoreFits
  <2> QED BY <1>1, <2>1, <2>3, <2>4, <2>5, <2>6, <2>7, <2>8, InvalidatedKeeps
<1> QED BY <1>3, <1>4 DEF Logout

(* A sign-in takes the owner with a flag that only it has.                 *)
LEMMA BeginKeeps ==
  ASSUME AuthInv, NEW c \in calls, NEW ok \in BOOLEAN, Begin(c, ok)
  PROVE  AuthInv'
<1>0. /\ Types /\ Order /\ Flags /\ c \in Calls /\ c.flag \in Nat /\ c.flag <= flags
      /\ failures \in Nat /\ failures <= MaxFailures
  BY DEF AuthInv, Types, ElementTypes, Calls, StateTypes
<1>1. /\ c.kind = "begin" /\ c.pc = "start" /\ LockFree
      /\ UNCHANGED <<svc, grants, flags, expired>>
  BY DEF Begin, At
<1>2. CASE c.flag \in canceled
  <2>1. Return(c, "canceled") /\ UNCHANGED <<owner, canceled, store, failures>>
    BY <1>2 DEF Begin
  <2> QED BY <1>0, <1>1, <2>1, ResultTypes, QuietReturnKeeps DEF Return
<1>3. CASE c.flag \notin canceled
  <2>1. PICK r : r = Cleared(ok, "begun") /\ r \in {"begun", "credential_store"}
    BY ClearedResults
  <2>2. /\ canceled' = canceled \union {owner.generation} /\ Clear(ok) /\ Return(c, r)
        /\ owner' = [generation |-> c.flag, initialized |-> TRUE, busy |-> ok,
                     session |-> NoSession]
    BY <1>3, <2>1 DEF Begin
  <2>3. Returned(c, r, c.flag)
    BY <1>0, <2>1, <2>2, ResultTypes, ReturnForm DEF Return
  <2>4. Stepped(c, {}, r, c.flag)
    BY <2>3, ReturnedIsStepped
  <2>5. Order'
    BY <1>0, <1>1, <2>3, ReturnedKeepsOrder DEF SameGeneration
  <2>6. /\ owner'.generation = c.flag /\ owner'.session = NoSession /\ owner'.initialized
        /\ owner' \in [generation : Nat, initialized : BOOLEAN, busy : BOOLEAN,
                       session : [token : Nat, flag : Nat]]
    <3>1. NoSession \in [token : Nat, flag : Nat]
      BY DEF NoSession, None
    <3>2. \A s \in [token : Nat, flag : Nat], i \in BOOLEAN :
             [generation |-> c.flag, initialized |-> i, busy |-> ok, session |-> s]
               \in [generation : Nat, initialized : BOOLEAN, busy : BOOLEAN,
                    session : [token : Nat, flag : Nat]]
      BY <1>0
    <3> QED BY <2>2, <3>1, <3>2
  <2>7. /\ store' \in {store, None} /\ store' \in Nat /\ store' <= grants
        /\ failures' \in Nat /\ failures <= failures' /\ failures' <= MaxFailures
    BY <1>0, <2>2, ClearTypes
  <2>8. c.flag # None /\ c.flag # owner.generation
    BY <1>0, <1>1 DEF Order, OneAttempt, Attempt, Flags, UnbegunIsFresh, Unbegun
  <2>9. Types'
    <3>1. /\ owner.generation \in Nat /\ owner.generation <= flags
          /\ svc.generation \in Nat /\ svc.generation <= MaxRequests + failures
          /\ flags \in Nat /\ grants \in Nat
      BY <1>0 DEF Types, StateTypes, OwnerTypes, ServiceTypes
    <3>2. StateTypes'
      BY <1>0, <1>1, <2>2, <2>7, <3>1 DEF Types, StateTypes
    <3>3. svc.generation <= MaxRequests + failures'
      BY <1>0, <2>7, <3>1, BoundsAssumption
    <3>4. ServiceTypes'
      BY <1>0, <1>1, <3>3 DEF Types, ServiceTypes
    <3>5. NoSession.token = 0 /\ NoSession.flag = 0
      BY DEF NoSession, None
    <3>6. OwnerTypes'
      BY <1>0, <1>1, <2>6, <2>8, <3>1, <3>5 DEF OwnerTypes
    <3>7. flags <= flags' /\ grants <= grants' /\ c.flag <= flags' /\ svc'.generation = svc.generation
      BY <1>0, <1>1, <3>1
    <3> QED BY <1>0, <2>4, <3>2, <3>4, <3>6, <3>7, CallKeepsTypes
  <2>10. Holds(c.flag) /\ c.gen = svc.generation
    BY <1>0, <1>1, <1>3 DEF Flags, Held, Claims, Attempt
  <2> DEFINE Came(k) == \E j \in jobs : /\ j.gen = c.gen /\ j.pc = c.kind
                                        /\ Receives(k, j, r, c.flag, c.token)
  <2>11. /\ \A x \in calls' : x \in calls /\ x # c
         /\ \A k \in jobs' : (k \in jobs /\ k.gen # c.gen) \/ Came(k)
    BY <1>1, <2>3 DEF Returned, Awaited
  <2>12. \A k : Came(k) => /\ k.kind = "login" /\ k.flag = c.flag /\ k.gen = c.gen
                           /\ k.pc = "run" /\ k.res = r
    BY <1>0, <1>1 DEF Receives, Order, JobsInOrder, Fits, Types, ElementTypes, Jobs
  <2> HIDE DEF Came
  <2>13. ASSUME NEW x \in jobs \union calls, x.flag = c.flag  PROVE x.gen = c.gen
    BY <1>0, <1>1, <2>13 DEF Flags, UnbegunIsFresh, Unbegun
  <2>14. \A x \in calls' : AtWork(x) => x.flag # c.flag /\ x.pc # "publish"
    <3>1. ASSUME NEW x \in calls', AtWork(x), x.flag = c.flag  PROVE FALSE
      <4>1. x \in calls /\ x # c /\ x.gen = c.gen
        BY <2>11, <2>13, <3>1
      <4>2. Awaited(x) /\ Awaited(c)
        BY <1>0, <1>1, <3>1, <4>1 DEF Flags, OneWorker, Awaited
      <4> QED BY <1>0, <4>1, <4>2 DEF Order, OneCall
    <3> QED BY <1>1, <2>11, <3>1 DEF LockFree
  <2>15. UnbegunIsFresh'
    <3>1. ASSUME NEW b \in jobs' \union calls', Unbegun(b)
          PROVE  b \in jobs \union calls /\ b.flag # c.flag
      <4>1. \A k : Came(k) => ~Unbegun(k)
        BY <2>1, <2>12 DEF Unbegun
      <4>2. b \in jobs \union calls
        BY <2>11, <3>1, <4>1
      <4>3. b \in jobs' => b.gen # c.gen
        BY <2>11, <3>1, <4>1
      <4>4. ASSUME b \in calls', b.gen = c.gen  PROVE FALSE
        <5>1. b \in calls /\ b # c /\ b.kind = "begin"
          BY <2>11, <3>1, <4>4 DEF Unbegun, Types, ElementTypes, Calls, AuthInv
        <5> QED BY <1>0, <1>1, <4>4, <5>1 DEF Order, OneCall, Awaited
      <4> QED BY <2>13, <4>2, <4>3, <4>4
    <3>2. ASSUME NEW b \in jobs' \union calls', Unbegun(b),
                 NEW x \in jobs' \union calls', x.flag = b.flag
          PROVE  x.gen = b.gen
      <4>1. x \in jobs \union calls
        BY <2>11, <2>12, <3>1, <3>2
      <4> QED BY <1>0, <3>1, <3>2, <4>1 DEF Flags, UnbegunIsFresh
    <3> QED BY <2>6, <3>1, <3>2 DEF UnbegunIsFresh, Unbegun
  <2>16. OneWorker'
    BY <1>0, <2>6, <2>11, <2>14 DEF Flags, OneWorker, Works, AtWork
  <2>17. BegunIsAlone'
    BY <2>6, <2>14 DEF BegunIsAlone, Works, AtWork
  <2>18. Publication'
    BY <2>6, <2>14 DEF Publication, AtWork
  <2>19. \A x \in jobs' \union calls' : Renewal(x) => x.flag \in canceled' \union {None}
    <3>1. \A k : Came(k) => ~Renewal(k)
      BY <2>12 DEF Renewal
    <3>2. \A x \in jobs \union calls : Renewal(x) => x.flag \in canceled' \union {None}
      BY <1>0, <2>2 DEF Flags, ReadFlags
    <3> QED BY <2>11, <3>1, <3>2
  <2>20. ReadFlags'
    <3>1. \A x \in calls' : x.kind = "metadata" => x.flag = None
      BY <1>0, <2>11 DEF Flags, ReadFlags
    <3>2. \A k \in jobs' : k.kind = "maintain" /\ k.res = "ok" => k.flag # None
      BY <1>0, <2>11, <2>12 DEF Flags, ReadFlags
    <3> QED BY <2>19, <3>1, <3>2 DEF ReadFlags, Renewal
  <2>21. StaleRenewals'
    BY <2>19 DEF StaleRenewals, Renewal
  <2>22. \A h : Holds(h)' <=> Holds(h)
    BY <1>1 DEF Holds
  <2>23. Held'
    <3>1. \A x \in jobs' \union calls' : Claims(x) =>
             x.flag \in canceled' \/ (Holds(x.flag) /\ x.gen = svc.generation)
      BY <1>0, <2>2, <2>10, <2>11, <2>12 DEF Flags, Held
    <3>2. \A x \in calls' : x.kind = "refresh" /\ x.pc \in {"exchange", "finish", "publish"} =>
             x.flag \in canceled' \/ Holds(x.flag)
      BY <1>0, <2>2, <2>11 DEF Flags, Held
    <3> QED BY <1>1, <2>6, <2>22, <3>1, <3>2 DEF Held, Claims, Attempt
  <2>24. RestoreAlone'
    <3>1. \A x \in jobs \union calls : ~(x.kind = "restore" /\ ~Stale(x))
      BY <1>0, <1>1 DEF Flags, RestoreAlone
    <3>2. \A x \in jobs' \union calls' : ~(x.kind = "restore" /\ ~Stale(x))
      BY <2>11, <2>12, <3>1
    <3> QED BY <1>1, <3>2 DEF RestoreAlone, Stale
  <2>25. LogoutForgets'
    <3>1. \A x \in jobs \union calls : ~(x.kind = "logout" /\ ~Stale(x))
      BY <1>0, <2>10 DEF Flags, LogoutForgets, Holds
    <3>2. \A x \in jobs' \union calls' : ~(x.kind = "logout" /\ ~Stale(x))
      BY <2>11, <2>12, <3>1
    <3> QED BY <1>1, <3>2 DEF LogoutForgets, Stale
  <2>26. SignedOutIsForgotten'
    BY <1>0, <1>1, <2>7 DEF Flags, SignedOutIsForgotten
  <2> QED BY <2>5, <2>9, <2>15, <2>16, <2>17, <2>18, <2>20, <2>21, <2>23, <2>24, <2>25, <2>26
          DEF AuthInv, Flags
<1> QED BY <1>2, <1>3

(* The service takes the flag of the login being restored.                 *)
LEMMA RestoreReserveKeeps ==
  ASSUME AuthInv, NEW c \in calls, RestoreReserve(c)
  PROVE  AuthInv'
<1>0. /\ Types /\ Order /\ Flags /\ c \in Calls /\ c.flag \in Nat /\ c.flag <= flags
      /\ failures \in Nat /\ failures <= MaxFailures
  BY DEF AuthInv, Types, ElementTypes, Calls, StateTypes
<1>1. /\ c.kind = "restore" /\ c.pc = "reserve"
      /\ UNCHANGED <<owner, canceled, store, flags, grants, expired, failures>>
  BY DEF RestoreReserve, At
<1>2. CASE Stale(c)
  <2>1. Return(c, "canceled") /\ svc' = svc
    BY <1>2 DEF RestoreReserve, Stale
  <2> QED BY <1>0, <1>1, <2>1, ResultTypes, QuietReturnKeeps DEF Return
<1>3. CASE ~Stale(c)
  <2> DEFINE d == [c EXCEPT !.pc = "load"]
  <2>1. svc' = [svc EXCEPT !.cancellation = c.flag] /\ Goes(c, d)
    BY <1>3 DEF RestoreReserve, Stale
  <2>2. /\ d \in Calls /\ d.kind = "restore" /\ d.gen = c.gen /\ d.pc = "load"
        /\ d.flag = c.flag /\ d.res = c.res /\ d.token = c.token
    BY <1>0, <1>1 DEF Calls
  <2> HIDE DEF d
  <2>3. /\ svc' \in [generation : Nat, state : State, cancellation : Nat, until : Nat,
                     closed : BOOLEAN]
        /\ svc'.generation = svc.generation /\ svc'.state = svc.state
        /\ svc'.cancellation = c.flag /\ svc'.until = svc.until /\ svc'.closed = svc.closed
    BY <1>0, <2>1 DEF Types, ServiceTypes
  <2>4. /\ \A y \in jobs \union calls : y.kind = "restore" /\ y.gen = svc.generation
        /\ svc.state \in {"restoring", "failed"} /\ ~svc.closed
        /\ c.res = "empty" => owner.session = NoSession /\ store = None
        /\ c.flag = owner.generation /\ owner.generation # None
    BY <1>0, <1>1, <1>3 DEF Flags, RestoreAlone, Stale, Types, OwnerTypes
  <2>5. \A x \in calls : x = c
    BY <1>0, <2>4 DEF Order, OneCall, Awaited
  <2>6. jobs' = jobs /\ \A x \in calls' : x = d
    BY <2>1, <2>5 DEF Goes
  <2>7. Moved(c, d)
    BY <1>1, <2>2, <2>6 DEF Moved
  <2>8. Stepped(c, {d}, "canceled", c.flag)
    BY <2>7 DEF Stepped, Moved
  <2>9. Order'
    BY <1>0, <1>1, <2>2, <2>3, <2>7, MovedKeepsOrder DEF SameGeneration, Answered
  <2>10. Types'
    <3>1. StateTypes' /\ ServiceTypes' /\ OwnerTypes'
      BY <1>0, <1>1, <2>3 DEF Types, StateTypes, ServiceTypes, OwnerTypes
    <3>2. /\ flags <= flags' /\ grants <= grants' /\ c.flag <= flags' /\ c.token <= grants'
      BY <1>0, <1>1 DEF Types, StateTypes, ElementTypes
    <3> QED BY <1>0, <2>2, <2>3, <2>8, <3>1, <3>2, CallKeepsTypes
  <2>11. ASSUME NEW j \in jobs
         PROVE  ~Unbegun(j) /\ ~Begun(j) /\ ~Renewal(j) /\ ~Claims(j) /\ j.kind = "restore"
                /\ j.gen = svc.generation /\ j.res # "empty"
    <3>1. j.kind = "restore" /\ j.gen = svc.generation
      BY <2>4
    <3>2. j.pc = "restore" /\ Fits(j)
      BY <1>0, <1>1, <2>4, <3>1 DEF Order, OneCall, JobsInOrder, Awaited
    <3> QED BY <3>1, <3>2 DEF Unbegun, Begun, Renewal, Claims, Attempt, Fits
  <2>12. ~Unbegun(d) /\ ~Begun(d) /\ ~Renewal(d) /\ ~AtWork(d)
    BY <2>2 DEF Unbegun, Begun, Renewal, AtWork
  <2>13. UnbegunIsFresh' /\ BegunIsAlone'
    <3>1. \A x \in jobs' \union calls' : ~Unbegun(x) /\ ~Begun(x)
      BY <2>6, <2>11, <2>12
    <3> QED BY <3>1 DEF UnbegunIsFresh, BegunIsAlone, Unbegun, Begun
  <2>14. ReadFlags' /\ StaleRenewals'
    <3>1. \A x \in jobs' \union calls' : ~Renewal(x) /\ x.kind = "restore"
      BY <2>2, <2>6, <2>11, <2>12
    <3> QED BY <3>1 DEF ReadFlags, StaleRenewals, Renewal
  <2>15. OneWorker' /\ Publication'
    BY <1>0, <1>1, <2>2, <2>6, <2>12 DEF Flags, OneWorker, Publication, Works, AtWork
  <2>16. Holds(c.flag)'
    BY <1>1, <2>3, <2>4 DEF Holds
  <2>17. Held'
    BY <1>1, <2>2, <2>3, <2>4, <2>6, <2>11, <2>16 DEF Held, Holds, Claims, Attempt
  <2>18. RestoreAlone'
    BY <1>1, <1>3, <2>2, <2>3, <2>4, <2>6, <2>11 DEF RestoreAlone, Stale
  <2>19. LogoutForgets' /\ SignedOutIsForgotten'
    BY <2>2, <2>3, <2>4, <2>6, <2>11 DEF LogoutForgets, SignedOutIsForgotten
  <2> QED BY <2>9, <2>10, <2>13, <2>14, <2>15, <2>17, <2>18, <2>19 DEF AuthInv, Flags
<1> QED BY <1>2, <1>3

----------------------------------------------------------------------------
(* The theorems. *)

LEMMA JobStepKeeps ==
  ASSUME AuthInv, NEW j \in jobs, JobStep(j)
  PROVE  AuthInv'
<1>1. CASE RestoreJob(j)
  BY <1>1, RestoreJobKeeps, RestoreJobEmptyKeeps
<1>2. CASE LoginJob(j)
  BY <1>2, LoginJobKeeps
<1>3. CASE Maintained(j)
  BY <1>3, MaintainedKeeps
<1>4. CASE MaintainJob(j)
  BY <1>4, MaintainJobKeeps
<1>5. CASE LogoutJob(j)
  BY <1>5, LogoutJobKeeps
<1>6. CASE Wake(j)
  BY <1>6, WakeKeeps
<1>7. ASSUME NEW result \in {"code", "denied", "unavailable"}, Callback(j, result)
      PROVE  AuthInv'
  BY <1>7, CallbackKeeps
<1> QED BY <1>1, <1>2, <1>3, <1>4, <1>5, <1>6, <1>7 DEF JobStep

LEMMA CallStepKeeps ==
  ASSUME AuthInv, NEW c \in calls, CallStep(c)
  PROVE  AuthInv'
<1>1. ASSUME NEW ok \in BOOLEAN,
             \/ Begin(c, ok) \/ CancelAttempt(c, ok) \/ Logout(c, ok)
             \/ RestoreLoad(c, ok) \/ Finish(c, ok) \/ FinishPublish(c, ok)
      PROVE  AuthInv'
  BY <1>1, BeginKeeps, CancelAttemptKeeps, LogoutKeeps, RestoreLoadKeeps, FinishKeeps,
     FinishPublishKeeps
<1>2. CASE Suspend(c) \/ Revoke(c) \/ RestoreFlag(c) \/ RestoreReserve(c) \/ RestoreAgain(c)
  BY <1>2, SuspendKeeps, RevokeKeeps, RestoreFlagKeeps, RestoreReserveKeeps,
     RestoreAgainKeeps
<1>3. CASE CompleteCheck(c) \/ RefreshCheck(c) \/ MetadataSession(c) \/ MetadataFlag(c)
  BY <1>3, CompleteCheckKeeps, RefreshCheckKeeps, MetadataSessionKeeps, MetadataFlagKeeps
<1>4. ASSUME NEW result \in {"ok", "denied", "unavailable"}, Exchange(c, result)
      PROVE  AuthInv'
  BY <1>4, ExchangeKeeps
<1> QED BY <1>1, <1>2, <1>3, <1>4 DEF CallStep

LEMMA NextKeeps == AuthInv /\ [Next]_vars => AuthInv'
<1> SUFFICES ASSUME AuthInv, [Next]_vars  PROVE AuthInv'
  OBVIOUS
<1>1. ASSUME NEW j \in jobs, JobStep(j)  PROVE AuthInv'
  BY <1>1, JobStepKeeps
<1>2. ASSUME NEW c \in calls, CallStep(c)  PROVE AuthInv'
  BY <1>2, CallStepKeeps
<1>3. CASE HandleStatus
  BY <1>3, HandleStatusKeeps
<1>4. ASSUME NEW g \in Generations, HandleStart(g)  PROVE AuthInv'
  BY <1>4, HandleStartKeeps
<1>5. ASSUME NEW g \in Generations, NEW b \in BOOLEAN, HandleLogout(g, b)  PROVE AuthInv'
  BY <1>5, HandleLogoutKeeps
<1>6. CASE Shutdown
  BY <1>6, ShutdownKeeps
<1>7. CASE Restart
  BY <1>7, RestartKeeps
<1>8. ASSUME NEW t \in 1 .. grants, Expire(t)  PROVE AuthInv'
  BY <1>8, ExpireKeeps
<1>9. CASE UNCHANGED vars
  <2>1. /\ svc' = svc /\ jobs' = jobs /\ calls' = calls /\ canceled' = canceled
        /\ owner' = owner /\ store' = store /\ flags' = flags /\ grants' = grants
        /\ expired' = expired /\ failures' = failures
    BY <1>9 DEF vars
  <2>2. Types'
    BY <2>1 DEF AuthInv, Types, StateTypes, ServiceTypes, OwnerTypes, ElementTypes
  <2>3. Order'
    BY <2>1 DEF AuthInv, Order, JobsInOrder, OneCall, OneAttempt, Stale, Awaited, Fits,
                Answered, Attempt
  <2>4. UnbegunIsFresh' /\ OneWorker' /\ BegunIsAlone' /\ Publication'
    BY <2>1 DEF AuthInv, Flags, UnbegunIsFresh, OneWorker, BegunIsAlone, Publication,
                Unbegun, AtWork, Works, Begun
  <2>5. ReadFlags' /\ StaleRenewals'
    BY <2>1 DEF AuthInv, Flags, ReadFlags, StaleRenewals, Renewal, Stale
  <2>6. Held'
    BY <2>1 DEF AuthInv, Flags, Held, Holds, Claims, Attempt
  <2>7. RestoreAlone'
    <3>1. \A x : Stale(x)' <=> Stale(x)
      BY <2>1 DEF Stale
    <3> QED BY <2>1, <3>1 DEF AuthInv, Flags, RestoreAlone
  <2>8. LogoutForgets' /\ SignedOutIsForgotten'
    BY <2>1 DEF AuthInv, Flags, LogoutForgets, SignedOutIsForgotten, Stale
  <2> QED BY <2>2, <2>3, <2>4, <2>5, <2>6, <2>7, <2>8 DEF AuthInv, Flags
<1> QED BY <1>1, <1>2, <1>3, <1>4, <1>5, <1>6, <1>7, <1>8, <1>9 DEF Next

(* The invariant of hosted sign-in: the jobs and the calls are in order,   *)
(* and each flag is worked for by those who may.                           *)
THEOREM AuthInvariant == Spec => []AuthInv
BY InitIsSound, NextKeeps, PTL DEF Spec

LEMMA AuthInvTypes == AuthInv => TypeOK
<1> SUFFICES ASSUME AuthInv  PROVE TypeOK
  OBVIOUS
<1>0. /\ StateTypes /\ ServiceTypes /\ OwnerTypes /\ ElementTypes /\ Publication
      /\ {MaxRequests, MaxFailures} \subseteq Nat
  BY BoundsAssumption DEF AuthInv, Types, Flags
<1>1. \A g \in Nat : g <= svc.generation => g \in Generations
  BY <1>0 DEF Generations, StateTypes, ServiceTypes
<1>2. svc \in [generation : Generations, state : State, cancellation : Flag,
               until : Token, closed : BOOLEAN]
  BY <1>0, <1>1 DEF StateTypes, ServiceTypes, Flag, Token
<1>3. \A x \in jobs \union calls : /\ x.gen \in Generations /\ x.flag \in Flag
                                   /\ x.token \in Token /\ x.res \in Result
  BY <1>0, <1>1 DEF StateTypes, ElementTypes, Jobs, Calls, Flag, Token
<1>4. \A j \in jobs : j.aborted \in BOOLEAN
  BY <1>0 DEF ElementTypes, Jobs
<1>5. Cardinality({c \in calls : c.pc = "publish"}) <= 1
  <2>0. ASSUME NEW P, P = {c \in calls : c.pc = "publish"}  PROVE Cardinality(P) \in {0, 1}
    <3>1. CASE P = {}
      BY <3>1, FS_EmptySet
    <3>2. CASE P # {}
      <4>1. PICK c : P = {c}
        BY <1>0, <2>0, <3>2 DEF Publication
      <4> QED BY <4>1, FS_Singleton
    <3> QED BY <3>1, <3>2
  <2>1. PICK n : n = Cardinality({c \in calls : c.pc = "publish"})
    OBVIOUS
  <2>2. n \in {0, 1}
    BY <2>0, <2>1
  <2>3. n <= 1
    BY <2>2
  <2> QED BY <2>1, <2>3
<1>6. owner \in [generation : Flag, initialized : BOOLEAN, busy : BOOLEAN,
                 session : [token : Token, flag : Flag]]
  BY <1>0 DEF StateTypes, OwnerTypes, Flag, Token
<1>7. /\ canceled \subseteq Flag /\ store \in Token /\ expired \subseteq Token
      /\ failures \in 0 .. MaxFailures
  BY <1>0 DEF StateTypes, Flag, Token
<1> QED BY <1>2, <1>3, <1>4, <1>5, <1>6, <1>7 DEF TypeOK

(* The variables keep their types whatever the requests, the grants and    *)
(* the failures, and no two calls are between saving and publishing a      *)
(* login: the owner's lock is what keeps them apart.                       *)
THEOREM AuthTypes == Spec => []TypeOK
BY AuthInvariant, AuthInvTypes, PTL

(* A session a caller can still be handed is one the service can withdraw  *)
(* by raising the flag it holds: no order of requests, aborted jobs and    *)
(* late answers leaves a usable session behind a sign-out or a shutdown.   *)
THEOREM LiveSessionIsAlwaysRevocable == Spec => []LiveSessionIsRevocable
<1>1. AuthInv => LiveSessionIsRevocable
  <2> SUFFICES ASSUME AuthInv, ActiveSession # NoSession
               PROVE  /\ svc.cancellation = owner.generation
                      /\ owner.session.flag = owner.generation /\ ~svc.closed
                      /\ svc.state \notin {"signing_out", "signed_out"}
    BY DEF LiveSessionIsRevocable
  <2>1. owner.generation \notin canceled /\ owner.session # NoSession
    BY DEF ActiveSession
  <2>2. owner.session.flag = owner.generation /\ Holds(owner.generation)
    BY <2>1 DEF AuthInv, Flags, Publication, Held
  <2> QED BY <2>2 DEF Holds
<1> QED BY <1>1, AuthInvariant, PTL

(* A client that is told it is signed out has no login saved: what an      *)
(* exchange brings back after the sign-out is never written.               *)
THEOREM SignedOutIsAlwaysForgotten == Spec => []SignedOutIsForgotten
<1>1. AuthInv => SignedOutIsForgotten
  BY DEF AuthInv, Flags
<1> QED BY <1>1, AuthInvariant, PTL

(* The published session is never newer than the saved login.              *)
THEOREM AlwaysSavedBeforePublished == Spec => []SavedBeforePublished
<1>1. AuthInv => SavedBeforePublished
  BY DEF AuthInv, Flags, Publication, SavedBeforePublished
<1> QED BY <1>1, AuthInvariant, PTL

===============================================================================
