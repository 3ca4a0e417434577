--------------------------- MODULE EnrollmentProofs ---------------------------
(***************************************************************************)
(* Enrolment, for any number of devices, logins, operations, phrases and   *)
(* faults: the record the service accepted stays in the vault that made    *)
(* it, only the accepted record is ever active, and a prepared record is   *)
(* never replaced.                                                         *)
(***************************************************************************)
EXTENDS Enrollment, TLAPS

(* The message m is on its way for the exchange the daemon of d waits for. *)
Awaiting(d, m) ==
  /\ call[d] # None /\ call[d].ans = None
  /\ call[d].kind = IF m.kind = "verified" THEN "commit" ELSE m.kind

(* The daemon of d waits for nothing that could still come. *)
Listening(d) == call[d] = None \/ call[d].ans # None

Commits == {m \in wire : m.kind \in {"commit", "verified"}}

(* What the vault, the coordinator and the exchange of one device say of   *)
(* one another.                                                            *)
Follows(d, it, r, c, k) ==
  /\ r # None => /\ it # None /\ it.res # None /\ it.res.scope = r.rec.scope
                 /\ r.rec.by = d
                 /\ c # None => c.pending = None
  /\ c # None => /\ it # None /\ c.res = it.res
                 /\ c.pending # None => c.pending.by = d /\ c.pending.scope = c.res.scope
  /\ k # None => /\ k.kind = "reserve" => r = None /\ c = None /\ it # None /\ it.res = None
                 /\ k.kind = "renew" => c = None /\ it # None /\ it.res # None
                 /\ k.kind = "status" => c # None
                 /\ k.kind = "commit" => c # None /\ r # None /\ r.state = "prepared"

EachFollows == \A d \in Device : Follows(d, intent[d], row[d], mem[d], call[d])

(* A challenge has the number of its draw; the last one is in the row.     *)
DrawnInOrder ==
  /\ slot # None => slot.nonce = used.draw
  /\ \A d \in Device :
       /\ intent[d] # None /\ intent[d].res # None => intent[d].res.nonce <= used.draw
       /\ call[d] # None /\ call[d].ans # None /\ call[d].ans.res # None =>
             call[d].ans.res.nonce <= used.draw

(* A daemon waits for one answer, and one message is on its way for it.    *)
OneExchange ==
  /\ \A m \in wire : m.to # None => Awaiting(m.to, m)
  /\ \A m, n \in wire : m.to # None /\ m.to = n.to => m = n

(* What a commit on its way says is in the vault of the record's device;   *)
(* the one that is waited for has the challenge of the intent.             *)
CommitsAreKept ==
  \A m \in Commits :
    /\ m.rec # None
    /\ row[m.rec.by] # None /\ row[m.rec.by].rec = m.rec
    /\ m.nonce <= intent[m.rec.by].res.nonce
    /\ m.to # None => m.to = m.rec.by /\ m.nonce = intent[m.to].res.nonce

(* The record rec is not accepted, and no commit of it can be any more.    *)
Refuted(rec) ==
  IF root # None THEN root.rec # rec
  ELSE /\ slot # None
       /\ \A m \in Commits : m.rec = rec => m.nonce # slot.nonce \/ m.rec.scope # slot.scope

(* What an answer says is so: a reservation has come with a reservation, a *)
(* receipt is the accepted record, and a refused commit stays refused.     *)
AnswersAreTrue ==
  \A d \in Device : call[d] # None /\ call[d].ans # None =>
    /\ call[d].kind \in {"reserve", "renew"} /\ call[d].ans.code = "ok" => call[d].ans.res # None
    /\ call[d].ans.receipt # None => root # None /\ call[d].ans.receipt = root.rec
    /\ call[d].kind = "commit" =>
          /\ call[d].ans.code = "ok" => root # None /\ root.rec = row[d].rec
          /\ call[d].ans.code \in {"conflict", "invalid"} => Refuted(row[d].rec)

ConflictIsRefuted ==
  \A d \in Device : row[d] # None /\ row[d].state = "conflict" => Refuted(row[d].rec)

(* The accepted record was committed with the last challenge.              *)
AcceptedIsLast ==
  root # None => slot # None /\ intent[root.rec.by].res.nonce = slot.nonce

EnrollInv ==
  /\ TypeOK
  /\ EachFollows
  /\ DrawnInOrder
  /\ OneExchange
  /\ CommitsAreKept
  /\ AnswersAreTrue
  /\ ConflictIsRefuted
  /\ AcceptedIsLast
  /\ AcceptedIsKept

(* A prepared record and what it was prepared for stay as they are.        *)
KeepsTarget ==
  \A d \in Device : row[d] # None =>
    /\ row'[d] # None /\ row'[d].rec = row[d].rec
    /\ row[d].state # "prepared" => row'[d] = row[d]
    /\ intent'[d] # None /\ intent'[d].session = intent[d].session
    /\ intent'[d].op = intent[d].op /\ intent'[d].res.scope = intent[d].res.scope

-----------------------------------------------------------------------------
(* What each kind of step keeps. *)

(* A refuted record stays refuted: the accepted one does not change, a new *)
(* challenge is none of those sent before, and no commit of the record is  *)
(* sent again.                                                             *)
LEMMA RefutedStays ==
  ASSUME NEW rec, Refuted(rec),
         root # None => root' = root,
         root = None => \/ root' = None
                        \/ \E m \in Commits : /\ root'.rec = m.rec /\ m.nonce = slot.nonce
                                              /\ m.rec.scope = slot.scope,
         slot # None => slot' # None,
         \/ slot'.nonce = slot.nonce /\ slot'.scope = slot.scope
         \/ \A m \in Commits : m.nonce # slot'.nonce,
         \A m \in Commits' : m.rec = rec => \E n \in Commits : n.rec = rec /\ n.nonce = m.nonce
  PROVE  Refuted(rec)'
<1>1. CASE root # None
  BY <1>1 DEF Refuted
<1>2. CASE root = None
  <2>1. /\ slot # None
        /\ \A m \in Commits : m.rec = rec => m.nonce # slot.nonce \/ m.rec.scope # slot.scope
    BY <1>2 DEF Refuted
  <2>2. CASE root' # None
    BY <1>2, <2>1, <2>2 DEF Refuted
  <2>3. CASE root' = None
    <3>1. \A m \in Commits' : m.rec = rec => m.nonce # slot'.nonce \/ m.rec.scope # slot'.scope
      BY <2>1
    <3> QED BY <2>1, <2>3, <3>1 DEF Refuted
  <2> QED BY <2>2, <2>3
<1> QED BY <1>1, <1>2

(* The types that the other parts rest on. *)
LEMMA Types ==
  ASSUME EnrollInv
  PROVE  /\ slot # None => slot \in Slots
         /\ root # None => root \in Roots
         /\ used \in Bounds
         /\ \A m \in wire : m \in Messages
         /\ \A m \in Commits : m \in wire /\ m.rec \in Records /\ m.rec.by \in Device
         /\ \A d \in Device : /\ intent[d] # None => intent[d] \in Intents
                              /\ row[d] # None => row[d] \in Rows
                              /\ mem[d] # None => mem[d] \in Coordinators
                              /\ call[d] # None => call[d] \in Calls
<1>1. \A m \in Commits : m \in Messages /\ m.rec # None
  BY DEF EnrollInv, TypeOK, Commits, CommitsAreKept
<1>2. \A m \in Commits : m.rec \in Records
  BY <1>1 DEF Messages
<1> QED BY <1>2 DEF EnrollInv, TypeOK, Commits, Records

(* A step of the daemon of d, which changes its vault, coordinator and     *)
(* exchange and sends at most one message.                                 *)
LEMMA DaemonKeeps ==
  ASSUME EnrollInv, NEW d \in Device, Listening(d),
         NEW it \in Intents \union {None}, NEW r \in Rows \union {None},
         NEW c \in Coordinators \union {None}, NEW k \in Calls \union {None},
         NEW sent \in SUBSET Messages,
         intent' = [intent EXCEPT ![d] = it], row' = [row EXCEPT ![d] = r],
         mem' = [mem EXCEPT ![d] = c], call' = [call EXCEPT ![d] = k],
         wire' = wire \union sent, UNCHANGED <<service, session>>,
         used' \in Bounds, used'.draw = used.draw,
         Follows(d, it, r, c, k), k # None => k.ans = None,
         it # None /\ it.res # None => it.res.nonce <= used.draw,
         \A m, n \in sent : m = n,
         \A m \in sent : /\ m.to = d /\ k # None /\ m.kind = k.kind
                         /\ m.kind = "commit" => m.rec = r.rec /\ m.nonce = it.res.nonce,
         row[d] # None => /\ r # None /\ r.rec = row[d].rec
                          /\ row[d].state # "prepared" => r = row[d]
                          /\ it.session = intent[d].session /\ it.op = intent[d].op
                          /\ intent[d].res.nonce <= it.res.nonce,
         r # None /\ r.state = "active" => root # None /\ root.rec = r.rec,
         r # None /\ r.state = "conflict" => Refuted(r.rec)
  PROVE  EnrollInv' /\ KeepsTarget
<1>1. /\ \A e \in Device : intent'[e] = IF e = d THEN it ELSE intent[e]
      /\ \A e \in Device : row'[e] = IF e = d THEN r ELSE row[e]
      /\ \A e \in Device : mem'[e] = IF e = d THEN c ELSE mem[e]
      /\ \A e \in Device : call'[e] = IF e = d THEN k ELSE call[e]
      /\ slot' = slot /\ root' = root /\ alive' = alive /\ session' = session
  BY DEF EnrollInv, TypeOK, service
<1>2. None \notin Device
  BY EnrollmentAssumption
<1>3. EachFollows'
  <2> SUFFICES ASSUME NEW e \in Device
               PROVE  Follows(e, intent'[e], row'[e], mem'[e], call'[e])
    BY DEF EachFollows, Follows
  <2> QED BY <1>1 DEF EnrollInv, EachFollows
<1>4. TypeOK'
  <2>1. /\ intent' \in [Device -> Intents \union {None}] /\ row' \in [Device -> Rows \union {None}]
        /\ mem' \in [Device -> Coordinators \union {None}]
        /\ call' \in [Device -> Calls \union {None}] /\ wire' \subseteq Messages
    BY DEF EnrollInv, TypeOK
  <2>2. /\ slot' \in Slots \union {None} /\ root' \in Roots \union {None}
        /\ alive' \subseteq Sessions /\ session' \in [Device -> 0..MaxLogins]
    BY <1>1 DEF EnrollInv, TypeOK
  <2>3. \A e \in Device :
          /\ row'[e] # None => /\ intent'[e] # None /\ intent'[e].res # None
                               /\ intent'[e].res.scope = row'[e].rec.scope
          /\ mem'[e] # None => intent'[e] # None /\ mem'[e].res = intent'[e].res
    BY <1>3 DEF EachFollows, Follows
  <2> QED BY <2>1, <2>2, <2>3 DEF TypeOK
<1>5. DrawnInOrder'
  BY <1>1 DEF EnrollInv, DrawnInOrder
<1>6. OneExchange'
  <2>1. \A m \in wire : m.to # d
    BY <1>2 DEF EnrollInv, OneExchange, Awaiting, Listening
  <2>2. \A m \in sent : m.to = d /\ k # None /\ k.ans = None /\ m.kind = k.kind /\ m.kind # "verified"
    <3> TAKE m \in sent
    <3>1. k \in Calls
      OBVIOUS
    <3>2. k.kind # "verified"
      BY <3>1 DEF Calls, Kinds
    <3> QED BY <3>2
  <2>3. ASSUME NEW m \in wire', m.to # None PROVE Awaiting(m.to, m)'
    <3>1. CASE m \in sent
      BY <1>1, <2>2, <3>1 DEF Awaiting
    <3>2. CASE m \in wire
      <4>1. m.to \in Device /\ m.to # d
        BY <2>1, <2>3, <3>2, Types DEF Messages
      <4>2. Awaiting(m.to, m)
        BY <2>3, <3>2 DEF EnrollInv, OneExchange
      <4> QED BY <1>1, <4>1, <4>2 DEF Awaiting
    <3> QED BY <3>1, <3>2
  <2>4. ASSUME NEW m \in wire', NEW n \in wire', m.to # None, m.to = n.to PROVE m = n
    BY <2>1, <2>2, <2>4 DEF EnrollInv, OneExchange
  <2> QED BY <2>3, <2>4 DEF OneExchange
<1>7. ASSUME NEW m \in Commits'
      PROVE  /\ m \in Commits \/ m \in sent
             /\ m \in sent => /\ m.rec = r.rec /\ m.nonce = it.res.nonce /\ m.to = d
                              /\ r # None /\ r.state = "prepared"
  <2>1. m \in wire \union sent /\ m.kind \in {"commit", "verified"}
    BY DEF Commits
  <2>2. CASE m \in sent
    <3>1. k \in Calls /\ m.kind = k.kind
      BY <2>2
    <3>2. m.kind = "commit"
      BY <2>1, <3>1 DEF Calls, Kinds
    <3> QED BY <2>2, <3>1, <3>2 DEF Follows
  <2>3. CASE m \notin sent
    BY <2>1, <2>3 DEF Commits
  <2> QED BY <2>2, <2>3
<1>8. ASSUME NEW e \in Device, NEW rec, row[e] # None, rec = row[e].rec, Refuted(rec), e # d
      PROVE  Refuted(rec)'
  <2>1. \A m \in Commits' : m.rec = rec => m \in Commits
    <3> SUFFICES ASSUME NEW m \in Commits', m.rec = rec PROVE m \notin sent
      BY <1>7
    <3>1. rec.by = e
      BY <1>8 DEF EnrollInv, EachFollows, Follows
    <3>2. r # None => r.rec.by = d
      BY DEF Follows
    <3> QED BY <1>7, <1>8, <3>1, <3>2
  <2> QED BY <1>1, <1>8, <2>1, RefutedStays
<1>9. CommitsAreKept'
  <2> SUFFICES ASSUME NEW m \in Commits'
               PROVE  /\ m.rec # None
                      /\ row'[m.rec.by] # None /\ row'[m.rec.by].rec = m.rec
                      /\ m.nonce <= intent'[m.rec.by].res.nonce
                      /\ m.to # None => m.to = m.rec.by /\ m.nonce = intent'[m.to].res.nonce
    BY DEF CommitsAreKept
  <2>1. CASE m \in sent
    <3>1. r \in Rows /\ r.rec.by = d /\ it # None /\ it.res # None
      BY <1>7, <2>1 DEF Follows
    <3>2. it \in Intents /\ it.res \in Reservations /\ r.rec \in Records
      BY <3>1 DEF Intents, Rows
    <3>3. it.res.nonce \in Nat /\ r.rec # None
      BY <3>2, EnrollmentAssumption DEF Reservations
    <3> QED BY <1>1, <1>7, <2>1, <3>1, <3>3
  <2>2. CASE m \in Commits
    <3>1. /\ m.rec.by \in Device /\ m.rec # None
          /\ row[m.rec.by] # None /\ row[m.rec.by].rec = m.rec
          /\ m.nonce <= intent[m.rec.by].res.nonce
          /\ m.to # None => m.to = m.rec.by /\ m.nonce = intent[m.to].res.nonce
      BY <2>2, Types DEF EnrollInv, CommitsAreKept
    <3>2. m.to # d
      BY <1>2, <2>2 DEF Commits, EnrollInv, OneExchange, Awaiting, Listening
    <3>3. CASE m.rec.by # d
      BY <1>1, <3>1, <3>3
    <3>4. CASE m.rec.by = d
      <4>1. r # None /\ r.rec = m.rec /\ intent[d].res.nonce <= it.res.nonce
        BY <3>1, <3>4
      <4>2. m.nonce \in Nat
        BY <2>2, Types DEF Messages
      <4>3. intent[d].res \in Reservations /\ it.res \in Reservations
        BY <3>1, <3>4, <4>1, Types DEF Follows, EnrollInv, TypeOK, Intents
      <4>4. m.nonce <= it.res.nonce
        BY <3>1, <3>4, <4>1, <4>2, <4>3 DEF Reservations
      <4> QED BY <1>1, <3>1, <3>2, <3>4, <4>1, <4>4
    <3> QED BY <3>3, <3>4
  <2> QED BY <1>7, <2>1, <2>2
<1>10. AnswersAreTrue'
  <2> SUFFICES ASSUME NEW e \in Device, call'[e] # None, call'[e].ans # None
               PROVE  /\ call'[e].kind \in {"reserve", "renew"} /\ call'[e].ans.code = "ok" =>
                            call'[e].ans.res # None
                      /\ call'[e].ans.receipt # None => root' # None /\ call'[e].ans.receipt = root'.rec
                      /\ call'[e].kind = "commit" =>
                            /\ call'[e].ans.code = "ok" => root' # None /\ root'.rec = row'[e].rec
                            /\ call'[e].ans.code \in {"conflict", "invalid"} =>
                                  \A rec : rec = row'[e].rec => Refuted(rec)'
    BY DEF AnswersAreTrue, Refuted, Commits
  <2>1. e # d /\ call'[e] = call[e] /\ row'[e] = row[e]
    BY <1>1
  <2>2. call[e].kind = "commit" => row[e] # None
    BY <2>1 DEF EnrollInv, EachFollows, Follows
  <2> QED BY <1>1, <1>8, <2>1, <2>2 DEF EnrollInv, AnswersAreTrue
<1>11. ConflictIsRefuted'
  <2> SUFFICES ASSUME NEW e \in Device, NEW rec, row'[e] # None, row'[e].state = "conflict",
                      rec = row'[e].rec
               PROVE  Refuted(rec)'
    BY DEF ConflictIsRefuted, Refuted, Commits
  <2>1. CASE e # d
    BY <1>1, <1>8, <2>1 DEF EnrollInv, ConflictIsRefuted
  <2>2. CASE e = d
    <3>1. Refuted(rec) /\ row'[d] = r /\ r.state = "conflict"
      BY <1>1, <2>2
    <3>2. \A m \in Commits' : m \in Commits
      BY <1>7, <3>1
    <3> QED BY <1>1, <2>2, <3>1, <3>2, RefutedStays
  <2> QED BY <2>1, <2>2
<1>12. KeepsTarget
  <2> SUFFICES ASSUME NEW e \in Device, row[e] # None
               PROVE  /\ row'[e] # None /\ row'[e].rec = row[e].rec
                      /\ row[e].state # "prepared" => row'[e] = row[e]
                      /\ intent'[e] # None /\ intent'[e].session = intent[e].session
                      /\ intent'[e].op = intent[e].op
                      /\ intent'[e].res.scope = intent[e].res.scope
    BY DEF KeepsTarget
  <2>1. intent[e] # None /\ intent[e].res.scope = row[e].rec.scope
    BY DEF EnrollInv, EachFollows, Follows
  <2>2. CASE e # d
    BY <1>1, <2>1, <2>2
  <2>3. CASE e = d
    BY <1>1, <2>1, <2>3 DEF Follows
  <2> QED BY <2>2, <2>3
<1>13. AcceptedIsLast' /\ AcceptedIsKept'
  <2>1. \A e \in Device : row'[e] # None /\ row'[e].state = "active" =>
           root' # None /\ root'.rec = row'[e].rec
    BY <1>1 DEF EnrollInv, AcceptedIsKept
  <2>2. ASSUME root # None
        PROVE  /\ row'[root.rec.by] # None /\ row'[root.rec.by].rec = root.rec
               /\ row'[root.rec.by].state \in {"prepared", "active"}
               /\ intent'[root.rec.by].res.nonce = slot.nonce
    <3> DEFINE b == root.rec.by
    <3>1. b \in Device
      BY <2>2, Types DEF Roots, Records
    <3>2. /\ row[b] # None /\ row[b].rec = root.rec /\ row[b].state \in {"prepared", "active"}
          /\ slot # None /\ intent[b].res.nonce = slot.nonce
      BY <2>2 DEF EnrollInv, AcceptedIsKept, AcceptedIsLast
    <3> HIDE DEF b
    <3>3. CASE b # d
      BY <1>1, <3>1, <3>2, <3>3 DEF b
    <3>4. CASE b = d
      <4>1. r # None /\ r.rec = root.rec /\ intent[d].res.nonce <= it.res.nonce
        BY <3>2, <3>4
      <4>2. r \in Rows /\ r.state # "conflict"
        BY <2>2, <4>1 DEF Refuted
      <4>3. r.state \in {"prepared", "active"}
        BY <4>2 DEF Rows
      <4>4. it \in Intents /\ it.res \in Reservations
        BY <4>1 DEF Follows, Intents
      <4>5. it.res.nonce <= used.draw /\ slot.nonce = used.draw
        BY <3>2, <4>4, EnrollmentAssumption DEF EnrollInv, DrawnInOrder
      <4>6. it.res.nonce = slot.nonce
        <5>1. it.res.nonce \in Nat /\ slot.nonce \in Nat
          BY <3>2, <4>4, Types DEF Reservations, Slots
        <5> QED BY <3>2, <3>4, <4>1, <4>5, <5>1
      <4> QED BY <1>1, <3>4, <4>1, <4>3, <4>6 DEF b
    <3> QED BY <3>3, <3>4
  <2>3. AcceptedIsLast'
    BY <1>1, <2>2 DEF AcceptedIsLast, EnrollInv
  <2>4. root # None => /\ slot.op = root.op /\ slot.session = root.session
                       /\ slot.scope = root.rec.scope
    BY DEF EnrollInv, AcceptedIsKept
  <2> QED BY <1>1, <2>1, <2>2, <2>3, <2>4 DEF AcceptedIsKept
<1> QED
  BY <1>3, <1>4, <1>5, <1>6, <1>9, <1>10, <1>11, <1>12, <1>13 DEF EnrollInv

(* Vaults and coordinators stay as they are; the slot is unchanged,*)
(* expires or is drawn anew before anything is accepted; and what is       *)
(* accepted is a commit of the challenge in the slot.                      *)
ServiceMoves ==
  /\ UNCHANGED <<vault, mem>> /\ session' \in [Device -> 0..MaxLogins]
  /\ slot' \in Slots \union {None} /\ root' \in Roots \union {None} /\ alive' \subseteq Sessions
  /\ used' \in Bounds /\ used.draw <= used'.draw
  /\ slot # None => slot' # None
  /\ slot' # None => slot'.nonce = used'.draw
  /\ \/ /\ slot # None => /\ slot'.nonce = slot.nonce /\ slot'.scope = slot.scope
                          /\ slot'.op = slot.op /\ slot'.session = slot.session
        /\ slot = None => slot' = None
        /\ used'.draw = used.draw
     \/ used'.draw = used.draw + 1 /\ root = None /\ root' = None
  /\ \/ root' = root
     \/ /\ root = None /\ slot # None /\ slot' = slot
        /\ root'.op = slot.op /\ root'.session = slot.session
        /\ \E m \in Commits : /\ root'.rec = m.rec /\ m.nonce = slot.nonce
                              /\ m.rec.scope = slot.scope


(* A refuted record stays refuted when the service moves. *)
LEMMA ServiceRefutes ==
  ASSUME EnrollInv, ServiceMoves, NEW rec, Refuted(rec),
         \A m \in Commits' : \E n \in Commits : n.rec = m.rec /\ n.nonce = m.nonce
  PROVE  Refuted(rec)'
<1>1. ASSUME used'.draw = used.draw + 1, slot' # None, NEW m \in Commits PROVE m.nonce # slot'.nonce
  <2>1. m.rec.by \in Device /\ m.nonce <= intent[m.rec.by].res.nonce /\ row[m.rec.by] # None
    BY Types DEF EnrollInv, CommitsAreKept
  <2>2. intent[m.rec.by] # None /\ intent[m.rec.by].res # None
    BY <2>1 DEF EnrollInv, TypeOK
  <2>3. intent[m.rec.by].res.nonce <= used.draw
    BY <2>1, <2>2 DEF EnrollInv, DrawnInOrder
  <2>4. intent[m.rec.by].res \in Reservations
    BY <2>1, <2>2, Types DEF Intents
  <2>5. m.nonce \in Nat /\ used.draw \in Nat /\ intent[m.rec.by].res.nonce \in Nat
    BY <2>4, Types DEF Commits, Messages, Bounds, Reservations
  <2>6. slot'.nonce = used.draw + 1
    BY <1>1 DEF ServiceMoves
  <2> QED BY <2>1, <2>3, <2>5, <2>6
<1>2. CASE root # None
  BY <1>2, RefutedStays DEF ServiceMoves, Refuted
<1>3. CASE root = None
  <2>1. slot # None /\ slot' # None
    BY <1>3 DEF Refuted, ServiceMoves
  <2>2. \/ slot'.nonce = slot.nonce /\ slot'.scope = slot.scope
        \/ \A m \in Commits : m.nonce # slot'.nonce
    BY <1>1, <2>1 DEF ServiceMoves
  <2>3. root' = None \/ \E m \in Commits : /\ root'.rec = m.rec /\ m.nonce = slot.nonce
                                           /\ m.rec.scope = slot.scope
    BY <1>3 DEF ServiceMoves
  <2> QED BY <1>3, <2>1, <2>2, <2>3, RefutedStays
<1> QED BY <1>2, <1>3

(* Whatever the service does, the vaults keep to what it says. *)
LEMMA ServiceKeeps ==
  ASSUME EnrollInv, ServiceMoves,
         \A m \in Commits' : \E n \in Commits : n.rec = m.rec /\ n.nonce = m.nonce
  PROVE  /\ ConflictIsRefuted' /\ AcceptedIsLast' /\ AcceptedIsKept' /\ KeepsTarget
<1>1. UNCHANGED <<intent, row, mem>>
  BY DEF ServiceMoves, vault
<1>2. KeepsTarget
  BY <1>1 DEF KeepsTarget, EnrollInv, TypeOK
<1>3. ConflictIsRefuted'
  <2> SUFFICES ASSUME NEW e \in Device, NEW rec, row'[e] # None, row'[e].state = "conflict",
                      rec = row'[e].rec
               PROVE  Refuted(rec)'
    BY DEF ConflictIsRefuted, Refuted, Commits
  <2>1. Refuted(rec)
    BY <1>1 DEF EnrollInv, ConflictIsRefuted
  <2> QED BY <2>1, ServiceRefutes
<1>4. ASSUME root # None PROVE AcceptedIsLast' /\ AcceptedIsKept'
  <2>1. /\ root' = root /\ slot # None /\ slot' # None
        /\ slot'.nonce = slot.nonce /\ slot'.scope = slot.scope
        /\ slot'.op = slot.op /\ slot'.session = slot.session
    BY <1>4 DEF ServiceMoves, EnrollInv, AcceptedIsLast
  <2>2. AcceptedIsLast'
    BY <1>1, <1>4, <2>1 DEF EnrollInv, AcceptedIsLast
  <2>3. AcceptedIsKept'
    BY <1>1, <1>4, <2>1 DEF EnrollInv, AcceptedIsKept
  <2> QED BY <2>2, <2>3
<1>5. ASSUME root = None, root' = None PROVE AcceptedIsLast' /\ AcceptedIsKept'
  BY <1>1, <1>5 DEF EnrollInv, AcceptedIsLast, AcceptedIsKept
<1>6. ASSUME root = None, root' # None PROVE AcceptedIsLast' /\ AcceptedIsKept'
  <2>1. PICK m \in Commits : root'.rec = m.rec /\ m.nonce = slot.nonce /\ m.rec.scope = slot.scope
    BY <1>6 DEF ServiceMoves
  <2>2. /\ slot # None /\ slot' = slot
        /\ root'.op = slot.op /\ root'.session = slot.session
    BY <1>6 DEF ServiceMoves
  <2>3. /\ m.rec.by \in Device /\ row[m.rec.by] # None /\ row[m.rec.by].rec = m.rec
        /\ m.nonce <= intent[m.rec.by].res.nonce
    BY Types DEF EnrollInv, CommitsAreKept
  <2>4. intent[m.rec.by].res.nonce = slot.nonce
    <3>1. intent[m.rec.by] # None /\ intent[m.rec.by].res # None
      BY <2>3 DEF EnrollInv, TypeOK
    <3>2. intent[m.rec.by].res.nonce <= used.draw /\ slot.nonce = used.draw
      BY <2>2, <2>3, <3>1 DEF EnrollInv, DrawnInOrder
    <3>3. intent[m.rec.by].res \in Reservations
      BY <2>3, <3>1, Types DEF Intents
    <3>4. intent[m.rec.by].res.nonce \in Nat /\ slot.nonce \in Nat
      BY <2>2, <3>3, Types DEF Reservations, Slots
    <3> QED BY <2>1, <2>3, <3>2, <3>4
  <2>5. row[m.rec.by].state \in {"prepared", "active"}
    <3>1. row[m.rec.by] \in Rows
      BY <2>3, Types
    <3>2. row[m.rec.by].state # "conflict"
      BY <1>6, <2>1, <2>3 DEF EnrollInv, ConflictIsRefuted, Refuted
    <3> QED BY <3>1, <3>2 DEF Rows
  <2>6. \A e \in Device : row[e] # None => row[e].state # "active"
    BY <1>6 DEF EnrollInv, AcceptedIsKept
  <2>7. AcceptedIsLast'
    BY <1>1, <2>1, <2>2, <2>4 DEF AcceptedIsLast
  <2>8. AcceptedIsKept'
    BY <1>1, <1>6, <2>1, <2>2, <2>3, <2>5, <2>6 DEF AcceptedIsKept
  <2> QED BY <2>7, <2>8
<1> QED BY <1>2, <1>3, <1>4, <1>5, <1>6

(* The service takes m off the wire and answers a to whoever waits for it. *)
LEMMA AnswerKeeps ==
  ASSUME EnrollInv, ServiceMoves, NEW m \in wire, NEW a \in Answers, Answer(m, a),
         a.res # None => a.res.nonce <= used'.draw,
         a.receipt # None => root' # None /\ a.receipt = root'.rec,
         m.kind \in {"reserve", "renew"} /\ a.code = "ok" => a.res # None,
         m \in Commits => /\ a.code = "ok" => root' # None /\ root'.rec = m.rec
                          /\ a.code \in {"conflict", "invalid"} => Refuted(m.rec)
  PROVE  EnrollInv' /\ KeepsTarget
<1>1. UNCHANGED <<intent, row, mem>> /\ wire' = wire \ {m}
  BY DEF ServiceMoves, vault, Answer
<1>2. /\ None \notin Device /\ None \notin Answers /\ None \notin Calls
      /\ m \in Messages /\ m.to \in Device \union {None}
  BY EnrollmentAssumption, Types DEF Messages
<1>3. \A e \in Device : e # m.to => call'[e] = call[e]
  BY <1>2 DEF Answer, EnrollInv, TypeOK
<1>4. ASSUME m.to # None
      PROVE  /\ call[m.to] \in Calls /\ call'[m.to] \in Calls
             /\ call'[m.to].kind = call[m.to].kind /\ call'[m.to].ans = a
             /\ call[m.to].kind = IF m.kind = "verified" THEN "commit" ELSE m.kind
             /\ call[m.to].ans = None
  <2>1. Awaiting(m.to, m)
    BY <1>4 DEF EnrollInv, OneExchange
  <2>2. call[m.to] \in Calls
    BY <1>2, <1>4, <2>1, Types DEF Awaiting
  <2>3. call'[m.to] = [call[m.to] EXCEPT !.ans = a]
    BY <1>2, <1>4 DEF Answer, EnrollInv, TypeOK
  <2>4. /\ [call[m.to] EXCEPT !.ans = a] \in Calls
        /\ [call[m.to] EXCEPT !.ans = a].kind = call[m.to].kind
        /\ [call[m.to] EXCEPT !.ans = a].ans = a
    BY <2>2 DEF Calls
  <2> QED BY <2>1, <2>2, <2>3, <2>4 DEF Awaiting
<1>5. Commits' = Commits \ {m}
  BY <1>1 DEF Commits
<1>6. ConflictIsRefuted' /\ AcceptedIsLast' /\ AcceptedIsKept' /\ KeepsTarget
  BY <1>5, ServiceKeeps
<1>7. call' \in [Device -> Calls \union {None}]
  <2>1. \A e \in Device : call'[e] \in Calls \union {None}
    BY <1>2, <1>3, <1>4 DEF EnrollInv, TypeOK
  <2>2. CASE m.to = None
    BY <2>2 DEF Answer, EnrollInv, TypeOK
  <2>3. CASE m.to # None
    <3>1. call' = [call EXCEPT ![m.to].ans = a]
      BY <2>3 DEF Answer
    <3>2. call' = [call EXCEPT ![m.to] = call'[m.to]]
      BY <1>2, <2>3, <3>1 DEF EnrollInv, TypeOK
    <3> QED BY <1>4, <2>3, <3>2 DEF EnrollInv, TypeOK
  <2> QED BY <2>2, <2>3
<1>8. TypeOK'
  BY <1>1, <1>7 DEF EnrollInv, TypeOK, ServiceMoves
<1>9. EachFollows'
  <2> SUFFICES ASSUME NEW e \in Device
               PROVE  Follows(e, intent'[e], row'[e], mem'[e], call'[e])
    BY DEF EachFollows, Follows
  <2>1. Follows(e, intent[e], row[e], mem[e], call[e])
    BY DEF EnrollInv, EachFollows
  <2>2. CASE e # m.to
    BY <1>1, <1>3, <2>1, <2>2
  <2>3. CASE e = m.to
    <3>1. call[e] # None /\ call'[e].kind = call[e].kind
      BY <1>2, <1>4, <2>3
    <3> QED BY <1>1, <2>1, <3>1 DEF Follows
  <2> QED BY <2>2, <2>3
<1>10. DrawnInOrder'
  <2>1. used.draw \in Nat /\ used'.draw \in Nat /\ used.draw <= used'.draw
    BY Types DEF ServiceMoves, Bounds
  <2>2. ASSUME NEW e \in Device, intent'[e] # None, intent'[e].res # None
        PROVE  intent'[e].res.nonce <= used'.draw
    <3>1. intent[e].res.nonce <= used.draw
      BY <1>1, <2>2 DEF EnrollInv, DrawnInOrder
    <3>2. intent[e] \in Intents /\ intent[e].res \in Reservations
      BY <1>1, <2>2, Types DEF Intents
    <3>3. intent[e].res.nonce \in Nat
      BY <3>2 DEF Reservations
    <3> QED BY <1>1, <2>1, <3>1, <3>3
  <2>3. ASSUME NEW e \in Device, call'[e] # None, call'[e].ans # None, call'[e].ans.res # None
        PROVE  call'[e].ans.res.nonce <= used'.draw
    <3>1. CASE e = m.to
      BY <1>2, <1>4, <2>3, <3>1
    <3>2. CASE e # m.to
      <4>1. call'[e] = call[e] /\ call[e].ans.res.nonce <= used.draw
        BY <1>3, <2>3, <3>2 DEF EnrollInv, DrawnInOrder
      <4>2. call[e] \in Calls
        BY <2>3, <4>1, Types
      <4>3. call[e].ans \in Answers
        BY <2>3, <4>1, <4>2 DEF Calls
      <4>4. call[e].ans.res \in Reservations
        BY <2>3, <4>1, <4>3 DEF Answers
      <4> QED BY <2>1, <4>1, <4>4 DEF Reservations
    <3> QED BY <3>1, <3>2
  <2>4. slot' # None => slot'.nonce = used'.draw
    BY DEF ServiceMoves
  <2> QED BY <2>2, <2>3, <2>4 DEF DrawnInOrder
<1>11. OneExchange'
  <2>1. ASSUME NEW n \in wire', n.to # None PROVE Awaiting(n.to, n)'
    <3>1. n \in wire /\ n # m /\ n.to \in Device
      BY <1>1, <2>1, Types DEF Messages
    <3>2. n.to # m.to /\ Awaiting(n.to, n)
      BY <2>1, <3>1 DEF EnrollInv, OneExchange
    <3> QED BY <1>3, <3>1, <3>2 DEF Awaiting
  <2> QED BY <1>1, <2>1 DEF EnrollInv, OneExchange
<1>12. CommitsAreKept'
  BY <1>1, <1>5 DEF EnrollInv, CommitsAreKept
<1>13. AnswersAreTrue'
  <2> SUFFICES ASSUME NEW e \in Device, call'[e] # None, call'[e].ans # None
               PROVE  /\ call'[e].kind \in {"reserve", "renew"} /\ call'[e].ans.code = "ok" =>
                            call'[e].ans.res # None
                      /\ call'[e].ans.receipt # None => root' # None /\ call'[e].ans.receipt = root'.rec
                      /\ call'[e].kind = "commit" =>
                            /\ call'[e].ans.code = "ok" => root' # None /\ root'.rec = row'[e].rec
                            /\ call'[e].ans.code \in {"conflict", "invalid"} =>
                                  \A rec : rec = row'[e].rec => Refuted(rec)'
    BY DEF AnswersAreTrue, Refuted, Commits
  <2>1. CASE e # m.to
    <3>1. call'[e] = call[e] /\ row'[e] = row[e]
      BY <1>1, <1>3, <2>1
    <3>2. ASSUME NEW rec, Refuted(rec) PROVE Refuted(rec)'
      BY <1>5, <3>2, ServiceRefutes
    <3>3. root # None => root' = root
      BY DEF ServiceMoves
    <3> QED BY <3>1, <3>2, <3>3 DEF EnrollInv, AnswersAreTrue
  <2>2. CASE e = m.to
    <3>1. call'[e].ans = a /\ call'[e].kind = IF m.kind = "verified" THEN "commit" ELSE m.kind
      BY <1>2, <1>4, <2>2
    <3>2. ASSUME call'[e].kind = "commit"
          PROVE  m \in Commits /\ m.rec = row[e].rec
      <4>1. m \in Commits
        BY <3>1, <3>2 DEF Commits
      <4> QED BY <1>2, <2>2, <4>1 DEF EnrollInv, CommitsAreKept
    <3>3. ASSUME NEW rec, Refuted(rec) PROVE Refuted(rec)'
      BY <1>5, <3>3, ServiceRefutes
    <3> QED BY <1>1, <3>1, <3>2, <3>3
  <2> QED BY <2>1, <2>2
<1> QED BY <1>6, <1>8, <1>9, <1>10, <1>11, <1>12, <1>13 DEF EnrollInv

-----------------------------------------------------------------------------
(* The service. *)

(* The answers the service gives. *)
LEMMA AnswerForms ==
  /\ \A code \in {"ok", "unauthorized", "conflict", "expired", "invalid", "transient"} :
        /\ Reply(code) \in Answers
        /\ Reply(code).code = code /\ Reply(code).res = None /\ Reply(code).receipt = None
  /\ \A res \in Reservations :
        LET a == [Reply("ok") EXCEPT !.res = res]
        IN  a \in Answers /\ a.code = "ok" /\ a.res = res /\ a.receipt = None
  /\ \A rec \in Records :
        LET a == [Reply("ok") EXCEPT !.receipt = rec]
        IN  a \in Answers /\ a.code = "ok" /\ a.res = None /\ a.receipt = rec
BY DEF Reply, Answers

LEMMA ReservationType ==
  ASSUME NEW s \in Slots
  PROVE  /\ Reservation(s) \in Reservations /\ Reservation(s) # None
         /\ Reservation(s).nonce = s.nonce
<1>1. Reservation(s) \in Reservations /\ Reservation(s).nonce = s.nonce
  BY DEF Slots, Reservations, Reservation
<1> QED BY <1>1, EnrollmentAssumption

(* A bound that is used is still a bound. *)
LEMMA UseType ==
  ASSUME used \in Bounds
  PROVE  /\ \A bound \in {"login", "op", "phrase", "expiry", "fault"} :
               Use(bound) => used' \in Bounds /\ used'.draw = used.draw
         /\ Use("draw") => used' \in Bounds /\ used'.draw = used.draw + 1
BY DEF Use, Bounds

(* Only wire and exchanges change. *)
LEMMA ServiceStays ==
  ASSUME EnrollInv, UNCHANGED <<service, session, vault, mem, used>>
  PROVE  ServiceMoves
<1>1. used.draw \in Nat
  BY Types DEF Bounds
<1> QED BY <1>1 DEF ServiceMoves, EnrollInv, TypeOK, DrawnInOrder, service, vault

(* A refusal that is no verdict on a commit. *)
LEMMA RefusalKeeps ==
  ASSUME EnrollInv, ServiceMoves, NEW m \in wire,
         NEW code \in {"unauthorized", "conflict", "expired", "invalid"},
         Answer(m, Reply(code)),
         m \in Commits /\ code \in {"conflict", "invalid"} => Refuted(m.rec)
  PROVE  EnrollInv' /\ KeepsTarget
<1>1. /\ Reply(code) \in Answers /\ Reply(code).code = code
      /\ Reply(code).res = None /\ Reply(code).receipt = None
  BY AnswerForms
<1> QED BY <1>1, AnswerKeeps

(* The service answers with the reservation in the slot. *)
LEMMA OfferKeeps ==
  ASSUME EnrollInv, ServiceMoves, NEW m \in wire, m.kind \in {"reserve", "renew"},
         NEW s \in Slots, s.nonce <= used'.draw,
         Answer(m, [Reply("ok") EXCEPT !.res = Reservation(s)])
  PROVE  EnrollInv' /\ KeepsTarget
<1> DEFINE a == [Reply("ok") EXCEPT !.res = Reservation(s)]
<1>1. /\ Reservation(s) \in Reservations /\ Reservation(s) # None
      /\ Reservation(s).nonce = s.nonce
  BY ReservationType
<1>2. a \in Answers /\ a.code = "ok" /\ a.res = Reservation(s) /\ a.receipt = None
  BY <1>1, AnswerForms
<1>3. Answer(m, a) /\ m \notin Commits
  BY DEF Commits
<1> HIDE DEF a
<1> QED BY <1>1, <1>2, <1>3, AnswerKeeps

(* A new challenge, while nothing is accepted. *)
LEMMA DrawMoves ==
  ASSUME EnrollInv, root = None, NEW s \in Slots, s.nonce = used.draw + 1, slot' = s, Use("draw"),
         UNCHANGED <<alive, root, session, vault, mem>>
  PROVE  ServiceMoves /\ used'.draw = used.draw + 1
<1>1. used \in Bounds /\ used' \in Bounds /\ used'.draw = used.draw + 1
  BY UseType, Types
<1>2. used.draw \in Nat /\ None \notin Slots
  BY <1>1, EnrollmentAssumption DEF Bounds
<1> QED BY <1>1, <1>2 DEF ServiceMoves, EnrollInv, TypeOK

LEMMA ReserveKeeps ==
  ASSUME EnrollInv, NEW m \in wire, HandleReserve(m)
  PROVE  EnrollInv' /\ KeepsTarget
<1> DEFINE fresh == [session |-> m.session, op |-> m.op, scope |-> used.draw + 1,
                     nonce |-> used.draw + 1, live |-> TRUE]
<1>1. m \in Messages /\ used \in Bounds /\ used.draw \in Nat
  BY Types DEF Bounds
<1>2. m.kind = "reserve" /\ m \notin Commits
  BY DEF HandleReserve, Commits
<1>3. CASE ReserveVerdict(m) = "draw" /\ slot' = fresh /\ Use("draw")
           /\ Answer(m, [Reply("ok") EXCEPT !.res = Reservation(fresh)])
  <2>1. m.session \in alive /\ root = None
    BY <1>3 DEF ReserveVerdict
  <2>2. fresh \in Slots /\ fresh.nonce = used.draw + 1
    BY <1>1, <2>1 DEF Slots, Messages, EnrollInv, TypeOK
  <2> HIDE DEF fresh
  <2>3. ServiceMoves /\ used'.draw = used.draw + 1
    BY <1>3, <2>1, <2>2, DrawMoves DEF HandleReserve
  <2>4. fresh.nonce <= used'.draw
    BY <1>1, <2>2, <2>3
  <2> QED BY <1>2, <1>3, <2>2, <2>3, <2>4, OfferKeeps
<1>4. CASE UNCHANGED <<slot, used>> /\ ReserveVerdict(m) = "ok"
           /\ Answer(m, [Reply("ok") EXCEPT !.res = Reservation(slot)])
  <2>1. ServiceMoves
    BY <1>4, ServiceStays DEF HandleReserve, service
  <2>2. slot \in Slots
    BY <1>4, Types DEF ReserveVerdict
  <2>3. slot.nonce <= used'.draw
    BY <1>1, <1>4, <2>2, EnrollmentAssumption DEF EnrollInv, DrawnInOrder
  <2> QED BY <1>2, <1>4, <2>1, <2>2, <2>3, OfferKeeps
<1>5. CASE UNCHANGED <<slot, used>> /\ Answer(m, Reply(ReserveVerdict(m)))
           /\ ReserveVerdict(m) \in {"unauthorized", "conflict", "expired"}
  <2>1. ServiceMoves
    BY <1>5, ServiceStays DEF HandleReserve, service
  <2> QED BY <1>2, <1>5, <2>1, RefusalKeeps
<1> QED BY <1>3, <1>4, <1>5 DEF HandleReserve

LEMMA RenewedType ==
  ASSUME NEW s \in Slots, NEW n \in Nat, NEW b \in BOOLEAN
  PROVE  /\ [s EXCEPT !.nonce = n, !.live = b] \in Slots
         /\ [s EXCEPT !.nonce = n, !.live = b].nonce = n
BY DEF Slots

LEMMA RenewKeeps ==
  ASSUME EnrollInv, NEW m \in wire, HandleRenew(m)
  PROVE  EnrollInv' /\ KeepsTarget
<1> DEFINE fresh == [slot EXCEPT !.nonce = used.draw + 1, !.live = TRUE]
<1>1. m \in Messages /\ used \in Bounds /\ used.draw \in Nat
  BY Types DEF Bounds
<1>2. m.kind = "renew" /\ m \notin Commits
  BY DEF HandleRenew, Commits
<1>3. CASE RenewVerdict(m) = "draw" /\ slot' = fresh /\ Use("draw")
           /\ Answer(m, [Reply("ok") EXCEPT !.res = Reservation(fresh)])
  <2>1. slot # None /\ root = None
    BY <1>3 DEF RenewVerdict, Mine
  <2>2. slot \in Slots
    BY <2>1, Types
  <2>3. fresh \in Slots /\ fresh.nonce = used.draw + 1
    <3>1. used.draw + 1 \in Nat /\ TRUE \in BOOLEAN
      BY <1>1
    <3> QED BY <2>2, <3>1, RenewedType
  <2> HIDE DEF fresh
  <2>4. ServiceMoves /\ used'.draw = used.draw + 1
    BY <1>3, <2>1, <2>3, DrawMoves DEF HandleRenew
  <2>5. fresh.nonce <= used'.draw
    BY <1>1, <2>3, <2>4
  <2> QED BY <1>2, <1>3, <2>3, <2>4, <2>5, OfferKeeps
<1>4. CASE UNCHANGED <<slot, used>> /\ RenewVerdict(m) = "ok"
           /\ Answer(m, [Reply("ok") EXCEPT !.res = Reservation(slot)])
  <2>1. ServiceMoves
    BY <1>4, ServiceStays DEF HandleRenew, service
  <2>2. slot \in Slots
    BY <1>4, Types DEF RenewVerdict, Mine
  <2>3. slot.nonce <= used'.draw
    BY <1>1, <1>4, <2>2, EnrollmentAssumption DEF EnrollInv, DrawnInOrder
  <2> QED BY <1>2, <1>4, <2>1, <2>2, <2>3, OfferKeeps
<1>5. CASE UNCHANGED <<slot, used>> /\ Answer(m, Reply(RenewVerdict(m)))
           /\ RenewVerdict(m) \in {"unauthorized", "conflict"}
  <2>1. ServiceMoves
    BY <1>5, ServiceStays DEF HandleRenew, service
  <2> QED BY <1>2, <1>5, <2>1, RefusalKeeps
<1> QED BY <1>3, <1>4, <1>5 DEF HandleRenew

LEMMA StatusKeeps ==
  ASSUME EnrollInv, NEW m \in wire, HandleStatus(m)
  PROVE  EnrollInv' /\ KeepsTarget
<1>1. ServiceMoves /\ root' = root /\ used' = used
  BY ServiceStays DEF HandleStatus, service
<1>2. m \notin Commits /\ m.kind = "status"
  BY DEF HandleStatus, Commits
<1>3. CASE StatusVerdict(m) # "ok"
  <2>1. StatusVerdict(m) \in {"unauthorized", "expired"}
    BY <1>3 DEF StatusVerdict
  <2>2. Answer(m, Reply(StatusVerdict(m)))
    BY <1>3 DEF HandleStatus
  <2> QED BY <1>1, <1>2, <2>1, <2>2, RefusalKeeps
<1>4. CASE StatusVerdict(m) = "ok"
  <2> DEFINE a == [code |-> "ok", res |-> Reservation(slot),
                   receipt |-> IF Committed(m) THEN root.rec ELSE None]
  <2>1. slot \in Slots
    BY <1>4, Types DEF StatusVerdict, Mine
  <2>2. Reservation(slot) \in Reservations /\ Reservation(slot).nonce <= used'.draw
    <3>1. slot.nonce = used.draw /\ used.draw \in Nat
      BY <2>1, Types, EnrollmentAssumption DEF EnrollInv, DrawnInOrder, Bounds
    <3> QED BY <1>1, <2>1, <3>1, ReservationType
  <2>3. Committed(m) => root # None /\ root.rec \in Records
    BY Types DEF Committed, Roots
  <2>4. a \in Answers
    BY <2>2, <2>3 DEF Answers
  <2>5. Answer(m, a)
    BY <1>4 DEF HandleStatus
  <2>6. a.receipt # None => root # None /\ a.receipt = root.rec
    BY <2>3
  <2>7. a.res.nonce <= used'.draw
    BY <2>2
  <2> HIDE DEF a
  <2> QED BY <1>1, <1>2, <2>4, <2>5, <2>6, <2>7, AnswerKeeps
<1> QED BY <1>3, <1>4

(* A commit that does not fit the reservation is refused for good: its     *)
(* challenge has been replaced, and its sender has sent none since.        *)
LEMMA InvalidIsRefuted ==
  ASSUME EnrollInv, NEW m \in Commits, m.to # None, slot # None,
         m.nonce # slot.nonce \/ m.rec.scope # slot.scope
  PROVE  Refuted(m.rec)
<1> DEFINE b == m.rec.by
<1>1. /\ b \in Device /\ row[b] # None /\ row[b].rec = m.rec /\ m.nonce = intent[b].res.nonce
  BY Types DEF EnrollInv, CommitsAreKept
<1>2. intent[b] # None /\ intent[b].res # None /\ intent[b].res.nonce <= used.draw
  BY <1>1 DEF EnrollInv, TypeOK, DrawnInOrder
<1>3. slot.nonce = used.draw /\ slot.nonce \in Nat
  BY Types DEF EnrollInv, DrawnInOrder, Slots
<1>4. CASE root # None
  <2>1. root.rec = m.rec => slot.scope = m.rec.scope /\ intent[b].res.nonce = slot.nonce
    BY <1>4 DEF EnrollInv, AcceptedIsKept, AcceptedIsLast
  <2> QED BY <1>1, <1>4, <2>1 DEF Refuted
<1>5. CASE root = None
  <2> SUFFICES ASSUME NEW n \in Commits, n.rec = m.rec
               PROVE  n.nonce # slot.nonce \/ n.rec.scope # slot.scope
    BY <1>5 DEF Refuted
  <2>1. n.nonce <= intent[b].res.nonce
    BY DEF EnrollInv, CommitsAreKept
  <2>2. n.nonce \in Nat /\ m.nonce \in Nat
    BY Types DEF Messages
  <2> QED BY <1>1, <1>2, <1>3, <2>1, <2>2
<1> QED BY <1>4, <1>5

(* A verified commit goes on to the database. *)
LEMMA ForwardKeeps ==
  ASSUME EnrollInv, NEW m \in wire, m.kind = "commit",
         wire' = (wire \ {m}) \union {[m EXCEPT !.kind = "verified"]},
         UNCHANGED <<service, session, vault, mem, call, used>>
  PROVE  EnrollInv' /\ KeepsTarget
<1> DEFINE v == [m EXCEPT !.kind = "verified"]
<1>1. m \in Messages /\ m \in Commits
  BY Types DEF Commits
<1>2. /\ v \in Messages /\ v.kind = "verified"
      /\ v.to = m.to /\ v.rec = m.rec /\ v.nonce = m.nonce
  BY <1>1 DEF Messages
<1>3. wire' = (wire \ {m}) \union {v}
  OBVIOUS
<1>4. UNCHANGED <<alive, slot, root, session, intent, row, mem, call, used>>
  BY DEF service, vault
<1> HIDE DEF v
<1>5. Commits' = (Commits \ {m}) \union {v}
  BY <1>1, <1>2, <1>3 DEF Commits
<1>6. ServiceMoves
  BY ServiceStays
<1>7. \A x \in Commits' : \E y \in Commits : y.rec = x.rec /\ y.nonce = x.nonce
  BY <1>1, <1>2, <1>5
<1>8. ConflictIsRefuted' /\ AcceptedIsLast' /\ AcceptedIsKept' /\ KeepsTarget
  BY <1>6, <1>7, ServiceKeeps
<1>9. TypeOK' /\ EachFollows' /\ DrawnInOrder'
  BY <1>2, <1>3, <1>4 DEF EnrollInv, TypeOK, EachFollows, Follows, DrawnInOrder
<1>10. OneExchange'
  BY <1>2, <1>3, <1>4 DEF EnrollInv, OneExchange, Awaiting
<1>11. CommitsAreKept'
  BY <1>1, <1>2, <1>4, <1>5 DEF EnrollInv, CommitsAreKept
<1>12. AnswersAreTrue'
  <2>1. ASSUME NEW rec, Refuted(rec) PROVE Refuted(rec)'
    BY <1>6, <1>7, <2>1, ServiceRefutes
  <2> SUFFICES ASSUME NEW e \in Device, call'[e] # None, call'[e].ans # None
               PROVE  /\ call'[e].kind \in {"reserve", "renew"} /\ call'[e].ans.code = "ok" =>
                            call'[e].ans.res # None
                      /\ call'[e].ans.receipt # None => root' # None /\ call'[e].ans.receipt = root'.rec
                      /\ call'[e].kind = "commit" =>
                            /\ call'[e].ans.code = "ok" => root' # None /\ root'.rec = row'[e].rec
                            /\ call'[e].ans.code \in {"conflict", "invalid"} =>
                                  \A rec : rec = row'[e].rec => Refuted(rec)'
    BY DEF AnswersAreTrue, Refuted, Commits
  <2> QED BY <1>4, <2>1 DEF EnrollInv, AnswersAreTrue
<1> QED BY <1>8, <1>9, <1>10, <1>11, <1>12 DEF EnrollInv

LEMMA VerifyKeeps ==
  ASSUME EnrollInv, NEW m \in wire, VerifyCommit(m)
  PROVE  EnrollInv' /\ KeepsTarget
<1> DEFINE verdict == IF StatusVerdict(m) # "ok" THEN StatusVerdict(m)
                      ELSE IF m.nonce = slot.nonce /\ m.rec.scope = slot.scope
                           THEN "ok" ELSE "invalid"
<1>1. m \in Commits /\ m.kind = "commit"
  BY DEF VerifyCommit, Commits
<1>2. CASE verdict = "ok"
  BY <1>1, <1>2, ForwardKeeps DEF VerifyCommit
<1>3. CASE verdict # "ok"
  <2>1. Answer(m, Reply(verdict))
    BY <1>3 DEF VerifyCommit
  <2>2. verdict \in {"unauthorized", "expired", "invalid"}
    BY <1>3 DEF StatusVerdict
  <2>3. verdict = "invalid" => slot # None /\ (m.nonce # slot.nonce \/ m.rec.scope # slot.scope)
    BY DEF StatusVerdict, Mine
  <2>4. ServiceMoves
    BY ServiceStays DEF VerifyCommit
  <2> HIDE DEF verdict
  <2>5. CASE m.to # None
    <3>1. verdict = "invalid" => Refuted(m.rec)
      BY <1>1, <2>3, <2>5, InvalidIsRefuted
    <3> QED BY <2>1, <2>2, <2>4, <3>1, RefusalKeeps
  <2>6. CASE m.to = None
    \* nobody waits: the answer is anything
    <3>1. Answer(m, Reply("unauthorized"))
      BY <2>1, <2>6 DEF Answer
    <3> QED BY <2>4, <3>1, RefusalKeeps
  <2> QED BY <2>5, <2>6
<1> QED BY <1>2, <1>3

LEMMA CommitKeeps ==
  ASSUME EnrollInv, NEW m \in wire, HandleCommit(m)
  PROVE  EnrollInv' /\ KeepsTarget
<1>1. m \in Commits /\ m.rec \in Records /\ m \in Messages
  BY Types DEF HandleCommit, Commits
<1>2. None \notin Records
  BY EnrollmentAssumption
<1>3. CASE CommitVerdict(m) = "accept" /\ root' = [session |-> m.session, op |-> m.op, rec |-> m.rec]
           /\ Answer(m, [Reply("ok") EXCEPT !.receipt = m.rec])
  <2>1. /\ slot # None /\ slot.session = m.session /\ slot.op = m.op
        /\ slot.nonce = m.nonce /\ slot.scope = m.rec.scope /\ m.session \in alive /\ root = None
    BY <1>3 DEF CommitVerdict, Mine
  <2>2. root' \in Roots /\ root'.rec = m.rec /\ root'.op = m.op /\ root'.session = m.session
    BY <1>1, <1>3, <2>1 DEF Roots, Messages, EnrollInv, TypeOK
  <2>3. UNCHANGED <<alive, slot, session, vault, mem, used>>
    BY DEF HandleCommit
  <2>4. ServiceMoves
    <3>1. used.draw \in Nat
      BY Types DEF Bounds
    <3> QED
      BY <1>1, <2>1, <2>2, <2>3, <3>1 DEF ServiceMoves, EnrollInv, TypeOK, DrawnInOrder
  <2> DEFINE a == [Reply("ok") EXCEPT !.receipt = m.rec]
  <2>5. a \in Answers /\ a.code = "ok" /\ a.res = None /\ a.receipt = m.rec
    BY <1>1, AnswerForms
  <2>6. Answer(m, a)
    BY <1>3
  <2>7. root' # None
    BY <2>2, EnrollmentAssumption
  <2>8. m.kind = "verified"
    BY DEF HandleCommit
  <2> HIDE DEF a
  <2> QED BY <2>2, <2>4, <2>5, <2>6, <2>7, <2>8, AnswerKeeps
<1>4. CASE CommitVerdict(m) = "ok" /\ UNCHANGED root
           /\ Answer(m, [Reply("ok") EXCEPT !.receipt = root.rec])
  <2>1. root # None /\ root.rec = m.rec
    BY <1>4 DEF CommitVerdict
  <2> DEFINE a == [Reply("ok") EXCEPT !.receipt = m.rec]
  <2>2. a \in Answers /\ a.code = "ok" /\ a.res = None /\ a.receipt = m.rec
    BY <1>1, AnswerForms
  <2>3. Answer(m, a)
    BY <1>4, <2>1
  <2>4. ServiceMoves
    BY <1>4, ServiceStays DEF HandleCommit, service
  <2>5. m.kind = "verified"
    BY DEF HandleCommit
  <2> HIDE DEF a
  <2> QED BY <1>4, <2>1, <2>2, <2>3, <2>4, <2>5, AnswerKeeps
<1>5. CASE UNCHANGED root /\ Answer(m, Reply(CommitVerdict(m)))
           /\ CommitVerdict(m) \in {"unauthorized", "conflict", "expired"}
  <2>1. ServiceMoves
    BY <1>5, ServiceStays DEF HandleCommit, service
  <2>2. CommitVerdict(m) = "conflict" => Refuted(m.rec)
    <3> SUFFICES ASSUME CommitVerdict(m) = "conflict" PROVE Refuted(m.rec)
      OBVIOUS
    <3>1. Mine(m) /\ root # None /\ ~(Committed(m) /\ root.rec = m.rec)
      BY DEF CommitVerdict
    <3>2. slot.op = root.op /\ slot.session = root.session
      BY <3>1 DEF EnrollInv, AcceptedIsKept
    <3> QED BY <3>1, <3>2 DEF Mine, Committed, Refuted
  <2> QED BY <1>5, <2>1, <2>2, RefusalKeeps
<1> QED BY <1>3, <1>4, <1>5 DEF HandleCommit

LEMMA ServiceStep ==
  ASSUME EnrollInv, NEW m \in wire, Handle(m)
  PROVE  EnrollInv' /\ KeepsTarget
BY ReserveKeeps, RenewKeeps, StatusKeeps, VerifyKeeps, CommitKeeps DEF Handle

-----------------------------------------------------------------------------
(* The daemon. *)

(* The intent it, the record r and the coordinator c may become those of d.*)
Sane(d, it, r, c) ==
  /\ it \in Intents \union {None} /\ r \in Rows \union {None} /\ c \in Coordinators \union {None}
  /\ Follows(d, it, r, c, None)
  /\ it # None /\ it.res # None => it.res.nonce <= used.draw
  /\ row[d] # None => /\ r # None /\ r.rec = row[d].rec
                      /\ row[d].state # "prepared" => r = row[d]
                      /\ it.session = intent[d].session /\ it.op = intent[d].op
                      /\ intent[d].res.nonce <= it.res.nonce
  /\ r # None /\ r.state = "active" => root # None /\ root.rec = r.rec
  /\ r # None /\ r.state = "conflict" => Refuted(r.rec)

Becomes(d, it, r, c) ==
  /\ intent' = [intent EXCEPT ![d] = it] /\ row' = [row EXCEPT ![d] = r]
  /\ mem' = [mem EXCEPT ![d] = c]
  /\ UNCHANGED <<service, session>> /\ used' \in Bounds /\ used'.draw = used.draw

(* The exchange k begins with what is sent, or there is none. *)
Exchanges(d, it, r, k, sent) ==
  /\ k \in Calls \union {None} /\ sent \in SUBSET Messages
  /\ call' = [call EXCEPT ![d] = k] /\ wire' = wire \union sent
  /\ k # None => k.ans = None
  /\ \A m, n \in sent : m = n
  /\ \A m \in sent : /\ m.to = d /\ k # None /\ m.kind = k.kind
                     /\ m.kind = "commit" => m.rec = r.rec /\ m.nonce = it.res.nonce

Requests == {"begin", "overview", "confirm", "cancel"}

LEMMA ExchangeKeeps ==
  ASSUME EnrollInv, NEW d \in Device, Listening(d), NEW it, NEW r, NEW c, NEW k, NEW sent,
         Sane(d, it, r, c), Becomes(d, it, r, c), Exchanges(d, it, r, k, sent),
         Follows(d, it, r, c, k)
  PROVE  EnrollInv' /\ KeepsTarget
BY DaemonKeeps DEF Sane, Becomes, Exchanges

(* The exchange is over. *)
LEMMA DoneKeeps ==
  ASSUME EnrollInv, NEW d \in Device, Listening(d), NEW it, NEW r, NEW c,
         Sane(d, it, r, c), Becomes(d, it, r, c), Done(d)
  PROVE  EnrollInv' /\ KeepsTarget
<1>1. call' = [call EXCEPT ![d] = None] /\ wire' = wire \union {}
  BY DEF Done
<1>2. {} \in SUBSET Messages /\ None \in Calls \union {None}
  OBVIOUS
<1>3. Follows(d, it, r, c, None)
  BY DEF Sane
<1> QED BY <1>1, <1>2, <1>3, DaemonKeeps DEF Sane, Becomes

(* A new exchange begins. *)
LEMMA SendKeeps ==
  ASSUME EnrollInv, NEW d \in Device, Listening(d), NEW it, NEW r, NEW c,
         Sane(d, it, r, c), Becomes(d, it, r, c),
         NEW req \in Requests, NEW kind \in Kinds, NEW op \in 1..MaxOps, NEW nonce \in Nat,
         NEW rec \in Records \union {None}, Send(d, req, kind, op, nonce, rec),
         kind = "reserve" => r = None /\ c = None /\ it # None /\ it.res = None,
         kind = "renew" => c = None /\ it # None /\ it.res # None,
         kind = "status" => c # None,
         kind = "commit" => /\ c # None /\ r # None /\ r.state = "prepared"
                            /\ rec = r.rec /\ nonce = it.res.nonce
  PROVE  EnrollInv' /\ KeepsTarget
<1> DEFINE k == [req |-> req, kind |-> kind, session |-> session[d], ans |-> None]
           m == [kind |-> kind, to |-> d, session |-> session[d],
                 op |-> op, nonce |-> nonce, rec |-> rec]
<1>1. session[d] \in 0..MaxLogins
  BY DEF EnrollInv, TypeOK
<1>2. k \in Calls /\ k.kind = kind /\ k.ans = None
  BY <1>1 DEF Calls, Requests
<1>3. m \in Messages /\ m.kind = kind /\ m.to = d /\ m.rec = rec /\ m.nonce = nonce
  BY <1>1 DEF Messages
<1>4. call' = [call EXCEPT ![d] = k] /\ wire' = wire \union {m}
  BY DEF Send
<1> HIDE DEF k, m
<1>5. k \in Calls \union {None} /\ k # None /\ {m} \in SUBSET Messages
  BY <1>2, <1>3, EnrollmentAssumption
<1>6. Follows(d, it, r, c, k)
  BY <1>2 DEF Sane, Follows
<1>7. \A x \in {m} : /\ x.to = d /\ k # None /\ x.kind = k.kind
                     /\ x.kind = "commit" => x.rec = r.rec /\ x.nonce = it.res.nonce
  BY <1>2, <1>3, <1>5
<1>8. \A x, y \in {m} : x = y
  OBVIOUS
<1>9. Exchanges(d, it, r, k, {m})
  BY <1>2, <1>4, <1>5, <1>7, <1>8 DEF Exchanges
<1> QED BY <1>6, <1>9, ExchangeKeeps

(* What a device has is sane, with its coordinator or without it. *)
LEMMA SaneNow ==
  ASSUME EnrollInv, NEW d \in Device
  PROVE  Sane(d, intent[d], row[d], mem[d]) /\ Sane(d, intent[d], row[d], None)
<1>1. /\ intent[d] \in Intents \union {None} /\ row[d] \in Rows \union {None}
      /\ mem[d] \in Coordinators \union {None}
  BY DEF EnrollInv, TypeOK
<1>2. Follows(d, intent[d], row[d], mem[d], None) /\ Follows(d, intent[d], row[d], None, None)
  BY DEF EnrollInv, EachFollows, Follows
<1>3. intent[d] # None /\ intent[d].res # None => intent[d].res.nonce <= used.draw
  BY DEF EnrollInv, DrawnInOrder
<1>4. row[d] # None => intent[d].res.nonce <= intent[d].res.nonce
  <2> SUFFICES ASSUME row[d] # None PROVE intent[d].res.nonce \in Nat
    OBVIOUS
  <2>1. intent[d] \in Intents /\ intent[d].res # None
    BY <1>1, <1>2 DEF Follows
  <2>2. intent[d].res \in Reservations
    BY <2>1 DEF Intents
  <2> QED BY <2>2 DEF Reservations
<1>5. /\ row[d] # None /\ row[d].state = "active" => root # None /\ root.rec = row[d].rec
      /\ row[d] # None /\ row[d].state = "conflict" => Refuted(row[d].rec)
  BY DEF EnrollInv, AcceptedIsKept, ConflictIsRefuted
<1> QED BY <1>1, <1>2, <1>3, <1>4, <1>5 DEF Sane

(* The coordinator may be given up, or its phrase forgotten. *)
LEMMA SaneDrops ==
  ASSUME NEW d, NEW it, NEW r, NEW c, c # None, Sane(d, it, r, c)
  PROVE  /\ Sane(d, it, r, None)
         /\ Sane(d, it, r, [c EXCEPT !.pending = None])
<1>1. Sane(d, it, r, None)
  BY DEF Sane, Follows
<1>2. c \in Coordinators
  BY DEF Sane
<1> DEFINE c2 == [c EXCEPT !.pending = None]
<1>3. c2 \in Coordinators /\ c2.res = c.res /\ c2.pending = None
  BY <1>2 DEF Coordinators
<1> HIDE DEF c2
<1>4. Sane(d, it, r, c2)
  BY <1>3 DEF Sane, Follows
<1> QED BY <1>1, <1>4 DEF c2

(* The bounds of a step that draws nothing. *)
LEMMA StepBounds ==
  ASSUME EnrollInv
  PROVE  /\ used' = used => used' \in Bounds /\ used'.draw = used.draw
         /\ \A bound \in {"login", "op", "phrase", "expiry", "fault"} :
               Use(bound) => used' \in Bounds /\ used'.draw = used.draw
BY UseType, Types

(* Functions that keep their value at d. *)
LEMMA SameValue ==
  ASSUME EnrollInv, NEW d \in Device
  PROVE  /\ row' = row => row' = [row EXCEPT ![d] = row[d]]
         /\ mem' = mem => mem' = [mem EXCEPT ![d] = mem[d]]
         /\ intent' = intent => intent' = [intent EXCEPT ![d] = intent[d]]
BY DEF EnrollInv, TypeOK

(* The request reaches the coordinator c. *)
LEMMA ContinueKeeps ==
  ASSUME EnrollInv, NEW d \in Device, Listening(d), NEW req \in Requests, NEW it \in Intents,
         NEW c \in Coordinators, Sane(d, it, row[d], c), Continue(d, req, it, c),
         UNCHANGED <<service, session, used>>
  PROVE  EnrollInv' /\ KeepsTarget
<1>1. /\ used' \in Bounds /\ used'.draw = used.draw /\ c # None /\ it # None
      /\ c.res = it.res /\ it.res \in Reservations
  BY StepBounds, EnrollmentAssumption DEF Sane, Follows, Coordinators
<1>2. it.res.op \in 1..MaxOps /\ it.res.nonce \in Nat
  BY <1>1 DEF Reservations
<1>3. Sane(d, it, row[d], None) /\ Sane(d, it, row[d], [c EXCEPT !.pending = None])
  BY <1>1, SaneDrops
<1>4. ASSUME Keep(d, it), UNCHANGED row, Fail(d, c) PROVE EnrollInv' /\ KeepsTarget
  <2>1. PICK x \in {c, None} : mem' = [mem EXCEPT ![d] = x] /\ Done(d)
    BY <1>4 DEF Fail
  <2>2. Becomes(d, it, row[d], x)
    BY <1>1, <1>4, <2>1, SameValue DEF Becomes, Keep
  <2>3. Sane(d, it, row[d], x)
    BY <1>3
  <2> QED BY <2>1, <2>2, <2>3, DoneKeeps
<1>5. CASE Keep(d, it) /\ UNCHANGED row /\ mem' = [mem EXCEPT ![d] = c] /\ SendStatus(d, req, c)
  <2>1. Becomes(d, it, row[d], c)
    BY <1>1, <1>5, SameValue DEF Becomes, Keep
  <2>2. Send(d, req, "status", it.res.op, 0, None)
    BY <1>1, <1>5 DEF SendStatus
  <2>3. "status" \in Kinds /\ 0 \in Nat /\ None \in Records \union {None}
    BY DEF Kinds
  <2> QED BY <1>1, <1>2, <2>1, <2>2, <2>3, SendKeeps
<1>6. CASE Keep(d, it) /\ UNCHANGED row /\ Done(d)
           /\ mem' = [mem EXCEPT ![d] = [c EXCEPT !.pending = None]]
  <2>1. Becomes(d, it, row[d], [c EXCEPT !.pending = None])
    BY <1>1, <1>6, SameValue DEF Becomes, Keep
  <2> QED BY <1>3, <1>6, <2>1, DoneKeeps
<1>7. CASE /\ Keep(d, it) /\ c.pending # None
           /\ row' = [row EXCEPT ![d] = [rec |-> c.pending, state |-> "prepared"]]
           /\ IF c.session = session[d]
              THEN /\ mem' = [mem EXCEPT ![d] = [c EXCEPT !.pending = None]]
                   /\ SendCommit(d, c, c.pending)
              ELSE mem' = [mem EXCEPT ![d] = None] /\ Done(d)
  <2> DEFINE r == [rec |-> c.pending, state |-> "prepared"]
             c2 == [c EXCEPT !.pending = None]
  <2>1. /\ row[d] = None /\ c.pending \in Records /\ c.pending.by = d
        /\ c.pending.scope = it.res.scope
    BY <1>1, <1>7 DEF Sane, Follows, Coordinators
  <2>2. r \in Rows /\ r.rec = c.pending /\ r.state = "prepared"
    BY <2>1 DEF Rows
  <2>3. c2 \in Coordinators /\ c2.res = it.res /\ c2.pending = None
    BY <1>1 DEF Coordinators
  <2>4. row' = [row EXCEPT ![d] = r]
    BY <1>7
  <2> HIDE DEF r, c2
  <2>5. c2 # None /\ r # None /\ it.res # None
    BY <1>1, <2>2, <2>3, EnrollmentAssumption
  <2>6. Sane(d, it, r, c2) /\ Sane(d, it, r, None)
    BY <1>1, <2>1, <2>2, <2>3, <2>5 DEF Sane, Follows
  <2>7. CASE c.session = session[d]
    <3>1. Becomes(d, it, r, c2)
      BY <1>1, <1>7, <2>4, <2>7 DEF Becomes, Keep, c2
    <3>2. Send(d, "confirm", "commit", it.res.op, it.res.nonce, r.rec)
      BY <1>1, <1>7, <2>2, <2>7 DEF SendCommit
    <3>3. "confirm" \in Requests /\ "commit" \in Kinds /\ r.rec \in Records \union {None}
      BY <2>1, <2>2 DEF Requests, Kinds
    <3> QED BY <1>2, <2>2, <2>5, <2>6, <3>1, <3>2, <3>3, SendKeeps
  <2>8. CASE c.session # session[d]
    <3>1. Becomes(d, it, r, None) /\ Done(d)
      BY <1>1, <1>7, <2>4, <2>8 DEF Becomes, Keep
    <3> QED BY <2>6, <3>1, DoneKeeps
  <2> QED BY <2>7, <2>8
<1>8. CASE /\ Cancelled(d, req, c) /\ Keep(d, None) /\ mem' = [mem EXCEPT ![d] = None]
           /\ Done(d) /\ UNCHANGED row
  <2>1. row[d] = None
    BY <1>8 DEF Cancelled
  <2>2. Becomes(d, None, row[d], None)
    BY <1>1, <1>8, SameValue DEF Becomes, Keep
  <2>3. Sane(d, None, row[d], None)
    BY <2>1 DEF Sane, Follows
  <2> QED BY <1>8, <2>2, <2>3, DoneKeeps
<1>9. CASE Proceed(d, req, c) /\ Keep(d, it)
  BY <1>4, <1>5, <1>6, <1>7, <1>9 DEF Proceed
<1> QED BY <1>8, <1>9 DEF Continue

(* The coordinator made of a reservation has no phrase yet. *)
LEMMA FreshCoordinator ==
  ASSUME EnrollInv, NEW d \in Device, NEW it \in Intents, it.res \in Reservations,
         Sane(d, it, row[d], None)
  PROVE  /\ Coordinator(d, it.res) \in Coordinators
         /\ Sane(d, it, row[d], Coordinator(d, it.res))
<1> DEFINE c == Coordinator(d, it.res)
<1>1. c \in Coordinators /\ c.res = it.res /\ c.pending = None
  BY DEF Coordinator, Coordinators, EnrollInv, TypeOK
<1>2. it # None
  BY EnrollmentAssumption
<1> HIDE DEF c
<1>3. Sane(d, it, row[d], c)
  BY <1>1, <1>2 DEF Sane, Follows
<1> QED BY <1>1, <1>3 DEF c

(* A daemon without a coordinator finds the reservation of its intent, or  *)
(* makes both.                                                             *)
LEMMA ConnectKeeps ==
  ASSUME EnrollInv, NEW d \in Device, Listening(d), NEW req \in Requests, NEW it,
         it = intent[d] \/ (it = None /\ row[d] = None), Connect(d, req, it),
         UNCHANGED <<service, session>>
  PROVE  EnrollInv' /\ KeepsTarget
<1>1. /\ Sane(d, it, row[d], None)
      /\ it = None => row[d] = None
      /\ row[d] # None => it # None /\ it.res # None
  BY SaneNow DEF Sane, Follows
<1>2. it # None => it \in Intents
  BY Types
<1>3. CASE it = None /\ session[d] # 0 /\ Reserve(d, req) /\ mem' = [mem EXCEPT ![d] = None]
           /\ UNCHANGED row
  <2> DEFINE new == [session |-> session[d], op |-> used.op + 1, res |-> None]
  <2>1. used.op + 1 \in 1..MaxOps /\ session[d] \in Sessions
    <3>1. session[d] \in 0..MaxLogins /\ used.op \in Nat /\ used.op < MaxOps
      BY <1>3, Types DEF Reserve, EnrollInv, TypeOK, Bounds
    <3> QED BY <1>3, <3>1, EnrollmentAssumption DEF Sessions
  <2>2. new \in Intents /\ new.res = None
    BY <2>1 DEF Intents
  <2>3. Becomes(d, new, row[d], None)
    BY <1>3, StepBounds, SameValue DEF Becomes, Reserve, Keep
  <2>4. Send(d, req, "reserve", used.op + 1, 0, None)
    BY <1>3 DEF Reserve
  <2> HIDE DEF new
  <2>5. Sane(d, new, row[d], None)
    BY <1>1, <1>3, <2>2 DEF Sane, Follows
  <2>6. new # None /\ "reserve" \in Kinds /\ 0 \in Nat /\ None \in Records \union {None}
    BY <2>2, EnrollmentAssumption DEF Kinds
  <2>7. PICK op \in 1..MaxOps : Send(d, req, "reserve", op, 0, None)
    BY <2>1, <2>4
  <2>8. row[d] = None
    BY <1>1, <1>3
  <2>9. PICK kind \in Kinds : kind = "reserve" /\ Send(d, req, kind, op, 0, None)
    BY <2>6, <2>7
  <2>10. kind # "renew" /\ kind # "status" /\ kind # "commit"
    BY <2>9
  <2> QED BY <2>2, <2>3, <2>5, <2>6, <2>8, <2>9, <2>10, SendKeeps
<1>4. CASE Keep(d, it) /\ mem' = [mem EXCEPT ![d] = None] /\ Done(d) /\ UNCHANGED <<row, used>>
  <2>1. Becomes(d, it, row[d], None)
    BY <1>4, StepBounds, SameValue DEF Becomes, Keep
  <2> QED BY <1>1, <1>4, <2>1, DoneKeeps
<1>5. CASE /\ it # None /\ Keep(d, it) /\ mem' = [mem EXCEPT ![d] = None] /\ UNCHANGED <<row, used>>
           /\ Send(d, req, IF it.res = None THEN "reserve" ELSE "renew", it.op, 0, None)
  <2>1. Becomes(d, it, row[d], None)
    BY <1>5, StepBounds, SameValue DEF Becomes, Keep
  <2>2. it.op \in 1..MaxOps
    BY <1>2, <1>5 DEF Intents
  <2>3. PICK kind \in Kinds : /\ kind = IF it.res = None THEN "reserve" ELSE "renew"
                              /\ Send(d, req, kind, it.op, 0, None)
    BY <1>5 DEF Kinds
  <2>4. None \in Records \union {None} /\ 0 \in Nat
    OBVIOUS
  <2>5. kind = "reserve" => row[d] = None /\ it.res = None
    BY <1>1, <2>3
  <2>6. kind = "renew" => it.res # None
    BY <2>3
  <2>7. kind # "status" /\ kind # "commit"
    BY <2>3
  <2> QED BY <1>1, <1>5, <2>1, <2>2, <2>3, <2>4, <2>5, <2>6, <2>7, SendKeeps
<1>6. CASE /\ it # None /\ it.res # None /\ Continue(d, req, it, Coordinator(d, it.res))
           /\ UNCHANGED used
  <2>1. it \in Intents /\ it.res \in Reservations
    BY <1>2, <1>6 DEF Intents
  <2>2. /\ Coordinator(d, it.res) \in Coordinators
        /\ Sane(d, it, row[d], Coordinator(d, it.res))
    BY <1>1, <2>1, FreshCoordinator
  <2> QED BY <1>6, <2>1, <2>2, ContinueKeeps
<1> QED BY <1>3, <1>4, <1>5, <1>6 DEF Connect

LEMMA ExecuteKeeps ==
  ASSUME EnrollInv, NEW d \in Device, Listening(d), NEW req \in Requests, NEW it, NEW c,
         \/ it = intent[d] /\ c = mem[d]
         \/ it = None /\ c = None /\ row[d] = None,
         Execute(d, req, it, c), UNCHANGED <<service, session>>
  PROVE  EnrollInv' /\ KeepsTarget
<1>1. CASE c = None
  BY <1>1, ConnectKeeps DEF Execute
<1>2. CASE c # None
  <2>1. it = intent[d] /\ c = mem[d] /\ c \in Coordinators
    BY <1>2, Types
  <2>2. it \in Intents /\ Sane(d, it, row[d], c)
    BY <1>2, <2>1, Types, SaneNow DEF EnrollInv, TypeOK
  <2> QED BY <1>2, <2>1, <2>2, ContinueKeeps DEF Execute
<1> QED BY <1>1, <1>2

(* The requests of the desktop. *)
LEMMA RequestKeeps ==
  ASSUME EnrollInv, NEW d \in Device, Begin(d) \/ Overview(d) \/ Confirm(d) \/ Cancel(d)
  PROVE  EnrollInv' /\ KeepsTarget
<1>1. Listening(d) /\ UNCHANGED <<service, session>>
  BY DEF Begin, Overview, Confirm, Cancel, Listening
<1>2. PICK req \in Requests :
        \/ Execute(d, req, intent[d], mem[d])
        \/ Execute(d, req, None, None) /\ row[d] = None
  BY DEF Begin, Overview, Confirm, Cancel, Requests, Stale
<1> QED BY <1>1, <1>2, ExecuteKeeps

LEMMA PhraseExpiresKeeps ==
  ASSUME EnrollInv, NEW d \in Device, PhraseExpires(d)
  PROVE  EnrollInv' /\ KeepsTarget
<1> DEFINE c == [mem[d] EXCEPT !.pending = None]
<1>1. Listening(d) /\ mem[d] # None
  BY DEF PhraseExpires, Listening
<1>2. Sane(d, intent[d], row[d], c)
  BY <1>1, SaneNow, SaneDrops
<1>3. mem' = [mem EXCEPT ![d] = c]
  BY DEF PhraseExpires, EnrollInv, TypeOK
<1>4. Becomes(d, intent[d], row[d], c)
  BY <1>3, StepBounds, SameValue DEF PhraseExpires, Becomes, vault
<1>5. Done(d)
  BY DEF PhraseExpires, Done, EnrollInv, TypeOK
<1> HIDE DEF c
<1> QED BY <1>1, <1>2, <1>4, <1>5, DoneKeeps

-----------------------------------------------------------------------------
(* Answers. *)

(* An answer that is heard as a verdict is the one that came. *)
LEMMA HeardAnswer ==
  ASSUME EnrollInv, NEW d \in Device, NEW kind \in Kinds, Waits(d, kind)
  PROVE  /\ Listening(d) /\ call[d] \in Calls /\ call[d].ans \in Answers /\ call[d].kind = kind
         /\ call[d].req \in Requests
         /\ Heard(d) \in Answers
         /\ Heard(d).code # "unauthorized" => Heard(d) = call[d].ans
         /\ Heard(d).code = "unauthorized" => Heard(d).receipt = call[d].ans.receipt \/ Heard(d).receipt = None
<1>1. Listening(d) /\ call[d] \in Calls /\ call[d].kind = kind /\ call[d].ans # None
  BY Types DEF Waits, Listening
<1>2. call[d].ans \in Answers /\ call[d].req \in Requests
  BY <1>1 DEF Calls, Requests
<1>3. Heard(d) = call[d].ans \/ Heard(d) = Reply("unauthorized")
  BY DEF Heard
<1>4. /\ Reply("unauthorized") \in Answers /\ Reply("unauthorized").code = "unauthorized"
      /\ Reply("unauthorized").receipt = None
  BY AnswerForms
<1> QED BY <1>1, <1>2, <1>3, <1>4

(* The reservation that came is kept in the intent. *)
LEMMA HeldIntent ==
  ASSUME EnrollInv, NEW d \in Device, NEW res \in Reservations, intent[d] # None,
         res.nonce <= used.draw,
         row[d] # None => res.scope = intent[d].res.scope /\ intent[d].res.nonce <= res.nonce
  PROVE  LET held == [intent[d] EXCEPT !.res = res]
         IN  held \in Intents /\ held.res = res /\ Sane(d, held, row[d], None)
<1> DEFINE held == [intent[d] EXCEPT !.res = res]
<1>1. intent[d] \in Intents
  BY Types
<1>2. /\ held \in Intents /\ held.res = res
      /\ held.session = intent[d].session /\ held.op = intent[d].op
  BY <1>1 DEF Intents
<1> HIDE DEF held
<1>3. held # None /\ res # None
  BY <1>2, EnrollmentAssumption
<1>4. Sane(d, intent[d], row[d], None)
  BY SaneNow
<1>5. Sane(d, held, row[d], None)
  BY <1>2, <1>3, <1>4 DEF Sane, Follows
<1> QED BY <1>2, <1>5 DEF held

LEMMA ReserveAnswerKeeps ==
  ASSUME EnrollInv, NEW d \in Device, ReserveAnswer(d)
  PROVE  EnrollInv' /\ KeepsTarget
<1> DEFINE a == Heard(d)
           held == [intent[d] EXCEPT !.res = a.res]
<1>1. /\ Listening(d) /\ call[d].kind = "reserve" /\ call[d].req \in Requests /\ call[d] # None
      /\ a \in Answers /\ (a.code # "unauthorized" => a = call[d].ans) /\ call[d].ans # None
  BY HeardAnswer DEF ReserveAnswer, Kinds, Waits
<1>2. row[d] = None /\ mem[d] = None /\ intent[d] # None
  BY <1>1 DEF EnrollInv, EachFollows, Follows
<1>3. CASE a.code = "ok" /\ Continue(d, call[d].req, held, Coordinator(d, a.res))
  <2>1. a.res # None /\ a.res.nonce <= used.draw
    BY <1>1, <1>3 DEF EnrollInv, AnswersAreTrue, DrawnInOrder
  <2>2. a.res \in Reservations
    BY <1>1, <2>1 DEF Answers
  <2>3. held \in Intents /\ held.res = a.res /\ Sane(d, held, row[d], None)
    BY <1>2, <2>1, <2>2, HeldIntent
  <2> HIDE DEF held, a
  <2>4. /\ Coordinator(d, held.res) \in Coordinators
        /\ Sane(d, held, row[d], Coordinator(d, held.res))
    BY <2>2, <2>3, FreshCoordinator
  <2>5. UNCHANGED <<service, session, used>>
    BY DEF ReserveAnswer
  <2> QED BY <1>1, <1>3, <2>3, <2>4, <2>5, ContinueKeeps
<1>4. CASE /\ Keep(d, IF a.code = "expired" /\ call[d].req = "begin" THEN None ELSE intent[d])
           /\ Done(d) /\ UNCHANGED <<row, mem>>
  <2>1. PICK it \in {None, intent[d]} : Keep(d, it)
    BY <1>4
  <2>2. Becomes(d, it, row[d], mem[d])
    BY <1>4, <2>1, StepBounds, SameValue DEF ReserveAnswer, Becomes, Keep
  <2>3. Sane(d, it, row[d], mem[d])
    BY <1>2, SaneNow DEF Sane, Follows
  <2> QED BY <1>1, <1>4, <2>2, <2>3, DoneKeeps
<1> QED BY <1>3, <1>4 DEF ReserveAnswer

LEMMA RenewAnswerKeeps ==
  ASSUME EnrollInv, NEW d \in Device, RenewAnswer(d)
  PROVE  EnrollInv' /\ KeepsTarget
<1> DEFINE a == Heard(d)
           held == [intent[d] EXCEPT !.res = a.res]
           valid == a.code = "ok" /\ ValidRenewal(a.res, intent[d].res)
<1>1. /\ Listening(d) /\ call[d].kind = "renew" /\ call[d].req \in Requests /\ call[d] # None
      /\ a \in Answers /\ (a.code # "unauthorized" => a = call[d].ans) /\ call[d].ans # None
  BY HeardAnswer DEF RenewAnswer, Kinds, Waits
<1>2. mem[d] = None /\ intent[d] # None /\ intent[d].res # None
  BY <1>1 DEF EnrollInv, EachFollows, Follows
<1>3. CASE valid /\ Continue(d, call[d].req, held, Coordinator(d, a.res))
  <2>1. a.res # None /\ a.res.nonce <= used.draw
    BY <1>1, <1>3 DEF EnrollInv, AnswersAreTrue, DrawnInOrder
  <2>2. a.res \in Reservations
    BY <1>1, <2>1 DEF Answers
  <2>3. a.res.scope = intent[d].res.scope /\ intent[d].res.nonce <= a.res.nonce
    <3>1. intent[d].res \in Reservations
      BY <1>2, Types DEF Intents
    <3> QED BY <1>3, <2>2, <3>1 DEF ValidRenewal, Reservations
  <2>4. held \in Intents /\ held.res = a.res /\ Sane(d, held, row[d], None)
    BY <1>2, <2>1, <2>2, <2>3, HeldIntent
  <2> HIDE DEF held, a
  <2>5. /\ Coordinator(d, held.res) \in Coordinators
        /\ Sane(d, held, row[d], Coordinator(d, held.res))
    BY <2>2, <2>4, FreshCoordinator
  <2>6. UNCHANGED <<service, session, used>>
    BY DEF RenewAnswer
  <2> QED BY <1>1, <1>3, <2>4, <2>5, <2>6, ContinueKeeps
<1>4. CASE Done(d) /\ UNCHANGED <<vault, mem>>
  <2>1. Becomes(d, intent[d], row[d], mem[d])
    BY <1>4, StepBounds, SameValue DEF RenewAnswer, Becomes, vault
  <2> QED BY <1>1, <1>4, <2>1, SaneNow, DoneKeeps
<1> QED BY <1>3, <1>4 DEF RenewAnswer

(* No record is prepared: a phrase is shown, kept or dropped. *)
LEMMA DiscoverKeeps ==
  ASSUME EnrollInv, NEW d \in Device, Listening(d), row[d] = None, mem[d] # None, NEW receipt,
         Discover(d, receipt), Done(d), UNCHANGED <<service, session, vault>>
  PROVE  EnrollInv' /\ KeepsTarget
<1>1. mem[d] \in Coordinators /\ Sane(d, intent[d], row[d], mem[d]) /\ used \in Bounds
  BY Types, SaneNow
<1>2. mem[d].res \in Reservations /\ mem[d].res = intent[d].res
  BY <1>1 DEF Coordinators, Sane, Follows
<1>3. ASSUME NEW p \in Records \union {None},
             p # None => p.by = d /\ p.scope = mem[d].res.scope,
             mem' = [mem EXCEPT ![d].pending = p], used' \in Bounds, used'.draw = used.draw
      PROVE  EnrollInv' /\ KeepsTarget
  <2> DEFINE c == [mem[d] EXCEPT !.pending = p]
  <2>1. c \in Coordinators /\ c.res = mem[d].res /\ c.pending = p
    BY <1>1 DEF Coordinators
  <2>2. mem' = [mem EXCEPT ![d] = c]
    BY <1>3 DEF EnrollInv, TypeOK
  <2> HIDE DEF c
  <2>3. Sane(d, intent[d], row[d], c)
    BY <1>1, <1>3, <2>1 DEF Sane, Follows
  <2>4. Becomes(d, intent[d], row[d], c)
    BY <1>3, <2>2, SameValue DEF Becomes, vault
  <2> QED BY <2>3, <2>4, DoneKeeps
<1>4. CASE MoreTurns /\ Use("phrase")
           /\ mem' = [mem EXCEPT ![d].pending = [by |-> d, scope |-> mem[d].res.scope, id |-> used.phrase + 1]]
  <2> DEFINE p == [by |-> d, scope |-> mem[d].res.scope, id |-> used.phrase + 1]
  <2>1. used.phrase + 1 \in 1..MaxTurns
    <3>1. used.phrase \in Nat /\ used.expiry \in Nat /\ used.phrase + used.expiry < MaxTurns
      BY <1>1, <1>4 DEF MoreTurns, Bounds
    <3> QED BY <3>1, EnrollmentAssumption
  <2>2. p \in Records /\ p.by = d /\ p.scope = mem[d].res.scope
    BY <1>2, <2>1 DEF Records, Reservations
  <2>3. mem' = [mem EXCEPT ![d].pending = p]
    BY <1>4
  <2>4. used' \in Bounds /\ used'.draw = used.draw
    BY <1>4, StepBounds
  <2> HIDE DEF p
  <2> QED BY <1>3, <2>2, <2>3, <2>4
<1>5. CASE UNCHANGED <<mem, used>>
  <2>1. Becomes(d, intent[d], row[d], mem[d])
    BY <1>5, StepBounds, SameValue DEF Becomes, vault
  <2> QED BY <1>1, <2>1, DoneKeeps
<1>6. CASE /\ mem[d].pending # None /\ UNCHANGED used
           /\ mem' = [mem EXCEPT ![d].pending = IF receipt = None THEN mem[d].pending ELSE None]
  <2>1. PICK p \in {mem[d].pending, None} : mem' = [mem EXCEPT ![d].pending = p]
    BY <1>6
  <2>2. p \in Records \union {None} /\ (p # None => p.by = d /\ p.scope = mem[d].res.scope)
    BY <1>1 DEF Coordinators, Sane, Follows
  <2> QED BY <1>3, <1>6, <2>1, <2>2, StepBounds
<1> QED BY <1>4, <1>5, <1>6 DEF Discover

(* The outcome of a prepared record. *)
LEMMA SettledIsSane ==
  ASSUME EnrollInv, NEW d \in Device, row[d] # None, row[d].state = "prepared",
         NEW state \in {"prepared", "active", "conflict"}, NEW c \in {mem[d], None},
         state = "active" => root # None /\ root.rec = row[d].rec,
         state = "conflict" => Refuted(row[d].rec),
         Settle(d, state), mem' = [mem EXCEPT ![d] = c], UNCHANGED <<service, session, intent, used>>
  PROVE  \E r : Sane(d, intent[d], r, c) /\ Becomes(d, intent[d], r, c)
<1> DEFINE r == [row[d] EXCEPT !.state = state]
<1>1. row[d] \in Rows
  BY Types
<1>2. r \in Rows /\ r.rec = row[d].rec /\ r.state = state
  BY <1>1 DEF Rows
<1>3. row' = [row EXCEPT ![d] = r]
  BY DEF Settle, EnrollInv, TypeOK
<1> HIDE DEF r
<1>4. Sane(d, intent[d], row[d], c)
  BY SaneNow
<1>5. Sane(d, intent[d], r, c)
  BY <1>2, <1>4, EnrollmentAssumption DEF Sane, Follows
<1>6. Becomes(d, intent[d], r, c)
  BY <1>3, StepBounds, SameValue DEF Becomes
<1> QED BY <1>5, <1>6

LEMMA StatusAnswerKeeps ==
  ASSUME EnrollInv, NEW d \in Device, StatusAnswer(d)
  PROVE  EnrollInv' /\ KeepsTarget
<1> DEFINE a == Heard(d)
<1>1. /\ Listening(d) /\ call[d].kind = "status" /\ call[d].req \in Requests /\ call[d] # None
      /\ a \in Answers /\ (a.code # "unauthorized" => a = call[d].ans) /\ call[d].ans # None
  BY HeardAnswer DEF StatusAnswer, Kinds, Waits
<1>2. mem[d] # None /\ mem[d] \in Coordinators /\ UNCHANGED <<service, session, intent>>
  BY <1>1, Types DEF EnrollInv, EachFollows, Follows, StatusAnswer
<1>3. CASE a.code = "ok" /\ Reconcile(d, a.receipt)
  <2>1. a.receipt # None => root # None /\ a.receipt = root.rec
    BY <1>1, <1>3 DEF EnrollInv, AnswersAreTrue
  <2>2. CASE row[d] = None /\ Discover(d, a.receipt) /\ Done(d) /\ UNCHANGED row
    BY <1>1, <1>2, <2>2, DiscoverKeeps DEF vault
  <2>3. CASE Done(d) /\ UNCHANGED <<row, mem, used>>
    <3>1. Becomes(d, intent[d], row[d], mem[d])
      BY <1>2, <2>3, StepBounds, SameValue DEF Becomes
    <3> QED BY <1>1, <2>3, <3>1, SaneNow, DoneKeeps
  <2>4. CASE /\ row[d] # None /\ row[d].state = "prepared" /\ a.receipt # None
             /\ Settle(d, IF a.receipt = row[d].rec THEN "active" ELSE "conflict") /\ Done(d)
             /\ UNCHANGED <<mem, used>>
    <3>1. PICK state \in {"active", "conflict"} :
             /\ state = IF a.receipt = row[d].rec THEN "active" ELSE "conflict"
             /\ Settle(d, state)
      BY <2>4
    <3>2. state = "active" => root # None /\ root.rec = row[d].rec
      BY <2>1, <2>4, <3>1
    <3>3. state = "conflict" => Refuted(row[d].rec)
      BY <2>1, <2>4, <3>1 DEF Refuted
    <3>4. mem' = [mem EXCEPT ![d] = mem[d]]
      BY <2>4, SameValue
    <3>5. PICK r : Sane(d, intent[d], r, mem[d]) /\ Becomes(d, intent[d], r, mem[d])
      BY <1>2, <2>4, <3>1, <3>2, <3>3, <3>4, SettledIsSane
    <3> QED BY <1>1, <2>4, <3>5, DoneKeeps
  <2>5. CASE /\ row[d] # None /\ row[d].state = "prepared" /\ SendCommit(d, mem[d], row[d].rec)
             /\ UNCHANGED <<row, mem, used>>
    <3>1. Becomes(d, intent[d], row[d], mem[d]) /\ Sane(d, intent[d], row[d], mem[d])
      BY <1>2, <2>5, StepBounds, SameValue, SaneNow DEF Becomes
    <3>2. mem[d].res \in Reservations /\ mem[d].res = intent[d].res /\ row[d].rec \in Records
      BY <1>2, <2>5, Types DEF Coordinators, Rows, EnrollInv, TypeOK
    <3>3. mem[d].res.op \in 1..MaxOps /\ mem[d].res.nonce \in Nat
      BY <3>2 DEF Reservations
    <3>4. Send(d, "confirm", "commit", mem[d].res.op, mem[d].res.nonce, row[d].rec)
      BY <2>5 DEF SendCommit
    <3>5. "confirm" \in Requests /\ "commit" \in Kinds
      BY DEF Requests, Kinds
    <3> QED BY <1>1, <1>2, <2>5, <3>1, <3>2, <3>3, <3>4, <3>5, SendKeeps
  <2> QED BY <1>3, <2>2, <2>3, <2>4, <2>5 DEF Reconcile
<1>4. CASE Fail(d, mem[d]) /\ UNCHANGED <<row, used>>
  <2>1. PICK x \in {mem[d], None} : mem' = [mem EXCEPT ![d] = x] /\ Done(d)
    BY <1>4 DEF Fail
  <2>2. Becomes(d, intent[d], row[d], x)
    BY <1>2, <1>4, <2>1, StepBounds, SameValue DEF Becomes
  <2>3. Sane(d, intent[d], row[d], x)
    BY SaneNow
  <2> QED BY <1>1, <2>1, <2>2, <2>3, DoneKeeps
<1> QED BY <1>3, <1>4 DEF StatusAnswer

LEMMA CommitAnswerKeeps ==
  ASSUME EnrollInv, NEW d \in Device, CommitAnswer(d)
  PROVE  EnrollInv' /\ KeepsTarget
<1> DEFINE a == Heard(d)
<1>1. /\ Listening(d) /\ call[d].kind = "commit" /\ call[d] # None
      /\ a \in Answers /\ (a.code # "unauthorized" => a = call[d].ans) /\ call[d].ans # None
  BY HeardAnswer DEF CommitAnswer, Kinds, Waits
<1>2. row[d] # None /\ row[d].state = "prepared"
  BY <1>1 DEF EnrollInv, EachFollows, Follows
<1>3. PICK state \in {"prepared", "active", "conflict"} : state = Verdict(a.code) /\ Settle(d, state)
  BY DEF CommitAnswer, Verdict
<1>4. state = "active" => root # None /\ root.rec = row[d].rec
  BY <1>1, <1>3 DEF Verdict, EnrollInv, AnswersAreTrue
<1>5. state = "conflict" => Refuted(row[d].rec)
  BY <1>1, <1>3 DEF Verdict, EnrollInv, AnswersAreTrue
<1>6. PICK c \in {mem[d], None} : mem' = [mem EXCEPT ![d] = c]
  BY DEF CommitAnswer
<1>7. Done(d) /\ UNCHANGED <<service, session, intent, used>>
  BY DEF CommitAnswer
<1>8. PICK r : Sane(d, intent[d], r, c) /\ Becomes(d, intent[d], r, c)
  BY <1>2, <1>3, <1>4, <1>5, <1>6, <1>7, SettledIsSane
<1> QED BY <1>1, <1>7, <1>8, DoneKeeps

-----------------------------------------------------------------------------
(* Faults and logins. *)

(* Time and logins change nothing that is said or kept. *)
LEMMA QuietKeeps ==
  ASSUME EnrollInv, ServiceMoves, UNCHANGED <<call, wire>>, used'.draw = used.draw
  PROVE  EnrollInv' /\ KeepsTarget
<1>1. UNCHANGED <<intent, row, mem, call, wire>> /\ Commits' = Commits
  BY DEF ServiceMoves, vault, Commits
<1>2. ConflictIsRefuted' /\ AcceptedIsLast' /\ AcceptedIsKept' /\ KeepsTarget
  BY <1>1, ServiceKeeps
<1>3. TypeOK'
  BY <1>1 DEF EnrollInv, TypeOK, ServiceMoves
<1>4. EachFollows' /\ OneExchange' /\ CommitsAreKept'
  BY <1>1 DEF EnrollInv, EachFollows, Follows, OneExchange, Awaiting, CommitsAreKept
<1>5. DrawnInOrder'
  BY <1>1 DEF EnrollInv, DrawnInOrder, ServiceMoves
<1>6. AnswersAreTrue'
  <2>1. ASSUME NEW rec, Refuted(rec) PROVE Refuted(rec)'
    BY <1>1, <2>1, ServiceRefutes
  <2>2. root # None => root' = root
    BY DEF ServiceMoves
  <2> SUFFICES ASSUME NEW e \in Device, call'[e] # None, call'[e].ans # None
               PROVE  /\ call'[e].kind \in {"reserve", "renew"} /\ call'[e].ans.code = "ok" =>
                            call'[e].ans.res # None
                      /\ call'[e].ans.receipt # None => root' # None /\ call'[e].ans.receipt = root'.rec
                      /\ call'[e].kind = "commit" =>
                            /\ call'[e].ans.code = "ok" => root' # None /\ root'.rec = row'[e].rec
                            /\ call'[e].ans.code \in {"conflict", "invalid"} =>
                                  \A rec : rec = row'[e].rec => Refuted(rec)'
    BY DEF AnswersAreTrue, Refuted, Commits
  <2> QED BY <1>1, <2>1, <2>2 DEF EnrollInv, AnswersAreTrue
<1> QED BY <1>2, <1>3, <1>4, <1>5, <1>6 DEF EnrollInv

LEMMA TimeAndLogins ==
  ASSUME EnrollInv, Expire \/ \E d \in Device : SignIn(d) \/ SignOut(d)
  PROVE  EnrollInv' /\ KeepsTarget
<1>1. used \in Bounds /\ used.draw \in Nat
  BY Types DEF Bounds
<1>2. CASE Expire
  <2>1. slot \in Slots /\ slot # None
    BY <1>2, Types DEF Expire
  <2> DEFINE s == [slot EXCEPT !.live = FALSE]
  <2>2. /\ s.nonce = slot.nonce /\ s.scope = slot.scope
        /\ s.op = slot.op /\ s.session = slot.session
    BY <2>1 DEF Slots
  <2>3. s \in Slots
    <3>1. FALSE \in BOOLEAN
      OBVIOUS
    <3>2. \A b \in BOOLEAN : [slot EXCEPT !.live = b] \in Slots
      BY <2>1 DEF Slots
    <3> QED BY <3>1, <3>2
  <2>4. slot' = s
    BY <1>2 DEF Expire
  <2> HIDE DEF s
  <2>5. used' \in Bounds /\ used'.draw = used.draw
    BY <1>2, StepBounds DEF Expire
  <2>6. ServiceMoves
    <3>1. UNCHANGED <<alive, root, session, vault, mem>> /\ slot' # None
      BY <1>2, <2>3, <2>4, EnrollmentAssumption DEF Expire
    <3>2. slot'.nonce = used'.draw /\ used.draw <= used'.draw
      BY <1>1, <2>1, <2>2, <2>4, <2>5 DEF EnrollInv, DrawnInOrder
    <3>3. /\ root' \in Roots \union {None} /\ alive' \subseteq Sessions
          /\ session' \in [Device -> 0..MaxLogins]
      BY <3>1 DEF EnrollInv, TypeOK
    <3> QED BY <2>1, <2>2, <2>3, <2>4, <2>5, <3>1, <3>2, <3>3 DEF ServiceMoves
  <2> QED BY <1>2, <2>5, <2>6, QuietKeeps DEF Expire
<1>3. ASSUME NEW d \in Device, SignIn(d) PROVE EnrollInv' /\ KeepsTarget
  <2>1. used.login + 1 \in Sessions
    <3>1. used.login \in Nat /\ used.login < MaxLogins /\ MaxLogins \in Nat
      BY <1>1, <1>3, EnrollmentAssumption DEF SignIn, Bounds
    <3> QED BY <3>1 DEF Sessions
  <2>2. session' \in [Device -> 0..MaxLogins] /\ alive' \subseteq Sessions
    <3>1. used.login + 1 \in 0..MaxLogins
      BY <1>1, <2>1 DEF Sessions, Bounds
    <3> QED BY <1>3, <2>1, <3>1 DEF SignIn, EnrollInv, TypeOK
  <2>3. used' \in Bounds /\ used'.draw = used.draw
    BY <1>3, StepBounds DEF SignIn
  <2>4. ServiceMoves
    BY <1>1, <1>3, <2>2, <2>3 DEF SignIn, ServiceMoves, EnrollInv, TypeOK, DrawnInOrder
  <2> QED BY <1>3, <2>3, <2>4, QuietKeeps DEF SignIn
<1>4. ASSUME NEW d \in Device, SignOut(d) PROVE EnrollInv' /\ KeepsTarget
  <2>1. session' \in [Device -> 0..MaxLogins] /\ alive' \subseteq Sessions
    <3>1. 0 \in 0..MaxLogins
      BY EnrollmentAssumption
    <3> QED BY <1>4, <3>1 DEF SignOut, EnrollInv, TypeOK
  <2>2. used' \in Bounds /\ used'.draw = used.draw
    BY <1>4, StepBounds DEF SignOut
  <2>3. ServiceMoves
    BY <1>1, <1>4, <2>1, <2>2 DEF SignOut, ServiceMoves, EnrollInv, TypeOK, DrawnInOrder
  <2> QED BY <1>4, <2>2, <2>3, QuietKeeps DEF SignOut
<1> QED BY <1>2, <1>3, <1>4

(* The daemon of d stops waiting: what it sent may still arrive. *)
LEMMA AbandonKeeps ==
  ASSUME EnrollInv, NEW d \in Device, NEW k \in Calls \union {None}, NEW c \in {mem[d], None},
         call' = [call EXCEPT ![d] = k], mem' = [mem EXCEPT ![d] = c], wire' = Abandoned(d),
         UNCHANGED <<service, session, vault>>, Use("fault"),
         k # None => /\ call[d] # None /\ k.kind = call[d].kind /\ c = mem[d]
                     /\ k.ans = Reply("transient")
  PROVE  EnrollInv' /\ KeepsTarget
<1>1. /\ \A e \in Device : mem'[e] = IF e = d THEN c ELSE mem[e]
      /\ \A e \in Device : call'[e] = IF e = d THEN k ELSE call[e]
      /\ UNCHANGED <<slot, root, alive, session, intent, row>>
      /\ used' \in Bounds /\ used'.draw = used.draw
  BY StepBounds DEF EnrollInv, TypeOK, service, vault
<1>2. /\ Reply("transient") # None /\ Reply("transient").code = "transient"
      /\ Reply("transient").res = None /\ Reply("transient").receipt = None /\ d # None
  BY AnswerForms, EnrollmentAssumption
<1>3. \A m \in wire : /\ [m EXCEPT !.to = None] \in Messages /\ [m EXCEPT !.to = None].to = None
                      /\ [m EXCEPT !.to = None].kind = m.kind /\ [m EXCEPT !.to = None].rec = m.rec
                      /\ [m EXCEPT !.to = None].nonce = m.nonce
  <2> TAKE m \in wire
  <2>1. m \in Messages
    BY Types
  <2> QED BY <2>1 DEF Messages
<1>4. ASSUME NEW m \in wire'
      PROVE  /\ m \in Messages
             /\ (m \in wire /\ m.to # d) \/ m.to = None
             /\ \E n \in wire : n.kind = m.kind /\ n.rec = m.rec /\ n.nonce = m.nonce
  <2>1. CASE m \in wire /\ m.to # d
    BY <2>1, Types
  <2>2. CASE \E n \in wire : m = [n EXCEPT !.to = None]
    BY <1>3, <2>2
  <2> QED BY <2>1, <2>2 DEF Abandoned, Awaited
<1>5. \A m \in Commits' : \E n \in Commits : n.rec = m.rec /\ n.nonce = m.nonce
  BY <1>4 DEF Commits
<1>6. ASSUME NEW rec, Refuted(rec) PROVE Refuted(rec)'
  BY <1>1, <1>5, <1>6, RefutedStays
<1>7. EachFollows'
  <2> SUFFICES ASSUME NEW e \in Device
               PROVE  Follows(e, intent'[e], row'[e], mem'[e], call'[e])
    BY DEF EachFollows, Follows
  <2>1. Follows(e, intent[e], row[e], mem[e], call[e])
    BY DEF EnrollInv, EachFollows
  <2>2. CASE e # d
    BY <1>1, <2>1, <2>2
  <2>3. CASE e = d
    BY <1>1, <2>1, <2>3 DEF Follows
  <2> QED BY <2>2, <2>3
<1>8. TypeOK'
  <2>1. mem' \in [Device -> Coordinators \union {None}] /\ call' \in [Device -> Calls \union {None}]
    BY DEF EnrollInv, TypeOK
  <2>2. wire' \subseteq Messages
    BY <1>4
  <2>3. \A e \in Device : mem'[e] # None => intent'[e] # None /\ mem'[e].res = intent'[e].res
    BY <1>7 DEF EachFollows, Follows
  <2> QED BY <1>1, <2>1, <2>2, <2>3 DEF EnrollInv, TypeOK
<1>9. DrawnInOrder'
  BY <1>1, <1>2 DEF EnrollInv, DrawnInOrder
<1>10. OneExchange'
  <2>1. ASSUME NEW m \in wire', m.to # None PROVE Awaiting(m.to, m)'
    <3>1. m \in wire /\ m.to # d /\ m.to \in Device
      BY <1>4, <2>1 DEF Messages
    <3>2. Awaiting(m.to, m)
      BY <2>1, <3>1 DEF EnrollInv, OneExchange
    <3> QED BY <1>1, <3>1, <3>2 DEF Awaiting
  <2>2. ASSUME NEW m \in wire', NEW n \in wire', m.to # None, m.to = n.to PROVE m = n
    BY <1>4, <2>2 DEF EnrollInv, OneExchange
  <2> QED BY <2>1, <2>2 DEF OneExchange
<1>11. CommitsAreKept'
  <2> SUFFICES ASSUME NEW m \in Commits'
               PROVE  /\ m.rec # None
                      /\ row[m.rec.by] # None /\ row[m.rec.by].rec = m.rec
                      /\ m.nonce <= intent[m.rec.by].res.nonce
                      /\ m.to # None => m.to = m.rec.by /\ m.nonce = intent[m.to].res.nonce
    BY <1>1 DEF CommitsAreKept
  <2>1. m.to # None => m \in Commits
    BY <1>4 DEF Commits
  <2> QED BY <1>5, <2>1 DEF EnrollInv, CommitsAreKept
<1>12. AnswersAreTrue'
  <2> SUFFICES ASSUME NEW e \in Device, call'[e] # None, call'[e].ans # None
               PROVE  /\ call'[e].kind \in {"reserve", "renew"} /\ call'[e].ans.code = "ok" =>
                            call'[e].ans.res # None
                      /\ call'[e].ans.receipt # None => root' # None /\ call'[e].ans.receipt = root'.rec
                      /\ call'[e].kind = "commit" =>
                            /\ call'[e].ans.code = "ok" => root' # None /\ root'.rec = row'[e].rec
                            /\ call'[e].ans.code \in {"conflict", "invalid"} =>
                                  \A rec : rec = row'[e].rec => Refuted(rec)'
    BY DEF AnswersAreTrue, Refuted, Commits
  <2>1. CASE e # d
    BY <1>1, <1>6, <2>1 DEF EnrollInv, AnswersAreTrue
  <2>2. CASE e = d
    BY <1>1, <1>2, <2>2
  <2> QED BY <2>1, <2>2
<1>13. ConflictIsRefuted'
  <2> SUFFICES ASSUME NEW e \in Device, NEW rec, row'[e] # None, row'[e].state = "conflict",
                      rec = row'[e].rec
               PROVE  Refuted(rec)'
    BY DEF ConflictIsRefuted, Refuted, Commits
  <2> QED BY <1>1, <1>6 DEF EnrollInv, ConflictIsRefuted
<1>14. AcceptedIsLast' /\ AcceptedIsKept' /\ KeepsTarget
  BY <1>1 DEF EnrollInv, AcceptedIsLast, AcceptedIsKept, KeepsTarget, TypeOK
<1> QED
  BY <1>7, <1>8, <1>9, <1>10, <1>11, <1>12, <1>13, <1>14 DEF EnrollInv

LEMMA FaultKeeps ==
  ASSUME EnrollInv, NEW d \in Device, Lose(d) \/ Crash(d)
  PROVE  EnrollInv' /\ KeepsTarget
<1>1. CASE Lose(d)
  <2> DEFINE k == [call[d] EXCEPT !.ans = Reply("transient")]
  <2>1. call[d] \in Calls /\ call[d] # None /\ Reply("transient") \in Answers
    BY <1>1, Types, AnswerForms DEF Lose
  <2>2. k \in Calls /\ k.kind = call[d].kind /\ k.ans = Reply("transient")
    BY <2>1 DEF Calls
  <2>3. call' = [call EXCEPT ![d] = k] /\ mem' = [mem EXCEPT ![d] = mem[d]]
    BY <1>1, SameValue DEF Lose, EnrollInv, TypeOK
  <2> HIDE DEF k
  <2> QED BY <1>1, <2>1, <2>2, <2>3, AbandonKeeps DEF Lose
<1>2. CASE Crash(d)
  BY <1>2, AbandonKeeps DEF Crash
<1> QED BY <1>1, <1>2

-----------------------------------------------------------------------------
(* The theorems. *)

LEMMA EnrollStep ==
  ASSUME EnrollInv, [Next]_vars
  PROVE  EnrollInv' /\ [KeepsTarget]_vars
<1>1. ASSUME UNCHANGED vars PROVE EnrollInv'
  <2>1. UNCHANGED <<alive, slot, root, session, intent, row, mem, call, wire, used>>
    BY <1>1 DEF vars, service, vault
  <2> QED
    BY <2>1 DEF EnrollInv, TypeOK, EachFollows, Follows, DrawnInOrder, OneExchange, Awaiting,
      CommitsAreKept, Commits, AnswersAreTrue, ConflictIsRefuted, Refuted, AcceptedIsLast,
      AcceptedIsKept
<1>2. ASSUME NEW d \in Device,
             \/ Begin(d) \/ Overview(d) \/ Confirm(d) \/ Cancel(d) \/ PhraseExpires(d)
             \/ ReserveAnswer(d) \/ RenewAnswer(d) \/ StatusAnswer(d) \/ CommitAnswer(d)
             \/ Lose(d) \/ Crash(d)
      PROVE  EnrollInv' /\ KeepsTarget
  BY <1>2, RequestKeeps, PhraseExpiresKeeps, ReserveAnswerKeeps, RenewAnswerKeeps,
     StatusAnswerKeeps, CommitAnswerKeeps, FaultKeeps
<1> QED BY <1>1, <1>2, ServiceStep, TimeAndLogins DEF Next

LEMMA EnrollInit == Init => EnrollInv
<1> SUFFICES ASSUME Init PROVE EnrollInv
  OBVIOUS
<1>1. \A d \in Device : intent[d] = None /\ row[d] = None /\ mem[d] = None /\ call[d] = None
  BY DEF Init
<1>2. TypeOK
  <2>1. used \in Bounds
    BY DEF Init, Bounds
  <2>2. session \in [Device -> 0..MaxLogins]
    BY EnrollmentAssumption DEF Init
  <2> QED BY <1>1, <2>1, <2>2 DEF Init, TypeOK
<1>3. EachFollows
  BY <1>1 DEF EachFollows, Follows
<1> QED
  BY <1>1, <1>2, <1>3
  DEF Init, EnrollInv, DrawnInOrder, OneExchange, CommitsAreKept, Commits, AnswersAreTrue,
      ConflictIsRefuted, AcceptedIsLast, AcceptedIsKept

(* The inductive invariant of enrolment: exchanges, challenges, records    *)
(* and receipts agree, however requests of several daemons, their late     *)
(* arrivals, expiries, crashes and logins interleave.                      *)
THEOREM EnrollInvariant == Spec => []EnrollInv
<1>1. EnrollInv /\ [Next]_vars => EnrollInv'
  BY EnrollStep
<1> QED BY <1>1, EnrollInit, PTL DEF Spec

(* The variables of enrolment keep their types, and a prepared record has  *)
(* the intent whose reserved scope it was made for.                        *)
THEOREM EnrollmentTypes == Spec => []TypeOK
<1>1. EnrollInv => TypeOK
  BY DEF EnrollInv
<1> QED BY <1>1, EnrollInvariant, PTL

(* The record the service accepted stays in the vault that made it,        *)
(* prepared or active and never marked as a conflict, its receipt within   *)
(* reach; and only the accepted record is ever active (enrollment_commit,  *)
(* reconcile and settle of recovery_enrollment.rs).                        *)
THEOREM AcceptedIsAlwaysKept == Spec => []AcceptedIsKept
<1>1. EnrollInv => AcceptedIsKept
  BY DEF EnrollInv
<1> QED BY <1>1, EnrollInvariant, PTL

(* A prepared record is never replaced, its outcome is final, and no       *)
(* renewal gives its intent another login, operation or scope              *)
(* (prepare_recovery_enrollment, the renewal check of the coordinator).    *)
THEOREM NeverRetargetedAlways == Spec => NeverRetargeted
<1>1. EnrollInv /\ [Next]_vars =>
        [\A d \in Device : row[d] # None =>
           /\ row'[d] # None /\ row'[d].rec = row[d].rec
           /\ row[d].state # "prepared" => row'[d] = row[d]
           /\ intent'[d] # None /\ intent'[d].session = intent[d].session
           /\ intent'[d].op = intent[d].op /\ intent'[d].res.scope = intent[d].res.scope]_vars
  BY EnrollStep DEF KeepsTarget
<1> QED BY <1>1, EnrollInvariant, PTL DEF Spec, NeverRetargeted

=============================================================================
