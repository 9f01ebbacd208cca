-------------------------- MODULE Sessions_proofs --------------------------
(***************************************************************************)
(* Proofs about Sessions, for any number of replicas, sessions, requests   *)
(* and users, any page size of the reconciliation and any time limits; and *)
(* at the end about AccessPolicy, for any user, job and configuration.     *)
(***************************************************************************)
EXTENDS Sessions, AccessPolicy, TLAPS

USE SessionConstants

LEMMA InitType == Init => TypeOK
BY DEF Init, TypeOK, RowStates, Deployed, Row, Process, LoginCall, Request

\* The records that the steps write.
LEMMA RowUpdates ==
    ASSUME NEW w \in Row
    PROVE  /\ [w EXCEPT !.is = "revoked"] \in Row
           /\ [w EXCEPT !.is = "gone", !.expires = 0, !.idle = 0] \in Row
           /\ \A n \in Nat : [w EXCEPT !.idle = n] \in Row
BY DEF Row, RowStates

LEMMA ProcessUpdates ==
    ASSUME NEW p \in Process
    PROVE  /\ [p EXCEPT !.at = "down", !.cursor = 0, !.more = FALSE, !.doomed = {}] \in Process
           /\ \A m \in BOOLEAN, d \in SUBSET Tokens :
                 [p EXCEPT !.at = "revoking", !.more = m, !.doomed = d] \in Process
           /\ \A n \in Tokens, d \in SUBSET Tokens :
                 [p EXCEPT !.at = "revoking", !.more = TRUE, !.cursor = n, !.doomed = d] \in Process
           /\ \A s \in {"reading", "serving"}, n \in Nat :
                 [p EXCEPT !.at = s, !.doomed = {}, !.cursor = n] \in Process
BY DEF Process

LEMMA LoginUpdates ==
    ASSUME NEW l \in LoginCall
    PROVE  /\ \A s \in {"audit", "done", "refused"}, r \in Replicas :
                 [l EXCEPT !.at = s, !.on = r] \in LoginCall
           /\ \A b \in BOOLEAN : /\ [l EXCEPT !.at = "undo", !.landing = b] \in LoginCall
                                 /\ [l EXCEPT !.landing = b] \in LoginCall
BY DEF LoginCall

LEMMA RequestUpdates ==
    ASSUME NEW q \in Request
    PROVE  /\ [q EXCEPT !.at = "idle", !.on = Solo, !.late = FALSE] \in Request
           /\ \A s \in {"identify", "accepted"} : [q EXCEPT !.at = s] \in Request
BY DEF Request

\* Revoke() keeps the types and touches only the state of a row.
LEMMA RevokeRow ==
    ASSUME TypeOK, NEW dead, Revoke(dead)
    PROVE  row' \in [Tokens -> Row]
BY RowUpdates DEF TypeOK, Revoke

LEMMA NextType == TypeOK /\ [Next]_vars => TypeOK'
<1> SUFFICES ASSUME TypeOK, [Next]_vars PROVE TypeOK'
  OBVIOUS
<1> USE DEF TypeOK
<1>1. CASE UNCHANGED vars
  BY <1>1 DEF vars
<1>2. ASSUME NEW r \in Replicas, Stop(r) PROVE TypeOK'
  BY <1>2, ProcessUpdates, LoginUpdates, RequestUpdates, RowUpdates DEF Stop, Refused, Deleted
<1>3. ASSUME NEW r \in Replicas, Start(r) PROVE TypeOK'
  BY <1>3 DEF Start, Process
<1>4. ASSUME NEW r \in Replicas, ReconcileRead(r) PROVE TypeOK'
  <2> DEFINE lost(S) == {t \in S : ~ Identified(t, proc[r].users)}
  <2>1. proc' \in [Replicas -> Process]
    <3>1. CASE proc' = [proc EXCEPT ![r].at = "revoking", ![r].more = FALSE, ![r].doomed = lost(Ahead(r))]
      <4>1. lost(Ahead(r)) \in SUBSET Tokens
        BY DEF Ahead
      <4>2. [proc[r] EXCEPT !.at = "revoking", !.more = FALSE, !.doomed = lost(Ahead(r))] \in Process
        BY <4>1, ProcessUpdates
      <4> HIDE DEF lost
      <4> QED
        BY <3>1, <4>2
    <3>2. ASSUME NEW last \in Ahead(r),
                 proc' = [proc EXCEPT ![r].at = "revoking", ![r].more = TRUE, ![r].cursor = last,
                                      ![r].doomed = lost(PageUpTo(r, last))]
          PROVE  proc' \in [Replicas -> Process]
      <4>1. lost(PageUpTo(r, last)) \in SUBSET Tokens /\ last \in Tokens
        BY DEF Ahead, PageUpTo
      <4>2. [proc[r] EXCEPT !.at = "revoking", !.more = TRUE, !.cursor = last,
                            !.doomed = lost(PageUpTo(r, last))] \in Process
        BY <4>1, ProcessUpdates
      <4> HIDE DEF lost
      <4> QED
        BY <3>2, <4>2
    <3> QED
      BY <1>4, <3>1, <3>2 DEF ReconcileRead
  <2> QED
    BY <1>4, <2>1 DEF ReconcileRead, reqVars
<1>5. ASSUME NEW r \in Replicas, ReconcileRevoke(r) PROVE TypeOK'
  <2> DEFINE at == IF proc[r].more THEN "reading" ELSE "serving"
             cursor == IF proc[r].more THEN proc[r].cursor ELSE 0
  <2>1. at \in {"reading", "serving"} /\ cursor \in Nat
    BY DEF Process
  <2>2. [proc[r] EXCEPT !.at = at, !.doomed = {}, !.cursor = cursor] \in Process
    BY <2>1, ProcessUpdates
  <2>3. proc' = [proc EXCEPT ![r] = [proc[r] EXCEPT !.at = at, !.doomed = {}, !.cursor = cursor]]
    BY <1>5 DEF ReconcileRevoke
  <2> HIDE DEF at, cursor
  <2>4. proc' \in [Replicas -> Process]
    BY <2>2, <2>3
  <2> QED
    BY <1>5, <2>4, RevokeRow DEF ReconcileRevoke, reqVars
<1>6. ASSUME NEW r \in Replicas, Sweep(r) PROVE TypeOK'
  BY <1>6, RowUpdates DEF Sweep, Deleted, reqVars
<1>7. ASSUME NEW t \in Tokens, NEW r \in Replicas, Logout(t, r) PROVE TypeOK'
  BY <1>7, RevokeRow DEF Logout
<1>8. ASSUME NEW t \in Tokens, NEW r \in Replicas, NEW id \in Ids, Login(t, r, id) PROVE TypeOK'
  <2>1. NewRow(id, proc[r].users) \in Row
    BY <1>8 DEF NewRow, Row, RowStates, Process
  <2>2. login' \in [Tokens -> LoginCall]
    <3> PICK s \in {"audit", "refused"} : login' = [login EXCEPT ![t].at = s, ![t].on = r]
      BY <1>8 DEF Login
    <3>1. [login[t] EXCEPT !.at = s, !.on = r] \in LoginCall
      BY LoginUpdates
    <3> QED
      BY <3>1
  <2> QED
    BY <1>8, <2>1, <2>2 DEF Login, reqVars
<1>9. ASSUME NEW t \in Tokens, LoginAudited(t) PROVE TypeOK'
  BY <1>9, LoginUpdates DEF LoginAudited
<1>10. ASSUME NEW t \in Tokens, LoginAuditFails(t) PROVE TypeOK'
  <2> PICK late \in BOOLEAN : login' = [login EXCEPT ![t].at = "undo", ![t].landing = late]
    BY <1>10, Zenon DEF LoginAuditFails
  <2>1. [login[t] EXCEPT !.at = "undo", !.landing = late] \in LoginCall
    BY LoginUpdates, Zenon
  <2>2. login' \in [Tokens -> LoginCall]
    BY <2>1
  <2> QED
    BY <1>10, <2>2 DEF LoginAuditFails, reqVars
<1>11. ASSUME NEW t \in Tokens, AuditLands(t) PROVE TypeOK'
  BY <1>11, LoginUpdates DEF AuditLands
<1>12. ASSUME NEW t \in Tokens, LoginUndo(t) PROVE TypeOK'
  BY <1>12, RevokeRow, LoginUpdates DEF LoginUndo, reqVars
<1>13. ASSUME NEW q \in Requests, NEW t \in Tokens, NEW r \in Replicas, Begin(q, t, r) PROVE TypeOK'
  BY <1>13 DEF Begin, Usable, Unexpired, Request
<1>14. ASSUME NEW q \in Requests, Touch(q) PROVE TypeOK'
  <2>a. req[q] \in Request
    OBVIOUS
  <2>b. req[q].token \in Tokens /\ now + Idle \in Nat
    BY <2>a DEF Request
  <2>c. Refused(q) \in Request /\ [req[q] EXCEPT !.at = "identify"] \in Request
    BY <2>a, RequestUpdates DEF Refused
  <2>1. /\ req[q].token \in Tokens /\ now + Idle \in Nat
        /\ Refused(q) \in Request /\ [req[q] EXCEPT !.at = "identify"] \in Request
    BY <2>b, <2>c
  <2>2. [row[req[q].token] EXCEPT !.idle = now + Idle] \in Row
    BY <2>1, RowUpdates
  <2>3. req' \in [Requests -> Request]
    BY <1>14, <2>1 DEF Touch
  <2>4. row' \in [Tokens -> Row]
    BY <1>14, <2>1, <2>2 DEF Touch
  <2> QED
    BY <1>14, <2>3, <2>4 DEF Touch
<1>15. ASSUME NEW q \in Requests, Identify(q) PROVE TypeOK'
  <2>1. Refused(q) \in Request /\ [req[q] EXCEPT !.at = "accepted"] \in Request
    BY RequestUpdates DEF Refused
  <2>2. req' \in [Requests -> Request]
    BY <1>15, <2>1 DEF Identify
  <2>3. row' \in [Tokens -> Row]
    BY <1>15, RevokeRow DEF Identify
  <2> QED
    BY <1>15, <2>2, <2>3 DEF Identify
<1>16. ASSUME NEW q \in Requests, TouchFails(q) PROVE TypeOK'
  BY <1>16, RequestUpdates DEF TouchFails, Refused
<1>17. CASE Tick
  BY <1>17 DEF Tick, reqVars
<1> QED
  BY <1>1, <1>2, <1>3, <1>4, <1>5, <1>6, <1>7, <1>8, <1>9, <1>10, <1>11, <1>12,
     <1>13, <1>14, <1>15, <1>16, <1>17 DEF Next

(* The sessions keep their types, whatever the replicas do.                *)
THEOREM TypeCorrect == Spec => []TypeOK
BY InitType, NextType, PTL DEF Spec

-----------------------------------------------------------------------------
(* What a step does to one session: it stays what it was but for its idle  *)
(* time, it is opened, or it ends.  A dead session stays dead.             *)

Same(t) == row'[t].id = row[t].id /\ row'[t].role = row[t].role

\* No touch can revive t: the row is there, and it has ended or expired.
Dead(t) == row[t].is # "none" /\ ~ Usable(t)

LEMMA RevokeMoves ==
    ASSUME TypeOK, NEW dead, Revoke(dead), now' = now
    PROVE  /\ \A t \in Tokens : /\ Same(t) /\ (row'[t].is # "none" <=> row[t].is # "none")
                                /\ row'[t].is = "live" => row[t].is = "live" /\ t \notin dead
                                /\ row'[t].expires = row[t].expires /\ row'[t].idle = row[t].idle
                                /\ Dead(t) => Dead(t)'
           /\ \A t \in dead \cap Tokens : row'[t].is # "live"
<1> SUFFICES ASSUME NEW t \in Tokens
             PROVE  /\ Same(t) /\ (row'[t].is # "none" <=> row[t].is # "none")
                    /\ row'[t].is = "live" => row[t].is = "live" /\ t \notin dead
                    /\ row'[t].expires = row[t].expires /\ row'[t].idle = row[t].idle
                    /\ Dead(t) => Dead(t)'
  OBVIOUS
<1>1. row[t] \in Row
  BY DEF TypeOK
<1>2. row'[t] = IF t \in dead /\ row[t].is = "live" THEN [row[t] EXCEPT !.is = "revoked"] ELSE row[t]
  BY DEF Revoke
<1> QED
  BY <1>1, <1>2 DEF Same, Dead, Usable, Unexpired, Row

-----------------------------------------------------------------------------
(* The books of the API: a token that left the server belongs to a row and *)
(* to an audit record; a request that came too late carries a dead token.  *)
Books ==
    /\ given \subseteq audited
    /\ \A t \in Tokens : login[t].at # "idle" => row[t].is # "none"
    /\ \A t \in given : row[t].is # "none"
    /\ \A t \in ended : Dead(t)
    /\ \A q \in Requests : req[q].at # "idle" => req[q].token \in given
    /\ \A q \in Requests : req[q].late => req[q].at = "touch" /\ Dead(req[q].token)

LEMMA InitBooks == Init => Books
BY DEF Init, Books

\* No step brings a dead session back or makes a row unknown again.
LEMMA DeadStaysDead ==
    ASSUME TypeOK, TypeOK', [Next]_vars, NEW t \in Tokens
    PROVE  (row[t].is # "none" => row'[t].is # "none") /\ (Dead(t) => Dead(t)')
<1> USE DEF Dead, Usable, Unexpired
<1>0. row[t] \in Row /\ row'[t] \in Row /\ now \in Nat
  BY DEF TypeOK
<1>1. CASE row' = row /\ now' = now
  BY <1>1
<1>2. ASSUME NEW r \in Replicas, Stop(r) PROVE ((row[t].is # "none" => row'[t].is # "none") /\ (Dead(t) => Dead(t)'))
  BY <1>0, <1>2 DEF Stop, Deleted, Row, TypeOK
<1>3. ASSUME NEW dead, Revoke(dead), now' = now PROVE ((row[t].is # "none" => row'[t].is # "none") /\ (Dead(t) => Dead(t)'))
  BY <1>3, RevokeMoves
<1>4. ASSUME NEW r \in Replicas, Sweep(r) PROVE ((row[t].is # "none" => row'[t].is # "none") /\ (Dead(t) => Dead(t)'))
  BY <1>0, <1>4 DEF Sweep, Deleted, Row, TypeOK
<1>5. ASSUME NEW u \in Tokens, NEW r \in Replicas, NEW id \in Ids, Login(u, r, id) PROVE ((row[t].is # "none" => row'[t].is # "none") /\ (Dead(t) => Dead(t)'))
  BY <1>5 DEF Login, NewRow, TypeOK
<1>6. ASSUME NEW q \in Requests, Touch(q) PROVE ((row[t].is # "none" => row'[t].is # "none") /\ (Dead(t) => Dead(t)'))
  <2>1. CASE row' = row
    BY <1>6, <2>1 DEF Touch
  <2>2. CASE Touched(req[q].token) /\ row' = [row EXCEPT ![req[q].token].idle = now + Idle]
    <3>1. CASE t = req[q].token
      <4>1. row'[t] = [row[t] EXCEPT !.idle = now + Idle]
        BY <2>2, <3>1 DEF TypeOK
      <4> QED
        BY <1>0, <1>6, <2>2, <3>1, <4>1 DEF Touch, Touched, Row
    <3>2. CASE t # req[q].token
      BY <1>6, <2>2, <3>2 DEF Touch, TypeOK
    <3> QED
      BY <3>1, <3>2
  <2> QED
    BY <1>6, <2>1, <2>2 DEF Touch
<1>7. CASE Tick
  BY <1>0, <1>7 DEF Tick, Row
<1> QED
  <2>1. ASSUME NEW r \in Replicas, Start(r) \/ ReconcileRead(r) PROVE row' = row /\ now' = now
    BY <2>1 DEF Start, ReconcileRead
  <2>2. ASSUME NEW r \in Replicas, ReconcileRevoke(r) PROVE ((row[t].is # "none" => row'[t].is # "none") /\ (Dead(t) => Dead(t)'))
    BY <2>2, <1>3 DEF ReconcileRevoke
  <2>3. ASSUME NEW u \in Tokens, NEW r \in Replicas, Logout(u, r) PROVE ((row[t].is # "none" => row'[t].is # "none") /\ (Dead(t) => Dead(t)'))
    BY <2>3, <1>3 DEF Logout
  <2>4. ASSUME NEW u \in Tokens, LoginAudited(u) \/ LoginAuditFails(u) \/ AuditLands(u)
        PROVE  row' = row /\ now' = now
    BY <2>4 DEF LoginAudited, LoginAuditFails, AuditLands
  <2>5. ASSUME NEW u \in Tokens, LoginUndo(u) PROVE ((row[t].is # "none" => row'[t].is # "none") /\ (Dead(t) => Dead(t)'))
    BY <2>5, <1>1, <1>3 DEF LoginUndo
  <2>6. ASSUME NEW q \in Requests, Identify(q) PROVE ((row[t].is # "none" => row'[t].is # "none") /\ (Dead(t) => Dead(t)'))
    BY <2>6, <1>1, <1>3 DEF Identify
  <2>7. ASSUME NEW q \in Requests,
               TouchFails(q) \/ (\E u \in Tokens, r \in Replicas : Begin(q, u, r))
        PROVE  row' = row /\ now' = now
    BY <2>7 DEF TouchFails, Begin
  <2>8. CASE UNCHANGED vars
    BY <2>8, <1>1 DEF vars
  <2> QED
    BY <1>1, <1>2, <1>4, <1>5, <1>6, <1>7, <2>1, <2>2, <2>3, <2>4, <2>5, <2>6, <2>7, <2>8 DEF Next

LEMMA NextBooks == TypeOK /\ TypeOK' /\ Books /\ [Next]_vars => Books'
<1> SUFFICES ASSUME TypeOK, TypeOK', Books, [Next]_vars PROVE Books'
  OBVIOUS
<1>d. \A t \in Tokens : (row[t].is # "none" => row'[t].is # "none") /\ (Dead(t) => Dead(t)')
  BY DeadStaysDead
<1>0. /\ given \subseteq Tokens /\ ended \subseteq Tokens
      /\ \A q \in Requests : req[q] \in Request /\ req[q].token \in Tokens
  BY DEF TypeOK, Request
\* Steps of no login, no logout and no request.
<1>1. ASSUME UNCHANGED <<login, audited, given, ended, req>> PROVE Books'
  BY <1>0, <1>1, <1>d DEF Books
<1>2. ASSUME NEW r \in Replicas, Stop(r) PROVE Books'
  <2>1. /\ \A t \in Tokens : login'[t].at # "idle" => login[t].at # "idle"
        /\ UNCHANGED <<audited, given, ended>>
    BY <1>2 DEF Stop, TypeOK, LoginCall
  <2>2. ASSUME NEW q \in Requests
        PROVE  /\ req'[q].token = req[q].token
               /\ req'[q].at # "idle" => req[q].at # "idle"
               /\ req'[q].late => req[q].late /\ req'[q].at = req[q].at
    BY <1>0, <1>2 DEF Stop, Refused, Request
  <2> QED
    BY <1>0, <1>d, <2>1, <2>2 DEF Books
<1>3. ASSUME NEW t \in Tokens, NEW r \in Replicas, NEW id \in Ids, Login(t, r, id) PROVE Books'
  <2>1. /\ row'[t].is # "none" /\ \A u \in Tokens \ {t} : login'[u] = login[u]
        /\ UNCHANGED <<audited, given, ended, req>>
    BY <1>3 DEF Login, NewRow, TypeOK, reqVars
  <2> QED
    BY <1>0, <1>d, <2>1 DEF Books
<1>4. ASSUME NEW t \in Tokens, LoginAudited(t) PROVE Books'
  <2>1. /\ login[t].at = "audit" /\ audited' = audited \cup {t} /\ given' = given \cup {t}
        /\ \A u \in Tokens \ {t} : login'[u] = login[u]
        /\ UNCHANGED <<row, now, ended, req>>
    BY <1>4 DEF LoginAudited, TypeOK
  <2> QED
    BY <1>0, <1>d, <2>1 DEF Books
<1>5. ASSUME NEW t \in Tokens, LoginAuditFails(t) \/ LoginUndo(t) PROVE Books'
  <2>1. /\ login[t].at # "idle" /\ \A u \in Tokens \ {t} : login'[u] = login[u]
        /\ UNCHANGED <<audited, given, ended, req>>
    BY <1>5 DEF LoginAuditFails, LoginUndo, TypeOK, reqVars
  <2> QED
    BY <1>0, <1>d, <2>1 DEF Books
<1>6. ASSUME NEW t \in Tokens, AuditLands(t) PROVE Books'
  <2>1. /\ \A u \in Tokens : login'[u].at = login[u].at
        /\ audited \subseteq audited' /\ UNCHANGED <<given, ended, req>>
    BY <1>6 DEF AuditLands, TypeOK, LoginCall
  <2> QED
    BY <1>0, <1>d, <2>1 DEF Books
<1>7. ASSUME NEW t \in Tokens, NEW r \in Replicas, Logout(t, r) PROVE Books'
  <2>1. t \in given /\ Revoke({t}) /\ now' = now /\ ended' = ended \cup {t}
        /\ UNCHANGED <<login, audited, given, req>>
    BY <1>7 DEF Logout
  <2>2. row'[t].is # "none" /\ row'[t].is # "live"
    BY <1>d, <2>1, RevokeMoves DEF Books
  <2>3. Dead(t)'
    BY <2>2 DEF Dead, Usable
  <2> QED
    BY <1>0, <1>d, <2>1, <2>3 DEF Books
<1>8. ASSUME NEW q \in Requests, NEW t \in Tokens, NEW r \in Replicas, Begin(q, t, r) PROVE Books'
  <2>1. /\ t \in given /\ UNCHANGED <<row, now, login, audited, given, ended>>
        /\ req'[q] = [at |-> "touch", token |-> t, on |-> r, late |-> ~ Usable(t) \/ t \in ended]
        /\ \A p \in Requests \ {q} : req'[p] = req[p]
    BY <1>8 DEF Begin, TypeOK
  <2>a. req'[q].at = "touch" /\ req'[q].token = t
    BY <2>1
  <2>b. req'[q].late => ~ Usable(t) \/ t \in ended
    <3> DEFINE late == ~ Usable(t) \/ t \in ended
    <3>1. req'[q].late = late
      BY <2>1
    <3> QED
      BY <3>1
  <2>2. req'[q].late => Dead(t)
    BY <2>1, <2>b DEF Books, Dead
  <2>3. Dead(t) => Dead(t)'
    BY <1>d
  <2>4. \A p \in Requests \ {q} : req'[p].late => req'[p].at = "touch" /\ Dead(req[p].token)'
    BY <1>0, <1>d, <2>1 DEF Books
  <2>5. \A p \in Requests : req'[p].late => req'[p].at = "touch" /\ Dead(req[p].token)'
    BY <2>a, <2>2, <2>3, <2>4
  <2> QED
    BY <1>0, <1>d, <2>1, <2>a, <2>5 DEF Books
<1>9. ASSUME NEW q \in Requests,
             \A p \in Requests \ {q} : req'[p] = req[p],
             UNCHANGED <<login, audited, given, ended>>,
             req[q].at # "idle" \/ req'[q] = req[q],
             \/ req'[q] = Refused(q)
             \/ req'[q].token = req[q].token /\ ~ req'[q].late
      PROVE  Books'
  <2>1. req'[q].token = req[q].token /\ ~ req'[q].late
    <3>1. Refused(q).token = req[q].token /\ ~ Refused(q).late
      BY <1>0 DEF Refused, Request
    <3> QED
      BY <1>9, <3>1
  <2>2. req[q].at = "idle" => req'[q] = req[q]
    BY <1>9
  <2>3. /\ \A p \in Requests : req'[p].token = req[p].token
        /\ \A p \in Requests : req'[p].at # "idle" => req[p].at # "idle"
        /\ \A p \in Requests : req'[p].late => p # q /\ req'[p] = req[p]
    BY <1>9, <2>1, <2>2
  <2> QED
    BY <1>0, <1>9, <1>d, <2>3 DEF Books
<1>10. ASSUME NEW q \in Requests, Touch(q) PROVE Books'
  <2>1. Touched(req[q].token) => ~ req[q].late
    BY <1>0 DEF Books, Dead, Touched
  <2>2. \/ req'[q] = Refused(q)
        \/ Touched(req[q].token) /\ req'[q] = [req[q] EXCEPT !.at = "identify"]
    BY <1>10 DEF Touch, TypeOK
  <2>3. req'[q] = Refused(q) \/ (req'[q].token = req[q].token /\ ~ req'[q].late)
    BY <1>0, <2>1, <2>2 DEF Request
  <2>4. /\ req[q].at # "idle" /\ \A p \in Requests \ {q} : req'[p] = req[p]
        /\ UNCHANGED <<login, audited, given, ended>>
    BY <1>10 DEF Touch, TypeOK
  <2> QED
    BY <1>9, <2>3, <2>4
<1>11. ASSUME NEW q \in Requests, Identify(q) \/ TouchFails(q) PROVE Books'
  <2>0. TouchFails(q) => req'[q] = Refused(q)
    BY DEF TouchFails, TypeOK
  <2>a. Identify(q) => req[q].at # "touch"
    BY DEF Identify
  <2>1. ~ req[q].late \/ req'[q] = Refused(q)
    BY <1>11, <2>0, <2>a DEF Books
  <2>2. req'[q] = Refused(q) \/ req'[q] = [req[q] EXCEPT !.at = "accepted"]
    BY <1>11 DEF Identify, TouchFails, TypeOK
  <2>3. req'[q] = Refused(q) \/ (req'[q].token = req[q].token /\ ~ req'[q].late)
    BY <1>0, <2>1, <2>2 DEF Request
  <2>4. /\ \A p \in Requests \ {q} : req'[p] = req[p]
        /\ UNCHANGED <<login, audited, given, ended>> /\ req[q].at # "idle"
    BY <1>11 DEF Identify, TouchFails, TypeOK
  <2> QED
    BY <1>9, <2>3, <2>4
<1> QED
  <2>1. ASSUME NEW r \in Replicas,
               Start(r) \/ ReconcileRead(r) \/ ReconcileRevoke(r) \/ Sweep(r)
        PROVE  UNCHANGED <<login, audited, given, ended, req>>
    BY <2>1 DEF Start, ReconcileRead, ReconcileRevoke, Sweep, reqVars
  <2>2. Tick \/ UNCHANGED vars => UNCHANGED <<login, audited, given, ended, req>>
    BY DEF Tick, vars, reqVars
  <2> QED
    BY <1>1, <1>2, <1>3, <1>4, <1>5, <1>6, <1>7, <1>8, <1>10, <1>11, <2>1, <2>2 DEF Next

\* What Books says of an accepted request.
LEMMA BooksMean == TypeOK /\ Books => DeadIsRefused /\ AcceptedIsAudited
BY DEF Books, DeadIsRefused, AcceptedIsAudited

(* A request that comes after the end of its session is refused, for any   *)
(* number of replicas and whatever fails in between.                       *)
THEOREM DeadAreRefused == Spec => []DeadIsRefused
BY InitType, NextType, InitBooks, NextBooks, BooksMean, PTL DEF Spec

(* Every accepted request acts through a login that is on record.          *)
THEOREM AcceptedAreAudited == Spec => []AcceptedIsAudited
BY InitType, NextType, InitBooks, NextBooks, BooksMean, PTL DEF Spec

-----------------------------------------------------------------------------
(* Why a rollout leaves no session behind: for every live session some     *)
(* replica either still agrees with it or has yet to look at it.  A        *)
(* session opened behind the cursor of one replica was opened at another   *)
(* one, which agreed with it then and must be restarted in its turn.       *)
Pending(r, t) ==
    \/ Identified(t, proc[r].users)
    \/ proc[r].at = "down"
    \/ proc[r].at = "reading" /\ t > proc[r].cursor
    \/ proc[r].at = "revoking" /\ (t \in proc[r].doomed \/ (proc[r].more /\ t > proc[r].cursor))

Live(t) == row[t].is = "live" /\ Unexpired(t)

RolloutInv ==
    /\ \A r \in Replicas : proc[r].at # "down" => r \in Deployed
    /\ backend = "memory" /\ proc[Solo].at = "down" => \A t \in Tokens : row[t].is # "live"
    /\ \A t \in Tokens : Live(t) => \E r \in Deployed : Pending(r, t)

LEMMA InitRollout == Init => RolloutInv
BY DEF Init, RolloutInv, Live, Deployed

LEMMA RevokeLive ==
    ASSUME TypeOK, NEW dead, Revoke(dead), now' = now
    PROVE  \A t \in Tokens : /\ (Live(t)' => Live(t) /\ Same(t) /\ t \notin dead)
                            /\ (row'[t].is = "live" => row[t].is = "live")
BY RevokeMoves DEF Live, Unexpired

\* A step that leaves the processes alone and opens no session.
LEMMA QuietRollout ==
    ASSUME RolloutInv, UNCHANGED <<backend, proc>>,
           \A t \in Tokens : Live(t)' => Live(t) /\ Same(t),
           \A t \in Tokens : row'[t].is = "live" => row[t].is = "live"
    PROVE  RolloutInv'
<1>0. Deployed' = Deployed
  BY DEF Deployed
<1>1. ASSUME NEW t \in Tokens, Live(t)' PROVE \E r \in Deployed : Pending(r, t)'
  <2>1. Live(t) /\ Same(t)
    BY <1>1
  <2>2. PICK r \in Deployed : Pending(r, t)
    BY <2>1 DEF RolloutInv
  <2>3. Pending(r, t)'
    BY <2>1, <2>2 DEF Pending, Identified, Same
  <2> QED
    BY <2>3
<1> QED
  BY <1>0, <1>1 DEF RolloutInv

LEMMA NextRollout == TypeOK /\ TypeOK' /\ RolloutInv /\ [Next]_vars => RolloutInv'
<1> SUFFICES ASSUME TypeOK, TypeOK', RolloutInv, [Next]_vars PROVE RolloutInv'
  OBVIOUS
<1>0. /\ \A t \in Tokens : row[t] \in Row /\ row'[t] \in Row /\ t \in Nat
      /\ \A r \in Replicas : proc[r] \in Process /\ proc'[r] \in Process
      /\ now \in Nat /\ Deployed \subseteq Replicas
  BY DEF TypeOK, Deployed
<1>u. ASSUME row' = row, now' = now
      PROVE  /\ \A t \in Tokens : Live(t)' => Live(t) /\ Same(t)
             /\ \A t \in Tokens : row'[t].is = "live" => row[t].is = "live"
  BY <1>u DEF Live, Same, Unexpired
<1>1. ASSUME NEW s \in Replicas, Stop(s) PROVE RolloutInv'
  <2>0. /\ proc' = [proc EXCEPT ![s] = [@ EXCEPT !.at = "down", !.cursor = 0, !.more = FALSE, !.doomed = {}]]
        /\ UNCHANGED <<backend, now>>
    BY <1>1 DEF Stop
  <2>p. proc \in [Replicas -> Process]
    BY DEF TypeOK
  <2>1. /\ proc'[s].at = "down" /\ \A r \in Replicas \ {s} : proc'[r] = proc[r]
        /\ UNCHANGED <<backend, now>>
    BY <2>0, <2>p, <1>0 DEF Process
  <2>2. \A t \in Tokens : IF backend = "memory" /\ row[t].is # "none" THEN row'[t].is = "gone"
                          ELSE row'[t] = row[t]
    BY <1>0, <1>1 DEF Stop, Deleted, Row
  <2>3. ASSUME NEW t \in Tokens, Live(t)' PROVE \E r \in Deployed : Pending(r, t)'
    <3>1. Live(t) /\ row'[t] = row[t]
      BY <2>1, <2>2, <2>3 DEF Live, Unexpired
    <3>2. PICK r \in Deployed : Pending(r, t)
      BY <3>1 DEF RolloutInv
    <3>3. Pending(r, t)'
      BY <1>0, <2>1, <3>1, <3>2 DEF Pending, Identified
    <3> QED
      BY <3>3
  <2>4. \A t \in Tokens : row'[t].is = "live" => row[t].is = "live" /\ backend # "memory"
    BY <2>2
  <2> QED
    BY <2>1, <2>3, <2>4 DEF RolloutInv, Deployed
<1>2. ASSUME NEW s \in Replicas, Start(s) PROVE RolloutInv'
  <2>1. /\ s \in Deployed /\ proc[s].at = "down" /\ UNCHANGED <<backend, now, row>>
        /\ \A r \in Replicas \ {s} : proc'[r] = proc[r]
        /\ proc'[s].at = IF backend = "memory" THEN "serving" ELSE "reading"
        /\ proc'[s].cursor = 0
    BY <1>0, <1>2 DEF Start, TypeOK
  <2>2. ASSUME NEW t \in Tokens, Live(t)' PROVE \E r \in Deployed : Pending(r, t)'
    <3>1. Live(t) /\ row'[t] = row[t]
      BY <2>1, <2>2 DEF Live, Unexpired
    <3>2. backend # "memory"
      BY <2>1, <3>1 DEF RolloutInv, Live, Deployed
    <3>3. t > 0
      BY <1>0
    <3>4. Pending(s, t)'
      BY <2>1, <3>2, <3>3 DEF Pending
    <3> QED
      BY <2>1, <3>4 DEF Deployed
  <2>3. backend = "memory" => proc'[Solo].at # "down"
    BY <2>1 DEF Deployed
  <2> QED
    BY <2>1, <2>2, <2>3 DEF RolloutInv, Deployed
<1>3. ASSUME NEW s \in Replicas, ReconcileRead(s) PROVE RolloutInv'
  <2>0. /\ proc[s].at = "reading" /\ UNCHANGED <<backend, now, row>>
        /\ \A r \in Replicas \ {s} : proc'[r] = proc[r]
        /\ proc'[s].at = "revoking" /\ proc'[s].users = proc[s].users
    <3> DEFINE lost(S) == {t \in S : ~ Identified(t, proc[s].users)}
    <3> HIDE DEF lost
    <3>1. \/ proc' = [proc EXCEPT ![s].at = "revoking", ![s].more = FALSE, ![s].doomed = lost(Ahead(s))]
          \/ \E last \in Ahead(s) :
                proc' = [proc EXCEPT ![s].at = "revoking", ![s].more = TRUE, ![s].cursor = last,
                                     ![s].doomed = lost(PageUpTo(s, last))]
      BY <1>3 DEF ReconcileRead, lost
    <3>2. /\ \A r \in Replicas \ {s} : proc'[r] = proc[r]
          /\ proc'[s].at = "revoking" /\ proc'[s].users = proc[s].users
      <4>1. CASE proc' = [proc EXCEPT ![s].at = "revoking", ![s].more = FALSE,
                                      ![s].doomed = lost(Ahead(s))]
        BY <1>0, <4>1 DEF TypeOK, Process
      <4>2. ASSUME NEW last \in Ahead(s),
                   proc' = [proc EXCEPT ![s].at = "revoking", ![s].more = TRUE, ![s].cursor = last,
                                        ![s].doomed = lost(PageUpTo(s, last))]
            PROVE  /\ \A r \in Replicas \ {s} : proc'[r] = proc[r]
                   /\ proc'[s].at = "revoking" /\ proc'[s].users = proc[s].users
        BY <1>0, <4>2 DEF TypeOK, Process
      <4> QED
        BY <3>1, <4>1, <4>2
    <3> QED
      BY <1>3, <3>2 DEF ReconcileRead
  <2>1. ASSUME NEW t \in Tokens, Live(t), Pending(s, t) PROVE Pending(s, t)'
    <3>1. Identified(t, proc[s].users) => Pending(s, t)'
      BY <2>0 DEF Pending, Identified
    <3>2. CASE ~ Identified(t, proc[s].users)
      <4>1. t > proc[s].cursor
        BY <2>0, <2>1, <3>2 DEF Pending
      <4>2. t \in Ahead(s)
        BY <2>1, <4>1 DEF Ahead, Live
      <4>3. CASE proc'[s].doomed = {u \in Ahead(s) : ~ Identified(u, proc[s].users)}
        BY <2>0, <3>2, <4>2, <4>3 DEF Pending
      <4>4. ASSUME NEW last \in Ahead(s), proc'[s].more, proc'[s].cursor = last,
                   proc'[s].doomed = {u \in PageUpTo(s, last) : ~ Identified(u, proc[s].users)}
            PROVE  Pending(s, t)'
        <5>1. last \in Nat /\ t \in Nat
          BY <1>0 DEF Ahead
        <5>2. CASE t <= last
          BY <2>0, <3>2, <4>2, <4>4, <5>2 DEF Pending, PageUpTo
        <5>3. CASE t > last
          BY <2>0, <4>4, <5>3 DEF Pending
        <5> QED
          BY <5>1, <5>2, <5>3
      <4>5. \/ proc'[s].doomed = {u \in Ahead(s) : ~ Identified(u, proc[s].users)}
            \/ \E last \in Ahead(s) :
                  /\ proc'[s].more /\ proc'[s].cursor = last
                  /\ proc'[s].doomed = {u \in PageUpTo(s, last) : ~ Identified(u, proc[s].users)}
        <5> DEFINE lost(S) == {u \in S : ~ Identified(u, proc[s].users)}
        <5> HIDE DEF lost
        <5>1. \/ proc'[s].doomed = lost(Ahead(s))
              \/ \E last \in Ahead(s) : /\ proc'[s].more /\ proc'[s].cursor = last
                                        /\ proc'[s].doomed = lost(PageUpTo(s, last))
          <6>1. CASE proc' = [proc EXCEPT ![s].at = "revoking", ![s].more = FALSE,
                                          ![s].doomed = lost(Ahead(s))]
            BY <1>0, <6>1 DEF TypeOK, Process
          <6>2. ASSUME NEW last \in Ahead(s),
                       proc' = [proc EXCEPT ![s].at = "revoking", ![s].more = TRUE, ![s].cursor = last,
                                            ![s].doomed = lost(PageUpTo(s, last))]
                PROVE  /\ proc'[s].more /\ proc'[s].cursor = last
                       /\ proc'[s].doomed = lost(PageUpTo(s, last))
            BY <1>0, <6>2 DEF TypeOK, Process
          <6> QED
            BY <1>3, <6>1, <6>2 DEF ReconcileRead, lost
        <5> QED
          BY <5>1 DEF lost
      <4> QED
        BY <4>3, <4>4, <4>5
    <3> QED
      BY <3>1, <3>2
  <2>2. ASSUME NEW t \in Tokens, Live(t)' PROVE \E r \in Deployed : Pending(r, t)'
    <3>1. Live(t)
      BY <2>0, <2>2 DEF Live, Unexpired
    <3>2. PICK r \in Deployed : Pending(r, t)
      BY <3>1 DEF RolloutInv
    <3>3. Pending(r, t)'
      BY <1>0, <2>0, <2>1, <3>1, <3>2 DEF Pending, Identified
    <3> QED
      BY <3>3
  <2> QED
    BY <2>0, <2>2 DEF RolloutInv, Deployed
<1>4. ASSUME NEW s \in Replicas, ReconcileRevoke(s) PROVE RolloutInv'
  <2>0. /\ proc[s].at = "revoking" /\ UNCHANGED <<backend, now>> /\ Revoke(proc[s].doomed)
        /\ \A r \in Replicas \ {s} : proc'[r] = proc[r]
        /\ proc'[s].at = (IF proc[s].more THEN "reading" ELSE "serving")
        /\ proc'[s].users = proc[s].users /\ (proc[s].more => proc'[s].cursor = proc[s].cursor)
    BY <1>0, <1>4 DEF ReconcileRevoke, TypeOK, Process
  <2>1. ASSUME NEW t \in Tokens, Live(t)' PROVE \E r \in Deployed : Pending(r, t)'
    <3>1. Live(t) /\ Same(t) /\ t \notin proc[s].doomed
      BY <2>0, <2>1, RevokeLive
    <3>2. PICK r \in Deployed : Pending(r, t)
      BY <3>1 DEF RolloutInv
    <3>3. CASE r = s
      BY <2>0, <3>1, <3>2, <3>3 DEF Pending, Identified, Same
    <3>4. CASE r # s
      BY <1>0, <2>0, <3>1, <3>2, <3>4 DEF Pending, Identified, Same
    <3> QED
      BY <3>2, <3>3, <3>4
  <2>2. \A t \in Tokens : row'[t].is = "live" => row[t].is = "live"
    BY <2>0, RevokeLive
  <2> QED
    BY <2>0, <2>1, <2>2 DEF RolloutInv, Deployed
<1>5. ASSUME NEW t \in Tokens, NEW s \in Replicas, NEW id \in Ids, Login(t, s, id) PROVE RolloutInv'
  <2>0. /\ proc[s].at = "serving" /\ UNCHANGED <<backend, now, proc>>
        /\ row'[t].id = id /\ row'[t].role = proc[s].users[id]
        /\ \A u \in Tokens \ {t} : row'[u] = row[u]
    BY <1>5 DEF Login, Serving, NewRow, TypeOK
  <2>1. s \in Deployed /\ Pending(s, t)'
    BY <2>0 DEF RolloutInv, Pending, Identified
  <2>2. ASSUME NEW u \in Tokens \ {t}, Live(u)' PROVE \E r \in Deployed : Pending(r, u)'
    BY <2>0, <2>2 DEF RolloutInv, Live, Unexpired, Pending, Identified
  <2>3. backend = "memory" => proc[Solo].at # "down"
    BY <2>0, <2>1 DEF Deployed
  <2> QED
    BY <2>0, <2>1, <2>2, <2>3 DEF RolloutInv, Deployed
<1>6. ASSUME NEW s \in Replicas, Sweep(s) PROVE RolloutInv'
  <2>1. \A t \in Tokens : row'[t] = row[t] \/ row'[t].is = "gone"
    BY <1>0, <1>6 DEF Sweep, Deleted, Row
  <2> QED
    BY <1>6, <2>1, QuietRollout DEF Sweep, Live, Unexpired, Same
<1>7. ASSUME NEW q \in Requests, Touch(q) PROVE RolloutInv'
  <2>1. \A t \in Tokens : row'[t] = row[t] \/ row'[t] = [row[t] EXCEPT !.idle = now + Idle]
    BY <1>7 DEF Touch, TypeOK
  <2>2. \A t \in Tokens : /\ row'[t].is = row[t].is /\ row'[t].expires = row[t].expires
                         /\ Same(t)
    <3> SUFFICES ASSUME NEW t \in Tokens
                 PROVE  row'[t].is = row[t].is /\ row'[t].expires = row[t].expires /\ Same(t)
      OBVIOUS
    <3>1. row'[t] = row[t] \/ row'[t] = [row[t] EXCEPT !.idle = now + Idle]
      BY <2>1
    <3> QED
      BY <1>0, <3>1 DEF Row, Same
  <2> QED
    BY <1>7, <2>2, QuietRollout DEF Touch, Live, Unexpired
<1>8. CASE Tick
  <2>1. now' = now + 1 /\ UNCHANGED <<backend, proc, row>>
    BY <1>8 DEF Tick
  <2>2. \A t \in Tokens : Live(t)' => Live(t) /\ Same(t)
    BY <1>0, <2>1 DEF Live, Unexpired, Same, Row
  <2> QED
    BY <2>1, <2>2, QuietRollout
<1> QED
  <2>1. ASSUME NEW t \in Tokens, NEW r \in Replicas, Logout(t, r) PROVE RolloutInv'
    <3>1. Revoke({t}) /\ now' = now /\ UNCHANGED <<backend, proc>>
      BY <2>1 DEF Logout
    <3> QED
      BY <3>1, RevokeLive, QuietRollout
  <2>2. ASSUME NEW t \in Tokens, LoginUndo(t) PROVE RolloutInv'
    <3>1. (Revoke({t}) \/ row' = row) /\ now' = now /\ UNCHANGED <<backend, proc>>
      BY <2>2 DEF LoginUndo
    <3>2. CASE Revoke({t})
      BY <3>1, <3>2, RevokeLive, QuietRollout
    <3>3. CASE row' = row
      BY <3>1, <3>3, <1>u, QuietRollout
    <3> QED
      BY <3>1, <3>2, <3>3
  <2>3. ASSUME NEW q \in Requests, Identify(q) PROVE RolloutInv'
    <3>1. (Revoke({req[q].token}) \/ row' = row) /\ now' = now /\ UNCHANGED <<backend, proc>>
      BY <2>3 DEF Identify
    <3>2. CASE Revoke({req[q].token})
      BY <3>1, <3>2, RevokeLive, QuietRollout
    <3>3. CASE row' = row
      BY <3>1, <3>3, <1>u, QuietRollout
    <3> QED
      BY <3>1, <3>2, <3>3
  <2>4. ASSUME UNCHANGED <<backend, now, proc, row>> PROVE RolloutInv'
    BY <2>4, <1>u, QuietRollout
  <2>5. ASSUME NEW t \in Tokens, LoginAudited(t) \/ LoginAuditFails(t) \/ AuditLands(t)
        PROVE  UNCHANGED <<backend, now, proc, row>>
    BY <2>5 DEF LoginAudited, LoginAuditFails, AuditLands
  <2>6. ASSUME NEW q \in Requests,
               TouchFails(q) \/ (\E t \in Tokens, r \in Replicas : Begin(q, t, r))
        PROVE  UNCHANGED <<backend, now, proc, row>>
    BY <2>6 DEF TouchFails, Begin
  <2>7. UNCHANGED vars => UNCHANGED <<backend, now, proc, row>>
    BY DEF vars
  <2> QED
    BY <1>1, <1>2, <1>3, <1>4, <1>5, <1>6, <1>7, <1>8, <2>1, <2>2, <2>3, <2>4, <2>5, <2>6, <2>7 DEF Next

LEMMA RolloutMeans == TypeOK /\ RolloutInv => RolloutLeavesNone
BY DEF RolloutInv, RolloutLeavesNone, Live, Pending, Serving, Deployed

(* A rollout that has reached every replica leaves no session of a user or *)
(* of a role it took away, whatever the order of restarts and logins.      *)
THEOREM RolloutIsComplete == Spec => []RolloutLeavesNone
BY InitType, NextType, InitRollout, NextRollout, RolloutMeans, PTL DEF Spec

-----------------------------------------------------------------------------
(* What the decisions of AccessPolicy promise together, for every pair of  *)
(* configurations: the one a job was submitted under and the one it is     *)
(* read, deleted or run under.                                             *)


\* Who is behind an authenticated request: a listed person, whoever holds the
\* key, or whoever sits at a desktop without credentials.
Principal(c, q) ==
    IF BySession(q) THEN [kind |-> "person", id |-> q.session.id]
    ELSE IF ByKey(c, q) THEN [kind |-> "key holder", id |-> NoOne]
    ELSE [kind |-> "desktop", id |-> NoOne]

\* The session carries an identifier, which every login gives it.
NamesPerson(q) == BySession(q) => q.session.id # NoOne

\* Every scope that getOwnerScope() derives from a request is one that
\* assertOwnerIdentity() accepts: neither create() nor get() throws for it.
THEOREM ScopesAreValid ==
    ASSUME NEW c \in Config, NEW q \in Credentials, NoOne \notin UserIds
    PROVE  ValidOwner(Scope(c, q))
BY DEF Scope, ValidOwner, Kinds, Credentials, Session, BySession

\* The record that MayCreate() lets a request write is shown to the same
\* credentials under the same configuration: nobody is locked out of what he
\* just submitted.
THEOREM OwnJobIsShown ==
    ASSUME NEW c \in Config, NEW q \in Credentials, NEW type, NoOne \notin UserIds,
           MayCreate(c, q), NewJob(c, q, type) # NoJob
    PROVE  Shown(c, q, NewJob(c, q, type))
<1>1. HasPermission(RoleOf(c, q), "job:read")
  BY DEF MayCreate, Authorized, HasPermission, Granted, Role, Permission
<1>2. MatchesOwner(NewJob(c, q, type), Scope(c, q))
  BY DEF MatchesOwner, NewJob, Scope, Kinds
<1> QED
  BY <1>1, <1>2 DEF MayCreate, Authorized, Shown, Decision, DecideJobAccess, Input

\* A record is shown only to the principal who submitted it, whatever happened
\* to the configuration in between: another user, the holder of a key set later
\* and a desktop whose credentials were removed are not told about it.  An
\* API_KEY of spaces only counts as a key for the credentials and as none for
\* the ownership, which is why it is excluded.
THEOREM ShownToSubmitter ==
    ASSUME NEW c1 \in Config, NEW q1 \in Credentials, NEW c2 \in Config, NEW q2 \in Credentials, NEW type,
           c1.key # "blank", c2.key # "blank", NamesPerson(q2), NoOne \notin UserIds,
           MayCreate(c1, q1), Shown(c2, q2, NewJob(c1, q1, type))
    PROVE  Principal(c1, q1) = Principal(c2, q2)
<1>1. Input(NewJob(c1, q1, type), Scope(c2, q2)) = "owned"
  <2>1. Input(NewJob(c1, q1, type), Scope(c2, q2)) \in {"missing", "owned", "forbidden"}
    BY DEF Input
  <2> QED
    BY <2>1 DEF Shown, Decision, DecideJobAccess
<1>2. Scope(c1, q1) = Scope(c2, q2)
  BY <1>1 DEF Input, MatchesOwner, NewJob
<1>3. c1.key \in {"none", "set"} /\ c2.key \in {"none", "set"}
  BY DEF Config
<1>4. Authenticated(c1, q1) /\ Authenticated(c2, q2) /\ (BySession(q1) => q1.session.id # NoOne)
  BY DEF MayCreate, Shown, Authorized
<1>5. CASE BySession(q1)
  <2>1. Scope(c1, q1) = [kind |-> "user", id |-> q1.session.id]
    BY <1>4, <1>5 DEF Scope
  <2>2. BySession(q2) /\ Scope(c2, q2) = [kind |-> "user", id |-> q2.session.id]
    BY <1>2, <2>1 DEF Scope
  <2>3. q1.session.id = q2.session.id
    <3>1. Scope(c1, q1).id = q1.session.id /\ Scope(c2, q2).id = q2.session.id
      BY <2>1, <2>2
    <3> QED
      BY <1>2, <3>1
  <2> QED
    BY <1>5, <2>2, <2>3 DEF Principal
<1>6. CASE ~ BySession(q1)
  <2>1. ~ BySession(q2)
    BY <1>2, <1>6 DEF Scope, NamesPerson
  <2>2. c1.key = "set" <=> c2.key = "set"
    BY <1>2, <1>6, <2>1 DEF Scope
  <2>3. /\ ByKey(c1, q1) <=> c1.key = "set"
        /\ ByKey(c2, q2) <=> c2.key = "set"
    BY <1>3, <1>4, <1>6, <2>1 DEF Authenticated, ByKey, Open
  <2> QED
    BY <1>6, <2>1, <2>2, <2>3 DEF Principal
<1> QED
  BY <1>5, <1>6

\* A record is erased for its owner once it is finished, or for a logged-in
\* administrator with an identifier; nothing short of the permission starts
\* either, and the clean-up of an orphan starts only where there is no record.
THEOREM ErasedByRight ==
    ASSUME NEW c \in Config, NEW q \in Credentials, NEW job, NEW type
    PROVE  /\ Starts(c, q, job, type) # "refused" => Authorized(c, q, "job:delete")
           /\ Starts(c, q, job, type) = "erasure" =>
                 \/ MatchesOwner(job, Scope(c, q)) /\ job.status \in Finished
                 \/ BySession(q) /\ q.session.id # NoOne /\ q.session.role = "administrator"
           /\ Starts(c, q, job, type) = "orphan_cleanup" => job = NoJob
<1> DEFINE decision == Decision(c, q, job, "delete")
<1>1. /\ decision = "owner_access" => job # NoJob /\ MatchesOwner(job, Scope(c, q))
      /\ decision = "admin_delete_override" => SessionAdmin(Scope(c, q), RoleOf(c, q))
      /\ decision \in {"admin_orphan_cleanup", "desktop_orphan_cleanup"} => job = NoJob
      /\ decision \in {"owner_access", "not_found", "denied", "admin_delete_override",
                       "admin_orphan_cleanup", "desktop_orphan_cleanup"}
  <2>1. CASE Input(job, Scope(c, q)) = "missing"
    BY <2>1 DEF Decision, DecideJobAccess, Input
  <2>2. CASE Input(job, Scope(c, q)) = "owned"
    BY <2>2 DEF Decision, DecideJobAccess, Input
  <2>3. CASE Input(job, Scope(c, q)) = "forbidden"
    BY <2>3 DEF Decision, DecideJobAccess, Input
  <2> QED
    BY <2>1, <2>2, <2>3 DEF Input
<1>2. SessionAdmin(Scope(c, q), RoleOf(c, q)) =>
         BySession(q) /\ q.session.id # NoOne /\ q.session.role = "administrator"
  BY DEF SessionAdmin, Scope, RoleOf
<1> HIDE DEF decision
<1>3. /\ Starts(c, q, job, type) # "refused" => Authorized(c, q, "job:delete")
      /\ Starts(c, q, job, type) = "erasure" =>
            (decision = "owner_access" /\ job.status \in Finished) \/ decision = "admin_delete_override"
      /\ Starts(c, q, job, type) = "orphan_cleanup" =>
            decision \notin {"owner_access", "not_found", "denied", "admin_delete_override"}
  BY DEF Starts, decision
<1> QED
  BY <1>1, <1>2, <1>3

\* Whoever is no logged-in administrator cannot tell a record of somebody else
\* from an id that never existed: reading it has the same answer, and so has
\* naming it in an export.
THEOREM ForeignLooksMissing ==
    ASSUME NEW c \in Config, NEW q \in Credentials, NEW job, NEW asked \in BOOLEAN,
           job # NoJob, ~ MatchesOwner(job, Scope(c, q)), ~ SessionAdmin(Scope(c, q), RoleOf(c, q))
    PROVE  /\ ReadStatus(c, q, job) = ReadStatus(c, q, NoJob)
           /\ LinkState(c, q, asked, job, FALSE) = LinkState(c, q, asked, NoJob, FALSE)
<1>1. ASSUME NEW operation \in {"read", "export"}
      PROVE  /\ Decision(c, q, job, operation) = "not_found"
             /\ Decision(c, q, NoJob, operation) = "not_found"
  <2>1. Input(job, Scope(c, q)) = "forbidden" /\ Input(NoJob, Scope(c, q)) = "missing"
    BY DEF Input
  <2> QED
    BY <2>1 DEF Decision, DecideJobAccess
<1>2. ReadStatus(c, q, job) = ReadStatus(c, q, NoJob)
  BY <1>1 DEF ReadStatus, Shown, DenialStatus
<1>3. LinkState(c, q, asked, job, FALSE) = LinkState(c, q, asked, NoJob, FALSE)
  BY <1>1 DEF LinkState
<1> QED
  BY <1>2, <1>3

\* A job submitted by a person runs only while the user list names that very
\* identifier with a role that has the permission: a user who was removed, or
\* whose name was given to somebody else, runs nothing more.
THEOREM RunsForCurrentUser ==
    ASSUME NEW c1 \in Config, NEW q \in Credentials, NEW c2 \in Config, NEW type, NEW permission,
           NoOne \notin UserIds, MayCreate(c1, q), BySession(q),
           Execution(c2, NewJob(c1, q, type), permission) = "allowed"
    PROVE  /\ Consistent(c2)
           /\ \E u \in Users(c2) : u.id = q.session.id /\ HasPermission(u.role, permission)
<1> DEFINE job == NewJob(c1, q, type)
<1>1. /\ job.schema = 2 /\ job.source = "session"
      /\ job.actor = q.session.id /\ q.session.id # NoOne
  BY DEF NewJob, MayCreate
<1> HIDE DEF job
<1>2. ~ Unreadable(c2, job) /\ HasPermission(CurrentRole(c2, job), permission)
  <2>1. ~ Unreadable(c2, job)
    BY DEF Execution, job
  <2> QED
    BY <1>1, <2>1 DEF Execution, job
<1>3. Consistent(c2)
  BY <1>1, <1>2 DEF Unreadable
<1>4. Submitter(c2, job) = UsersById(c2, q.session.id)
  BY <1>1 DEF Submitter
<1>5. UsersById(c2, q.session.id) # {}
  BY <1>1, <1>2, <1>4 DEF CurrentRole, HasPermission, NotARole, Role
<1>6. PICK u \in UsersById(c2, q.session.id) : CurrentRole(c2, job) = u.role
  BY <1>1, <1>4, <1>5 DEF CurrentRole
<1> QED
  BY <1>2, <1>3, <1>6 DEF UsersById

\* As long as nothing was changed, what was admitted is executed: a user whose
\* session still agrees with the user list, and a holder of the key, are not
\* refused by authorizeJobExecution() for the permission they were admitted with.
THEOREM AdmittedJobRuns ==
    ASSUME NEW c \in Config, NEW q \in Credentials, NEW type, NoOne \notin UserIds,
           Consistent(c), MayCreate(c, q),
           BySession(q) => \E u \in Users(c) : u.id = q.session.id /\ u.role = q.session.role
    PROVE  Execution(c, NewJob(c, q, type), "job:create") = "allowed"
<1> DEFINE job == NewJob(c, q, type)
<1>1. /\ job.schema = 2 /\ job.source = (IF BySession(q) THEN "session" ELSE "api-key")
      /\ job.actor = (IF BySession(q) THEN q.session.id ELSE NoOne)
  BY DEF NewJob
<1> HIDE DEF job
<1>2. HasPermission(RoleOf(c, q), "job:create") /\ (BySession(q) => q.session.id # NoOne)
  BY DEF MayCreate, Authorized
<1>3. ~ Unreadable(c, job)
  BY <1>1, <1>2 DEF Unreadable
<1>4. CurrentRole(c, job) = RoleOf(c, q)
  <2>1. CASE BySession(q)
    <3>1. PICK u \in UsersById(c, q.session.id) : u.role = q.session.role
      BY <2>1 DEF UsersById
    <3>2. \A v \in UsersById(c, q.session.id) : v = u
      BY DEF UsersById, Users, Consistent
    <3>3. Submitter(c, job) = UsersById(c, q.session.id)
      BY <1>1, <2>1 DEF Submitter
    <3>4. (CHOOSE v \in Submitter(c, job) : TRUE) = u
      BY <3>1, <3>2, <3>3
    <3> QED
      BY <1>1, <1>2, <2>1, <3>1, <3>3, <3>4 DEF CurrentRole, RoleOf
  <2>2. CASE ~ BySession(q)
    BY <1>1, <2>2 DEF CurrentRole, RoleOf
  <2> QED
    BY <2>1, <2>2
<1>5. RoleOf(c, q) # NotARole
  BY <1>2 DEF HasPermission, NotARole, Role
<1> QED
  BY <1>1, <1>2, <1>3, <1>4, <1>5 DEF Execution, job
=============================================================================
