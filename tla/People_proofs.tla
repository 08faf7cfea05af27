----------------------------- MODULE People_proofs -----------------------------
(***************************************************************************)
(* Proofs about People for any number of accounts, employees, nodes,       *)
(* shifts, concurrent calls and overlaps.                                  *)
(*                                                                         *)
(* Versions of accounts are counted against their changes, whatever calls  *)
(* overlap (VersionsCount, CallsKnow): that gives SessionsCurrent, with    *)
(* what a login has seen of the employee link (LinkSeen).  What a          *)
(* call has checked stays true until another call commits, which is when   *)
(* it becomes overtaken (CallsCurrent): that gives the properties under    *)
(* Serial.                                                                 *)
(*                                                                         *)
(* A login counts the failures on its name and from its address before it  *)
(* is refused: unless it is overtaken there is room for one more           *)
(* (RejectionsFit), and every one that is overtaken is an overlap.         *)
(***************************************************************************)
EXTENDS People, FiniteSetTheorems, TLAPS

Running(c) == calls[c] # NoCall

\* An administrator: an active account with global, full access.
Admin(u) == Exists(u) /\ users[u].status = "active" /\ FullAccess(u)

\* The assignment n makes u an administrator.
AdminBy(u, n) ==
  /\ Exists(u) /\ users[u].status = "active"
  /\ n \in DOMAIN appointments
  /\ appointments[n].user = u /\ appointments[n].role = "system_administrator"
  /\ appointments[n].scope = "global" /\ ~appointments[n].over

\* The version an account was created with.
Born(u) == IF Accounts[u] = NoUser THEN 1 ELSE Accounts[u].version

\* Of the link of the account a login has missed at most, unless calls overlap
\* or the account was changed since, that there was none.
LinkSeen(row) ==
  /\ row.since <= changes[row.user]
  /\ Serial /\ row.since = changes[row.user] =>
       row.link \in {NoEmployee, users[row.user].employee}

\* The version of an account says how often it was changed, and that of a
\* session how often its account had been when the session began.
VersionsCount ==
  /\ \A u \in Users :
       IF Exists(u) THEN u \notin lost => users[u].version = Born(u) + changes[u]
       ELSE changes[u] = 0 /\ Accounts[u] = NoUser
  /\ \A s \in DOMAIN sessions :
       LET u == sessions[s].user
       IN  /\ Exists(u) /\ (u \notin lost => sessions[s].version = Born(u) + sessions[s].since)
           /\ LinkSeen(sessions[s])

\* What a call has checked of rows that are never removed.
Knows(q) ==
  /\ q.op = "login" =>
       /\ Exists(q.row.user)
       /\ q.row.user \notin lost => q.row.version = Born(q.row.user) + q.row.since
       /\ LinkSeen(q.row)
  /\ q.op = "account" => Exists(q.user) /\ q.new.version = q.seen.version + 1
  /\ q.op = "revoke" => q.appointment \in DOMAIN appointments
  /\ q.op = "hire" => (q.user # NoUser => Exists(q.user))
  /\ q.op = "move" => (q.parent # NoNode => Known(q.parent))

CallsKnow == \A c \in Calls : Running(c) => Knows(calls[c])

\* What a call has checked of rows that others may change.
Holds(q) ==
  /\ q.op = "account" =>
       q.seen = users[q.user] /\ (q.new.status # "active" => \E u \in Users \ {q.user} : Admin(u))
  /\ q.op = "revoke" => \E u \in Users, n \in DOMAIN appointments \ {q.appointment} : AdminBy(u, n)
  /\ q.op = "hire" => (q.user # NoUser => users[q.user].employee = NoEmployee)
  /\ q.op = "move" => (q.parent # NoNode => q.node \notin Above(parents, q.parent))
  /\ q.op = "post" => ~Clashes(PostsOf(q.row.employee), q.row.first, q.row.last)
  /\ q.op = "roster" => ~Clashes(RostersOf(q.row.target), q.row.first, q.row.last)

\* It holds until the call writes, unless the call is overtaken.
CallsCurrent == \A c \in Calls \ overtaken : Running(c) => Holds(calls[c])

\* Two rows that share a date are the same.
Apart(rows) == \A a, b \in rows : Meets(a, b.first, b.last) => a = b

AssignmentsApart ==
  /\ \A e \in Employees : Apart(PostsOf(e))
  /\ \A target \in Employees \cup Nodes : Apart(RostersOf(target))

PeopleInv ==
  /\ VersionsCount
  /\ CallsKnow
  /\ Serial => CallsCurrent /\ AdministratorRemains /\ Acyclic(parents) /\ AssignmentsApart

-----------------------------------------------------------------------------
(***************************************************************************)
(* Type correctness.                                                       *)
(***************************************************************************)

LEMMA CallType ==
  ASSUME TypeOK, NEW c \in Calls, Running(c)
  PROVE  calls[c] \in Call
BY DEF TypeOK, Running

\* What the calls of an operation hold.
LEMMA CallFields ==
  ASSUME NEW q \in Call
  PROVE  /\ q.op = "login" => q.row \in LoginSession
         /\ q.op = "reject" => q.name \in Names /\ q.client \in Clients
         /\ q.op = "account" =>
              q.user \in Users /\ q.seen \in Account /\ q.new \in Account /\ q.ends \in BOOLEAN
         /\ q.op = "create" => q.name \in Names /\ q.temporary \in BOOLEAN
         /\ q.op = "appoint" => q.row \in Appointment
         /\ q.op = "revoke" => q.appointment \in Nat
         /\ q.op = "hire" => q.employee \in Employees /\ q.user \in Users \cup {NoUser}
         /\ q.op = "move" => q.node \in Nodes /\ q.parent \in Nodes \cup {NoNode}
         /\ q.op = "post" => q.row \in Post
         /\ q.op = "roster" => q.row \in Roster
BY DEF Call

LEMMA BeginType ==
  ASSUME TypeOK, NEW c \in Calls, NEW call \in Call, Begin(c, call)
  PROVE  TypeOK'
BY DEF Begin, TypeOK, identity, workforce

LEMMA AccountType ==
  ASSUME TypeOK, NEW u \in Users, Exists(u)
  PROVE  users[u] \in Account
BY DEF TypeOK, Exists

LEMMA NewSessionType ==
  ASSUME TypeOK, NEW u \in Users, Exists(u)
  PROVE  NewSession(u) \in LoginSession
BY AccountType DEF NewSession, LoginSession, Account, TypeOK

\* A login that begins has seen every change and the link.
LEMMA NewSessionSeen ==
  ASSUME TypeOK, NEW u \in Users, Exists(u)
  PROVE  LinkSeen(NewSession(u))
BY AccountType DEF LinkSeen, NewSession, TypeOK

LEMMA SessionType ==
  ASSUME TypeOK, NEW s \in DOMAIN sessions
  PROVE  s \in Nat /\ sessions[s] \in LoginSession /\ sessions[s].user \in Users
<1>1. sessions \in Seq(LoginSession)
  BY DEF TypeOK
<1>2. s \in Nat /\ sessions[s] \in LoginSession
  BY <1>1
<1>3. QED
  BY <1>2 DEF LoginSession

LEMMA AppointmentType ==
  ASSUME TypeOK, NEW n \in DOMAIN appointments
  PROVE  n \in Nat /\ appointments[n] \in Appointment /\ appointments[n].user \in Users
<1>1. appointments \in Seq(Appointment)
  BY DEF TypeOK
<1>2. n \in Nat /\ appointments[n] \in Appointment
  BY <1>1
<1>3. QED
  BY <1>2 DEF Appointment

LEMMA NewAccountType ==
  ASSUME NEW name \in Names, NEW temporary \in BOOLEAN
  PROVE  NewAccount(name, temporary) \in Account
BY DEF NewAccount, Account

-----------------------------------------------------------------------------
(***************************************************************************)
(* The calls that begin.                                                   *)
(***************************************************************************)

\* A call begins, and what it relies on is so.
Begins(c) ==
  \E call \in Call : Begin(c, call) /\ Knows(call) /\ (Serial => Holds(call))

LEMMA AdminAssigned ==
  ASSUME NEW u \in Users
  PROVE  /\ Admin(u) <=> \E n \in DOMAIN appointments : AdminBy(u, n)
         /\ Admin(u)' <=> \E n \in DOMAIN appointments' : AdminBy(u, n)'
BY DEF Admin, AdminBy, FullAccess, Grants

LEMMA AdministerBegins ==
  ASSUME TypeOK, PeopleInv, NEW c \in Calls, NEW s \in DOMAIN sessions, Administer(c, s)
  PROVE  Begins(c)
<1> DEFINE me == sessions[s].user
<1>0. me \in Users /\ Exists(me) /\ (Valid(s) => users[me].status = "active")
  BY SessionType DEF PeopleInv, VersionsCount, Valid
<1>1. ASSUME NEW u \in Users, NEW new \in Account, Exists(u), NEW ends \in BOOLEAN,
             ChangesAccount(c, u, new, ends), new.version = users[u].version,
             Serial /\ new.status # "active" => \E other \in Users \ {u} : Admin(other)
      PROVE  Begins(c)
  <2> DEFINE row == [new EXCEPT !.version = @ + 1]
             call == [op |-> "account", user |-> u, seen |-> users[u], new |-> row, ends |-> ends]
  <2>1. users[u] \in Account
    BY <1>1, AccountType
  <2>2. row \in Account /\ row.status = new.status /\ row.version = new.version + 1
    BY DEF Account
  <2>3. call \in Call
    BY <2>1, <2>2 DEF Call
  <2>4. Knows(call)
    BY <1>1, <2>2 DEF Knows
  <2>5. Serial => Holds(call)
    BY <1>1, <2>2 DEF Holds
  <2>6. Begin(c, call)
    BY <1>1 DEF ChangesAccount
  <2>7. QED
    BY <2>3, <2>4, <2>5, <2>6 DEF Begins
<1>2. CASE ChangePassword(c, s)
  <2>1. [users[me] EXCEPT !.temporary = FALSE] \in Account
    BY <1>0, AccountType DEF Account
  <2>2. /\ [users[me] EXCEPT !.temporary = FALSE].version = users[me].version
        /\ [users[me] EXCEPT !.temporary = FALSE].status = "active"
    BY <1>0, <1>2, AccountType DEF Account, ChangePassword
  <2>3. QED
    BY <1>0, <1>1, <1>2, <2>1, <2>2 DEF ChangePassword
<1>3. ASSUME NEW u \in Users, NEW status \in {"active", "disabled"}, SetUserStatus(c, s, u, status)
      PROVE  Begins(c)
  <2>1. Exists(u) /\ users[u] \in Account
    BY <1>3, AccountType DEF SetUserStatus, MaySetStatus
  <2>2. /\ [users[u] EXCEPT !.status = status] \in Account
        /\ [users[u] EXCEPT !.status = status].version = users[u].version
        /\ [users[u] EXCEPT !.status = status].status = status
    BY <2>1 DEF Account
  <2>3. ASSUME Serial, status # "active"
        PROVE  \E other \in Users \ {u} : Admin(other)
    <3>1. CASE FullAccess(u)
      BY <1>0, <1>3, <2>3, <3>1 DEF SetUserStatus, MaySetStatus, Manages, Admin
    <3>2. CASE ~FullAccess(u)
      BY <2>3, <3>2 DEF PeopleInv, AdministratorRemains, Admin
    <3>3. QED
      BY <3>1, <3>2
  <2>4. QED
    BY <1>1, <1>3, <2>1, <2>2, <2>3 DEF SetUserStatus
<1>4. ASSUME NEW u \in Users, NEW name \in Names, NEW link \in Employees \cup {NoEmployee},
             UpdateUser(c, s, u, name, link)
      PROVE  Begins(c)
  <2>1. Exists(u) /\ users[u] \in Account
    BY <1>4, AccountType DEF UpdateUser, MayUpdate
  <2>2. /\ [users[u] EXCEPT !.name = name, !.employee = link] \in Account
        /\ [users[u] EXCEPT !.name = name, !.employee = link].version = users[u].version
        /\ [users[u] EXCEPT !.name = name, !.employee = link].status = users[u].status
    BY <2>1 DEF Account
  <2>3. ASSUME Serial, users[u].status # "active"
        PROVE  \E other \in Users \ {u} : Admin(other)
    BY <2>3 DEF PeopleInv, AdministratorRemains, Admin
  <2>4. QED
    BY <1>1, <1>4, <2>1, <2>2, <2>3 DEF UpdateUser
<1>5. ASSUME NEW name \in Names, NEW temporary \in BOOLEAN, CreateUser(c, s, name, temporary)
      PROVE  Begins(c)
  <2> DEFINE call == [op |-> "create", name |-> name, temporary |-> temporary]
  <2>1. call \in Call /\ Knows(call) /\ Holds(call)
    BY DEF Call, Knows, Holds
  <2>2. QED
    BY <1>5, <2>1 DEF CreateUser, Begins
<1>6. ASSUME NEW u \in Users, NEW role \in Role, NEW scope \in Scopes, AssignRole(c, s, u, role, scope)
      PROVE  Begins(c)
  <2> DEFINE row == [user |-> u, role |-> role, scope |-> scope, over |-> FALSE]
             call == [op |-> "appoint", row |-> row]
  <2>1. row \in Appointment
    BY PeopleAssumption DEF Appointment
  <2>2. Begin(c, call)
    BY <1>6 DEF AssignRole
  <2> HIDE DEF row
  <2>3. call \in Call /\ Knows(call) /\ Holds(call)
    BY <2>1 DEF Call, Knows, Holds
  <2>4. QED
    BY <2>2, <2>3 DEF Begins
<1>7. ASSUME NEW n \in DOMAIN appointments, RevokeRole(c, s, n)
      PROVE  Begins(c)
  <2> DEFINE call == [op |-> "revoke", appointment |-> n]
  <2>1. call \in Call /\ Knows(call)
    BY AppointmentType DEF Call, Knows
  <2>2. ASSUME Serial
        PROVE  \E u \in Users, m \in DOMAIN appointments \ {n} : AdminBy(u, m)
    <3>1. CASE appointments[n].role = "system_administrator"
      <4>1. Admin(me) /\ appointments[n].user # me
        BY <1>0, <1>7, <3>1 DEF RevokeRole, MayRevoke, Manages, Admin
      <4>2. PICK m \in DOMAIN appointments : AdminBy(me, m)
        BY <1>0, <4>1, AdminAssigned
      <4>3. QED
        BY <1>0, <4>1, <4>2 DEF AdminBy
    <3>2. CASE appointments[n].role # "system_administrator"
      <4>1. PICK u \in Users : Admin(u)
        BY <2>2 DEF PeopleInv, AdministratorRemains, Admin
      <4>2. PICK m \in DOMAIN appointments : AdminBy(u, m)
        BY <4>1, AdminAssigned
      <4>3. QED
        BY <3>2, <4>2 DEF AdminBy
    <3>3. QED
      BY <3>1, <3>2
  <2>3. Serial => Holds(call)
    BY <2>2 DEF Holds
  <2>4. QED
    BY <1>7, <2>1, <2>3 DEF RevokeRole, Begins
<1>8. QED
  BY <1>2, <1>3, <1>4, <1>5, <1>6, <1>7 DEF Administer

LEMMA PeriodDays ==
  ASSUME NEW p \in Periods
  PROVE  p[1] \in Days /\ p[2] \in Days
BY PeopleAssumption

LEMMA ArrangeBegins ==
  ASSUME TypeOK, NEW c \in Calls, Arrange(c)
  PROVE  Begins(c)
<1>1. ASSUME NEW e \in Employees, NEW u \in Users \cup {NoUser}, CreateEmployee(c, e, u)
      PROVE  Begins(c)
  <2> DEFINE call == [op |-> "hire", employee |-> e, user |-> u]
  <2>1. call \in Call /\ Knows(call) /\ Holds(call)
    BY <1>1 DEF Call, Knows, Holds, CreateEmployee, MayHire
  <2>2. QED
    BY <1>1, <2>1 DEF CreateEmployee, Begins
<1>2. ASSUME NEW n \in Nodes, NEW parent \in Nodes \cup {NoNode}, MoveNode(c, n, parent)
      PROVE  Begins(c)
  <2> DEFINE call == [op |-> "move", node |-> n, parent |-> parent]
  <2>1. call \in Call /\ Knows(call) /\ Holds(call)
    BY <1>2 DEF Call, Knows, Holds, MoveNode, MayMove
  <2>2. QED
    BY <1>2, <2>1 DEF MoveNode, Begins
<1>3. ASSUME NEW p \in Periods, NEW e \in Employees, NEW n \in Nodes,
             AssignNode(c, e, n, p[1], p[2])
      PROVE  Begins(c)
  <2> DEFINE row == [employee |-> e, node |-> n, first |-> p[1], last |-> p[2]]
             call == [op |-> "post", row |-> row]
  <2>1. row \in Post
    BY PeriodDays DEF Post
  <2>2. call \in Call
    BY <2>1 DEF Call
  <2>3. Knows(call) /\ Holds(call)
    BY <1>3 DEF Knows, Holds, AssignNode, MayPost
  <2>4. QED
    BY <1>3, <2>2, <2>3 DEF AssignNode, Begins
<1>4. ASSUME NEW p \in Periods, NEW target \in Employees \cup Nodes, NEW shift \in Shifts,
             AssignShift(c, target, shift, p[1], p[2])
      PROVE  Begins(c)
  <2> DEFINE row == [target |-> target, shift |-> shift, first |-> p[1], last |-> p[2]]
             call == [op |-> "roster", row |-> row]
  <2>1. row \in Roster
    BY PeriodDays DEF Roster
  <2>2. call \in Call
    BY <2>1 DEF Call
  <2>3. Knows(call) /\ Holds(call)
    BY <1>4 DEF Knows, Holds, AssignShift, MayRoster
  <2>4. QED
    BY <1>4, <2>2, <2>3 DEF AssignShift, Begins
<1>5. QED
  BY <1>1, <1>2, <1>3, <1>4 DEF Arrange

LEMMA LoginBegins ==
  ASSUME TypeOK, PeopleInv, NEW c \in Calls, NEW name \in Names, NEW client \in Clients,
         NEW right \in BOOLEAN, Login(c, name, client, right)
  PROVE  Begins(c)
<1>1. ASSUME NEW u \in Named(name), Begin(c, [op |-> "login", row |-> NewSession(u)])
      PROVE  Begins(c)
  <2> DEFINE call == [op |-> "login", row |-> NewSession(u)]
  <2>1. u \in Users /\ Exists(u)
    BY DEF Named
  <2>2. call \in Call
    BY <2>1, NewSessionType DEF Call
  <2>3. LinkSeen(NewSession(u))
    BY <2>1, NewSessionSeen
  <2>4. Knows(call) /\ Holds(call)
    BY <2>1, <2>3 DEF Knows, Holds, PeopleInv, VersionsCount, NewSession
  <2>5. QED
    BY <1>1, <2>2, <2>4 DEF Begins
<1>2. CASE Begin(c, [op |-> "reject", name |-> name, client |-> client])
  <2> DEFINE call == [op |-> "reject", name |-> name, client |-> client]
  <2>1. call \in Call /\ Knows(call) /\ Holds(call)
    BY DEF Call, Knows, Holds
  <2>2. QED
    BY <1>2, <2>1 DEF Begins
<1>3. QED
  BY <1>1, <1>2 DEF Login

\* The end of a call keeps the shape of the calls and the counters.
LEMMA CommittedType ==
  ASSUME TypeOK, NEW c \in Calls, NEW op, Ready(c, op), Committed(c)
  PROVE  /\ calls' \in [Calls -> Call \cup {NoCall}]
         /\ writes' \in 0 .. MaxWrites
         /\ overtaken' \subseteq Calls
         /\ overlaps' \in 0 .. MaxOverlaps
BY PeopleAssumption DEF TypeOK, Ready, Committed

\* A row that a stale call has written is a row.
LEMMA WrittenType ==
  ASSUME NEW now \in Account, NEW seen \in Account, NEW new \in Account
  PROVE  Written(now, seen, new) \in Account
BY DEF Written, Account

LEMMA EndedType ==
  ASSUME TypeOK, NEW u
  PROVE  /\ Ended(u) \in Seq(LoginSession)
         /\ DOMAIN Ended(u) = DOMAIN sessions
         /\ \A s \in DOMAIN sessions :
              /\ Ended(u)[s].user = sessions[s].user
              /\ Ended(u)[s].version = sessions[s].version
              /\ Ended(u)[s].since = sessions[s].since /\ Ended(u)[s].link = sessions[s].link
              /\ ~Ended(u)[s].over => ~sessions[s].over
<1>1. sessions \in Seq(LoginSession)
  BY DEF TypeOK
<1>2. \A s \in DOMAIN sessions : sessions[s] \in LoginSession
  BY <1>1
<1>3. \A s \in DOMAIN sessions :
        Ended(u)[s] = IF sessions[s].user = u THEN [sessions[s] EXCEPT !.over = TRUE] ELSE sessions[s]
  BY DEF Ended
<1>4. \A s \in DOMAIN sessions : Ended(u)[s] \in LoginSession
  BY <1>2, <1>3 DEF LoginSession
<1>5. DOMAIN Ended(u) = DOMAIN sessions /\ DOMAIN sessions = 1 .. Len(sessions)
  BY <1>1 DEF Ended
<1>6. Ended(u) \in Seq(LoginSession)
  <2>1. Ended(u) \in [1 .. Len(sessions) -> LoginSession]
    BY <1>4, <1>5 DEF Ended
  <2>2. Len(sessions) \in Nat
    BY <1>1
  <2>3. QED
    BY <2>1, <2>2
<1>7. QED
  BY <1>2, <1>3, <1>5, <1>6 DEF LoginSession

LEMMA EndedAt ==
  ASSUME TypeOK, NEW s \in DOMAIN sessions, sessions' = [sessions EXCEPT ![s].over = TRUE]
  PROVE  sessions' \in Seq(LoginSession)
<1>1. sessions \in Seq(LoginSession)
  BY DEF TypeOK
<1>2. [sessions[s] EXCEPT !.over = TRUE] \in LoginSession
  BY SessionType DEF LoginSession
<1>3. QED
  BY <1>1, <1>2

LEMMA WriteType ==
  ASSUME TypeOK, CallsKnow, NEW c \in Calls, Write(c)
  PROVE  TypeOK'
<1> DEFINE q == calls[c]
<1>1. CASE Abandon(c)
  BY <1>1 DEF Abandon, TypeOK, identity, workforce
<1>2. CASE WriteLogin(c)
  <2>1. q.row \in LoginSession
    BY <1>2, CallType, CallFields DEF WriteLogin, Ready, Running
  <2>2. sessions' \in Seq(LoginSession)
    BY <1>2, <2>1 DEF WriteLogin, TypeOK
  <2>3. QED
    BY <1>2, <2>2, CommittedType DEF WriteLogin, TypeOK, workforce
<1>3. CASE WriteFailure(c)
  <2>1. q.name \in Names /\ q.client \in Clients
    BY <1>3, CallType, CallFields DEF WriteFailure, Ready, Running
  <2>2. failures' \in [Names -> [Clients -> Nat]]
    BY <1>3, <2>1 DEF WriteFailure, TypeOK
  <2>3. QED
    BY <1>3, <2>2, CommittedType DEF WriteFailure, TypeOK, workforce
<1>4. CASE WriteAccount(c)
  <2>1. q.user \in Users /\ q.seen \in Account /\ q.new \in Account
    BY <1>4, CallType, CallFields DEF WriteAccount, Ready, Running
  <2>2. Exists(q.user)
    BY <1>4 DEF CallsKnow, Knows, WriteAccount, Ready, Running
  <2>3. Written(users[q.user], q.seen, q.new) \in Account
    BY <2>1, <2>2, AccountType, WrittenType
  <2>4. users' \in [Users -> Account \cup {NoUser}]
    BY <1>4, <2>1, <2>3 DEF WriteAccount, TypeOK
  <2>5. sessions' \in Seq(LoginSession)
    BY <1>4, EndedType DEF WriteAccount, TypeOK
  <2>6. changes' \in [Users -> Nat] /\ lost' \subseteq Users
    BY <1>4, <2>1 DEF WriteAccount, TypeOK
  <2>7. QED
    BY <1>4, <2>4, <2>5, <2>6, CommittedType DEF WriteAccount, TypeOK, workforce
<1>5. ASSUME NEW u \in Users, WriteUser(c, u)
      PROVE  TypeOK'
  <2>1. q.name \in Names /\ q.temporary \in BOOLEAN
    BY <1>5, CallType, CallFields DEF WriteUser, Ready, Running
  <2>2. users' \in [Users -> Account \cup {NoUser}]
    BY <1>5, <2>1, NewAccountType DEF WriteUser, TypeOK
  <2>3. QED
    BY <1>5, <2>2, CommittedType DEF WriteUser, TypeOK, workforce
<1>6. CASE WriteAppointment(c)
  <2>1. q.row \in Appointment
    BY <1>6, CallType, CallFields DEF WriteAppointment, Ready, Running
  <2>2. appointments' \in Seq(Appointment)
    BY <1>6, <2>1 DEF WriteAppointment, TypeOK
  <2>3. QED
    BY <1>6, <2>2, CommittedType DEF WriteAppointment, TypeOK, workforce
<1>7. CASE WriteRevocation(c)
  <2>1. q.appointment \in DOMAIN appointments
    BY <1>7 DEF CallsKnow, Knows, WriteRevocation, Ready, Running
  <2>2. [appointments[q.appointment] EXCEPT !.over = TRUE] \in Appointment
    BY <2>1, AppointmentType DEF Appointment
  <2>3. appointments \in Seq(Appointment)
    BY DEF TypeOK
  <2>4. appointments' \in Seq(Appointment)
    BY <1>7, <2>1, <2>2, <2>3 DEF WriteRevocation
  <2>5. QED
    BY <1>7, <2>4, CommittedType DEF WriteRevocation, TypeOK, workforce
<1>8. CASE WriteEmployee(c)
  <2>1. q.employee \in Employees /\ q.user \in Users \cup {NoUser}
    BY <1>8, CallType, CallFields DEF WriteEmployee, Ready, Running
  <2>2. ASSUME q.user # NoUser
        PROVE  [users[q.user] EXCEPT !.employee = q.employee] \in Account
    <3>1. Exists(q.user)
      BY <1>8, <2>2 DEF CallsKnow, Knows, WriteEmployee, Ready, Running
    <3>2. QED
      BY <2>1, <2>2, <3>1, AccountType DEF Account
  <2>3. users' \in [Users -> Account \cup {NoUser}]
    BY <1>8, <2>1, <2>2 DEF WriteEmployee, TypeOK
  <2>4. employees' \in [Employees -> EmployeeStatus \cup {Missing}]
    BY <1>8, <2>1 DEF WriteEmployee, TypeOK, EmployeeStatus
  <2>5. QED
    BY <1>8, <2>3, <2>4, CommittedType DEF WriteEmployee, TypeOK
<1>9. CASE WriteMove(c)
  <2>1. q.node \in Nodes /\ q.parent \in Nodes \cup {NoNode}
    BY <1>9, CallType, CallFields DEF WriteMove, Ready, Running
  <2>2. parents' \in [Nodes -> Nodes \cup {NoNode, Missing}]
    BY <1>9, <2>1 DEF WriteMove, TypeOK
  <2>3. QED
    BY <1>9, <2>2, CommittedType DEF WriteMove, TypeOK, identity
<1>10. CASE WritePost(c)
  <2>1. q.row \in Post
    BY <1>10, CallType, CallFields DEF WritePost, Ready, Running
  <2>2. posts' \in Seq(Post)
    BY <1>10, <2>1 DEF WritePost, TypeOK
  <2>3. QED
    BY <1>10, <2>2, CommittedType DEF WritePost, TypeOK, identity
<1>11. CASE WriteRoster(c)
  <2>1. q.row \in Roster
    BY <1>11, CallType, CallFields DEF WriteRoster, Ready, Running
  <2>2. rosters' \in Seq(Roster)
    BY <1>11, <2>1 DEF WriteRoster, TypeOK
  <2>3. QED
    BY <1>11, <2>2, CommittedType DEF WriteRoster, TypeOK, identity
<1>12. QED
  BY <1>1, <1>2, <1>3, <1>4, <1>5, <1>6, <1>7, <1>8, <1>9, <1>10, <1>11 DEF Write

\* The changes of one step.
LEMMA SingleType ==
  ASSUME TypeOK
  PROVE  /\ \A s \in DOMAIN sessions : EndSession(s) => TypeOK'
         /\ \A u \in Users, name \in Names : Bootstrap(u, name) => TypeOK'
         /\ \A name \in Names, client \in Clients : ForgetFailure(name, client) => TypeOK'
         /\ \A e \in Employees, status \in EmployeeStatus : SetEmployeeStatus(e, status) => TypeOK'
         /\ \A n \in Nodes, parent \in Nodes \cup {NoNode} : CreateNode(n, parent) => TypeOK'
<1>0. Changed => writes' \in 0 .. MaxWrites /\ overtaken' \subseteq Calls
  BY PeopleAssumption DEF Changed, TypeOK
<1>1. ASSUME NEW s \in DOMAIN sessions, EndSession(s)
      PROVE  TypeOK'
  <2>1. sessions' \in Seq(LoginSession)
    BY <1>1, EndedAt DEF EndSession
  <2>2. QED
    BY <1>0, <1>1, <2>1 DEF EndSession, Changed, TypeOK, workforce
<1>2. ASSUME NEW u \in Users, NEW name \in Names, Bootstrap(u, name)
      PROVE  TypeOK'
  <2>1. users' \in [Users -> Account \cup {NoUser}]
    BY <1>2, NewAccountType DEF Bootstrap, TypeOK
  <2>2. [user |-> u, role |-> "system_administrator", scope |-> "global", over |-> FALSE]
          \in Appointment
    BY DEF Appointment, Role
  <2>3. appointments' \in Seq(Appointment)
    BY <1>2, <2>2 DEF Bootstrap, TypeOK
  <2>4. QED
    BY <1>0, <1>2, <2>1, <2>3 DEF Bootstrap, Changed, TypeOK, workforce
<1>3. ASSUME NEW name \in Names, NEW client \in Clients, ForgetFailure(name, client)
      PROVE  TypeOK'
  <2>1. failures' \in [Names -> [Clients -> Nat]]
    BY <1>3 DEF ForgetFailure, TypeOK
  <2>2. QED
    BY <1>0, <1>3, <2>1 DEF ForgetFailure, Changed, TypeOK, workforce
<1>4. ASSUME NEW e \in Employees, NEW status \in EmployeeStatus, SetEmployeeStatus(e, status)
      PROVE  TypeOK'
  BY <1>0, <1>4 DEF SetEmployeeStatus, Changed, TypeOK, identity
<1>5. ASSUME NEW n \in Nodes, NEW parent \in Nodes \cup {NoNode}, CreateNode(n, parent)
      PROVE  TypeOK'
  BY <1>0, <1>5 DEF CreateNode, Changed, TypeOK, identity
<1>6. QED
  BY <1>1, <1>2, <1>3, <1>4, <1>5

LEMMA StepType == TypeOK /\ PeopleInv /\ [Next]_vars => TypeOK'
<1> SUFFICES ASSUME TypeOK, PeopleInv, [Next]_vars PROVE TypeOK'
  OBVIOUS
<1>1. CASE UNCHANGED vars
  BY <1>1 DEF TypeOK, vars, identity, workforce, history
<1>2. ASSUME NEW c \in Calls,
             \/ \E name \in Names, client \in Clients, right \in BOOLEAN : Login(c, name, client, right)
             \/ \E s \in DOMAIN sessions : Administer(c, s)
             \/ Arrange(c)
      PROVE  TypeOK'
  BY <1>2, LoginBegins, AdministerBegins, ArrangeBegins, BeginType DEF Begins
<1>3. QED
  BY <1>1, <1>2, WriteType, SingleType DEF Next, PeopleInv

LEMMA InitType == Init => TypeOK
<1> SUFFICES ASSUME Init PROVE TypeOK
  OBVIOUS
<1>1. /\ users \in [Users -> Account \cup {NoUser}]
      /\ changes \in [Users -> Nat]
      /\ appointments \in Seq(Appointment)
      /\ failures \in [Names -> [Clients -> Nat]]
  BY PeopleAssumption, FailedAssumption DEF Init
<1>2. sessions \in Seq(LoginSession)
  <2>1. LoggedIn \in Seq({u \in Users : Accounts[u] # NoUser})
    BY PeopleAssumption
  <2>2. /\ DOMAIN LoggedIn = 1 .. Len(LoggedIn) /\ Len(LoggedIn) \in Nat
        /\ \A n \in DOMAIN LoggedIn : LoggedIn[n] \in Users /\ Accounts[LoggedIn[n]] # NoUser
    BY <2>1
  <2>3. ASSUME NEW n \in DOMAIN LoggedIn
        PROVE  NewSession(LoggedIn[n]) \in LoginSession
    <3>1. users[LoggedIn[n]] \in Account /\ changes[LoggedIn[n]] = 0 /\ LoggedIn[n] \in Users
      BY <1>1, <2>2 DEF Init
    <3>2. QED
      BY <3>1 DEF NewSession, LoginSession, Account
  <2>4. sessions \in [1 .. Len(LoggedIn) -> LoginSession]
    BY <2>2, <2>3 DEF Init
  <2>5. QED
    BY <2>2, <2>4
<1>3. /\ employees \in [Employees -> EmployeeStatus \cup {Missing}]
      /\ parents \in [Nodes -> Nodes \cup {NoNode, Missing}]
      /\ posts \in Seq(Post) /\ rosters \in Seq(Roster)
  BY PeopleAssumption DEF Init
<1>4. /\ calls \in [Calls -> Call \cup {NoCall}]
      /\ lost \subseteq Users
      /\ writes \in 0 .. MaxWrites /\ overlaps \in 0 .. MaxOverlaps
      /\ overtaken \subseteq Calls
  BY PeopleAssumption DEF Init
<1>5. QED
  BY <1>1, <1>2, <1>3, <1>4 DEF TypeOK

-----------------------------------------------------------------------------
(***************************************************************************)
(* Versions of accounts and sessions, whatever calls overlap.              *)
(***************************************************************************)

LEMMA InitVersions == Init => VersionsCount /\ CallsKnow
<1> SUFFICES ASSUME Init PROVE VersionsCount /\ CallsKnow
  OBVIOUS
<1>1. TypeOK
  BY InitType
<1>2. ASSUME NEW u \in Users
      PROVE  IF Exists(u) THEN users[u].version = Born(u) + changes[u]
             ELSE changes[u] = 0 /\ Accounts[u] = NoUser
  <2>1. CASE Exists(u)
    BY <1>1, <2>1, AccountType DEF Init, Exists, Born, Account
  <2>2. CASE ~Exists(u)
    BY <2>2 DEF Init, Exists
  <2>3. QED
    BY <2>1, <2>2
<1>3. ASSUME NEW s \in DOMAIN sessions
      PROVE  /\ Exists(sessions[s].user)
             /\ sessions[s].version = Born(sessions[s].user) + sessions[s].since
             /\ LinkSeen(sessions[s])
  <2>1. s \in DOMAIN LoggedIn /\ sessions[s] = NewSession(LoggedIn[s])
    BY DEF Init
  <2>2. LoggedIn[s] \in Users /\ Accounts[LoggedIn[s]] # NoUser
    <3>1. LoggedIn \in Seq({u \in Users : Accounts[u] # NoUser})
      BY PeopleAssumption
    <3>2. QED
      BY <2>1, <3>1
  <2>3. /\ sessions[s].user = LoggedIn[s] /\ sessions[s].since = changes[LoggedIn[s]]
        /\ sessions[s].version = users[LoggedIn[s]].version
    BY <2>1 DEF NewSession
  <2>4. Exists(LoggedIn[s])
    BY <2>2 DEF Exists, Init
  <2>5. LinkSeen(sessions[s])
    BY <1>1, <2>1, <2>2, <2>4, NewSessionSeen
  <2>6. QED
    BY <1>2, <2>2, <2>3, <2>4, <2>5
<1>4. CallsKnow
  BY DEF Init, CallsKnow, Running
<1>5. QED
  BY <1>2, <1>3, <1>4 DEF VersionsCount

\* A step that counts no change of an account leaves its link, or gives it one.
LinkKept(u) ==
  /\ changes'[u] \in Nat /\ changes[u] <= changes'[u]
  /\ Serial' => Serial
  /\ Serial' /\ changes'[u] = changes[u] =>
       users[u].employee \in {NoEmployee, users'[u].employee}

LinksKept == \A u \in Users : Exists(u) => LinkKept(u)

\* What no step does: remove an account, an assignment or a node, or find a
\* lost version again.
RowsKept ==
  /\ \A u \in Users : Exists(u) => Exists(u)'
  /\ DOMAIN appointments \subseteq DOMAIN appointments'
  /\ \A n \in Nodes : Known(n) => Known(n)'
  /\ lost \subseteq lost'

LEMMA WriteKeepsRows ==
  ASSUME TypeOK, CallsKnow, NEW c \in Calls, Write(c)
  PROVE  RowsKept
<1> DEFINE q == calls[c]
<1> USE DEF RowsKept, Exists, Known
<1>1. CASE Abandon(c) \/ WriteLogin(c) \/ WriteFailure(c) \/ WritePost(c) \/ WriteRoster(c)
  BY <1>1 DEF Abandon, WriteLogin, WriteFailure, WritePost, WriteRoster, identity, workforce
<1>2. CASE WriteAccount(c)
  <2>1. q.user \in Users /\ q.seen \in Account /\ q.new \in Account
    BY <1>2, CallType, CallFields DEF WriteAccount, Ready, Running
  <2>2. users[q.user] # NoUser
    BY <1>2 DEF CallsKnow, Knows, WriteAccount, Ready, Running
  <2>3. Written(users[q.user], q.seen, q.new) \in Account
    BY <2>1, <2>2, AccountType, WrittenType
  <2>4. \A u \in Users : users[u] # NoUser => users'[u] # NoUser
    BY <1>2, <2>1, <2>3, PeopleNoneAssumption DEF WriteAccount, TypeOK
  <2>5. QED
    BY <1>2, <2>4 DEF WriteAccount, workforce
<1>3. ASSUME NEW new \in Users, WriteUser(c, new)
      PROVE  RowsKept
  <2>1. \A u \in Users : users[u] # NoUser => users'[u] = users[u]
    BY <1>3 DEF WriteUser, TypeOK
  <2>2. QED
    BY <1>3, <2>1 DEF WriteUser, workforce
<1>4. CASE WriteAppointment(c)
  <2>1. appointments \in Seq(Appointment) /\ appointments' = Append(appointments, q.row)
    BY <1>4 DEF WriteAppointment, TypeOK
  <2>2. DOMAIN appointments \subseteq DOMAIN appointments'
    BY <2>1
  <2>3. QED
    BY <1>4, <2>2 DEF WriteAppointment, workforce
<1>5. CASE WriteRevocation(c)
  BY <1>5 DEF WriteRevocation, workforce
<1>6. CASE WriteEmployee(c)
  <2>1. ASSUME NEW u \in Users, users[u] # NoUser
        PROVE  users'[u] # NoUser
    <3>1. CASE q.user = u
      <4>1. q.employee \in Employees
        BY <1>6, CallType, CallFields DEF WriteEmployee, Ready, Running
      <4>2. [users[u] EXCEPT !.employee = q.employee] \in Account
        BY <2>1, <4>1, AccountType DEF Account
      <4>3. QED
        BY <1>6, <3>1, <4>2, PeopleNoneAssumption DEF WriteEmployee, TypeOK
    <3>2. CASE q.user # u
      BY <1>6, <2>1, <3>2 DEF WriteEmployee, TypeOK
    <3>3. QED
      BY <3>1, <3>2
  <2>2. QED
    BY <1>6, <2>1 DEF WriteEmployee
<1>7. CASE WriteMove(c)
  <2>1. q.node \in Nodes /\ q.parent \in Nodes \cup {NoNode}
    BY <1>7, CallType, CallFields DEF WriteMove, Ready, Running
  <2>2. QED
    BY <1>7, <2>1, PeopleNoneAssumption DEF WriteMove, identity, TypeOK
<1>8. QED
  BY <1>1, <1>2, <1>3, <1>4, <1>5, <1>6, <1>7 DEF Write

LEMMA SingleKeepsRows ==
  ASSUME TypeOK
  PROVE  /\ \A s \in DOMAIN sessions : EndSession(s) => RowsKept
         /\ \A u \in Users, name \in Names : Bootstrap(u, name) => RowsKept
         /\ \A name \in Names, client \in Clients : ForgetFailure(name, client) => RowsKept
         /\ \A e \in Employees, status \in EmployeeStatus : SetEmployeeStatus(e, status) => RowsKept
         /\ \A n \in Nodes, parent \in Nodes \cup {NoNode} : CreateNode(n, parent) => RowsKept
<1> USE DEF RowsKept, Exists, Known
<1>1. ASSUME NEW u \in Users, NEW name \in Names, Bootstrap(u, name)
      PROVE  RowsKept
  <2>1. \A x \in Users : users[x] # NoUser => users'[x] = users[x]
    BY <1>1 DEF Bootstrap, TypeOK
  <2>2. DOMAIN appointments \subseteq DOMAIN appointments'
    BY <1>1 DEF Bootstrap, TypeOK
  <2>3. QED
    BY <1>1, <2>1, <2>2 DEF Bootstrap, workforce
<1>2. ASSUME NEW n \in Nodes, NEW parent \in Nodes \cup {NoNode}, CreateNode(n, parent)
      PROVE  RowsKept
  BY <1>2, PeopleNoneAssumption DEF CreateNode, identity, TypeOK
<1>3. QED
  BY <1>1, <1>2 DEF EndSession, ForgetFailure, SetEmployeeStatus, identity, workforce

LEMMA LinksFrame ==
  ASSUME TypeOK, Serial' => Serial, UNCHANGED <<users, changes>>
  PROVE  LinksKept
BY DEF LinksKept, LinkKept, TypeOK

LEMMA WriteKeepsLinks ==
  ASSUME TypeOK, CallsKnow, Serial => CallsCurrent, NEW c \in Calls, Write(c)
  PROVE  LinksKept
<1> DEFINE q == calls[c]
<1>1. Serial' => Serial
  <2>1. CASE Abandon(c)
    BY <2>1 DEF Abandon, Serial
  <2>2. CASE Committed(c)
    BY <2>2 DEF Committed, Serial, TypeOK
  <2>3. QED
    BY <2>1, <2>2 DEF Write, WriteLogin, WriteFailure, WriteAccount, WriteUser, WriteAppointment,
                      WriteRevocation, WriteEmployee, WriteMove, WritePost, WriteRoster
<1>2. CASE UNCHANGED <<users, changes>>
  BY <1>1, <1>2, LinksFrame
<1>3. CASE WriteAccount(c)
  <2>1. q.user \in Users /\ changes' = [changes EXCEPT ![q.user] = @ + 1]
    BY <1>3, CallType, CallFields DEF WriteAccount, Ready, Running
  <2>2. \A u \in Users \ {q.user} : users'[u] = users[u] /\ changes'[u] = changes[u]
    BY <1>3, <2>1 DEF WriteAccount, TypeOK
  <2>3. changes'[q.user] = changes[q.user] + 1 /\ changes[q.user] \in Nat
    BY <2>1 DEF TypeOK
  <2>4. QED
    BY <1>1, <2>2, <2>3 DEF LinksKept, LinkKept, TypeOK
<1>4. ASSUME NEW new \in Users, WriteUser(c, new)
      PROVE  LinksKept
  <2>1. \A u \in Users : Exists(u) => users'[u] = users[u]
    BY <1>4 DEF WriteUser, TypeOK, Exists
  <2>2. QED
    BY <1>1, <1>4, <2>1 DEF WriteUser, LinksKept, LinkKept, TypeOK
<1>5. CASE WriteEmployee(c)
  <2>1. changes' = changes /\ \A u \in Users \ {q.user} : users'[u] = users[u]
    BY <1>5 DEF WriteEmployee, TypeOK
  <2>2. ASSUME Serial', q.user # NoUser
        PROVE  users[q.user].employee = NoEmployee
    <3>1. Serial /\ c \notin overtaken
      BY <1>1, <1>5, <2>2 DEF WriteEmployee, Committed, Serial, TypeOK
    <3>2. QED
      BY <1>5, <2>2, <3>1 DEF WriteEmployee, Ready, CallsCurrent, Running, Holds
  <2>3. ASSUME NEW u \in Users
        PROVE  LinkKept(u)
    <3>1. u = q.user => u # NoUser
      BY PeopleNoneAssumption
    <3>2. QED
      BY <1>1, <2>1, <2>2, <3>1 DEF LinkKept, TypeOK
  <2>4. QED
    BY <2>3 DEF LinksKept
<1>6. QED
  BY <1>2, <1>3, <1>4, <1>5
  DEF Write, Abandon, WriteLogin, WriteFailure, WriteAppointment, WriteRevocation, WriteMove,
      WritePost, WriteRoster, identity

LEMMA SingleKeepsLinks ==
  ASSUME TypeOK
  PROVE  /\ \A s \in DOMAIN sessions : EndSession(s) => LinksKept
         /\ \A u \in Users, name \in Names : Bootstrap(u, name) => LinksKept
         /\ \A name \in Names, client \in Clients : ForgetFailure(name, client) => LinksKept
         /\ \A e \in Employees, status \in EmployeeStatus :
              SetEmployeeStatus(e, status) => LinksKept
         /\ \A n \in Nodes, parent \in Nodes \cup {NoNode} : CreateNode(n, parent) => LinksKept
<1>1. Changed => (Serial' => Serial)
  BY DEF Changed, Serial
<1>2. ASSUME NEW new \in Users, NEW name \in Names, Bootstrap(new, name)
      PROVE  LinksKept
  <2>1. \A u \in Users : Exists(u) => users'[u] = users[u]
    BY <1>2 DEF Bootstrap, TypeOK, Exists
  <2>2. changes' = changes /\ (Serial' => Serial)
    BY <1>1, <1>2 DEF Bootstrap
  <2>3. QED
    BY <2>1, <2>2 DEF LinksKept, LinkKept, TypeOK
<1>3. QED
  BY <1>1, <1>2, LinksFrame DEF EndSession, ForgetFailure, SetEmployeeStatus, CreateNode, identity

\* What a login has seen of the link stays so.
LEMMA SeenKept ==
  ASSUME TypeOK, LinksKept, NEW row \in LoginSession, Exists(row.user), LinkSeen(row)
  PROVE  LinkSeen(row)'
<1>1. row.user \in Users /\ row.since \in Nat
  BY DEF LoginSession
<1>2. changes[row.user] \in Nat /\ LinkKept(row.user)
  BY <1>1 DEF TypeOK, LinksKept
<1>3. row.since <= changes[row.user] /\ row.since <= changes'[row.user]
  BY <1>1, <1>2 DEF LinkSeen, LinkKept
<1>4. ASSUME Serial', row.since = changes'[row.user]
      PROVE  row.link \in {NoEmployee, users'[row.user].employee}
  <2>1. changes'[row.user] = changes[row.user] /\ row.since = changes[row.user] /\ Serial
    BY <1>1, <1>2, <1>3, <1>4 DEF LinkKept
  <2>2. QED
    BY <1>2, <1>4, <2>1 DEF LinkSeen, LinkKept
<1>5. QED
  BY <1>3, <1>4 DEF LinkSeen

\* A step with which no call begins leaves the calls with what they know.
LEMMA KnowsKept ==
  ASSUME TypeOK, CallsKnow, RowsKept, LinksKept, \A k \in Calls : calls'[k] \in {calls[k], NoCall}
  PROVE  CallsKnow'
<1> SUFFICES ASSUME NEW k \in Calls, Running(k)' PROVE Knows(calls[k])'
  BY DEF CallsKnow
<1>1. calls'[k] = calls[k] /\ Running(k)
  BY DEF Running
<1>2. Knows(calls[k]) /\ calls[k] \in Call
  BY <1>1, CallType DEF CallsKnow
<1>3. \A row \in LoginSession : Exists(row.user) /\ LinkSeen(row) => LinkSeen(row)'
  BY SeenKept
<1>4. calls[k].op = "login" => LinkSeen(calls[k].row)'
  BY <1>1, <1>2, <1>3, CallFields DEF Knows, LinkSeen, Serial
<1>5. QED
  BY <1>1, <1>2, <1>4, CallFields DEF Knows, RowsKept, Born, LoginSession

LEMMA BeginKnows ==
  ASSUME TypeOK, CallsKnow, NEW c \in Calls, NEW call, Begin(c, call), Knows(call)
  PROVE  CallsKnow' /\ Knows(call)'
<1>1. /\ UNCHANGED <<identity, workforce>> /\ overlaps' = overlaps
      /\ calls' = [calls EXCEPT ![c] = call]
  BY DEF Begin
<1>2. ASSUME NEW q
      PROVE  Knows(q)' <=> Knows(q)
  BY <1>1 DEF Knows, Exists, Known, Born, LinkSeen, Serial, identity, workforce
<1>3. QED
  BY <1>1, <1>2 DEF CallsKnow, Running, TypeOK

\* The counts of one account, and the version of one session.
AccountCounts(u) ==
  IF Exists(u) THEN u \notin lost => users[u].version = Born(u) + changes[u]
  ELSE changes[u] = 0 /\ Accounts[u] = NoUser

SessionCounts(row) ==
  /\ Exists(row.user) /\ (row.user \notin lost => row.version = Born(row.user) + row.since)
  /\ LinkSeen(row)

\* Sessions keep what they count as long as rows are kept.
LEMMA SessionsCount ==
  ASSUME TypeOK, RowsKept, LinksKept
  PROVE  \A row \in LoginSession : SessionCounts(row) => SessionCounts(row)'
BY SeenKept DEF SessionCounts, RowsKept, Born, LoginSession

LEMMA CountsAll ==
  /\ VersionsCount <=> /\ \A u \in Users : AccountCounts(u)
                       /\ \A s \in DOMAIN sessions : SessionCounts(sessions[s])
  /\ VersionsCount' <=> /\ \A u \in Users : AccountCounts(u)'
                        /\ \A s \in DOMAIN sessions' : SessionCounts(sessions[s])'
BY DEF VersionsCount, AccountCounts, SessionCounts, LinkSeen, Serial, Exists, Born

LEMMA NewAccountCounts ==
  ASSUME VersionsCount, NEW u \in Users, ~Exists(u), NEW name, NEW temporary,
         TypeOK, users' = [users EXCEPT ![u] = NewAccount(name, temporary)],
         NewAccount(name, temporary) # NoUser,
         changes' = changes, lost' = lost
  PROVE  \A x \in Users : AccountCounts(x)'
<1>1. ASSUME NEW x \in Users, x # u
      PROVE  AccountCounts(x)'
  BY <1>1 DEF TypeOK, VersionsCount, AccountCounts, Exists, Born
<1>2. users'[u] = NewAccount(name, temporary) /\ users'[u].version = 1
  BY DEF TypeOK, NewAccount
<1>3. changes[u] = 0 /\ Born(u) = 1
  BY DEF VersionsCount, Born
<1>4. AccountCounts(u)'
  BY <1>2, <1>3 DEF AccountCounts, Exists, Born
<1>5. QED
  BY <1>1, <1>4

LEMMA WriteCounts ==
  ASSUME TypeOK, VersionsCount, CallsKnow, Serial => CallsCurrent, NEW c \in Calls, Write(c)
  PROVE  VersionsCount'
<1> DEFINE q == calls[c]
<1>0. /\ RowsKept /\ LinksKept
      /\ \A s \in DOMAIN sessions : SessionCounts(sessions[s]) /\ sessions[s] \in LoginSession
      /\ \A u \in Users : AccountCounts(u)
      /\ Running(c) => Knows(q) /\ q \in Call
  BY WriteKeepsRows, WriteKeepsLinks, CountsAll, SessionType, CallType DEF CallsKnow
<1>1. \A row \in LoginSession : SessionCounts(row) => SessionCounts(row)'
  BY <1>0, SessionsCount
<1>2. CASE UNCHANGED <<users, lost, changes, sessions>>
  <2>1. \A u \in Users : AccountCounts(u)'
    BY <1>0, <1>2 DEF AccountCounts, Exists, Born
  <2>2. \A s \in DOMAIN sessions' : SessionCounts(sessions[s])'
    BY <1>0, <1>1, <1>2 DEF SessionCounts, LinkSeen, Serial, Exists, Born
  <2>3. QED
    BY <2>1, <2>2, CountsAll
<1>3. CASE WriteLogin(c)
  <2>1. sessions' = Append(sessions, q.row) /\ UNCHANGED <<users, lost, changes>>
    BY <1>3 DEF WriteLogin
  <2>2. q.row \in LoginSession /\ SessionCounts(q.row)
    BY <1>0, <1>3, CallFields DEF WriteLogin, Ready, Running, Knows, SessionCounts
  <2>3. \A s \in DOMAIN sessions' :
          IF s \in DOMAIN sessions THEN sessions'[s] = sessions[s] ELSE sessions'[s] = q.row
    <3>1. sessions \in Seq(LoginSession)
      BY DEF TypeOK
    <3>2. QED
      BY <2>1, <3>1
  <2>4. \A s \in DOMAIN sessions' : SessionCounts(sessions[s])'
    BY <1>0, <1>1, <2>2, <2>3 DEF SessionCounts, LinkSeen, Serial, Exists, Born
  <2>5. \A u \in Users : AccountCounts(u)'
    BY <1>0, <2>1 DEF AccountCounts, Exists, Born
  <2>6. QED
    BY <2>4, <2>5, CountsAll
<1>4. CASE WriteAccount(c)
  <2> DEFINE u == q.user
             row == Written(users[u], q.seen, q.new)
  <2>1. /\ Running(c) /\ q.op = "account" /\ u \in Users
        /\ q.seen \in Account /\ q.new \in Account /\ q.new.version = q.seen.version + 1
        /\ Exists(u)
    BY <1>0, <1>4, CallFields DEF WriteAccount, Ready, Running, Knows
  <2>2. row \in Account /\ row.version = q.seen.version + 1
    BY <2>1, AccountType, WrittenType DEF Written, Account
  <2>3. /\ users' = [users EXCEPT ![u] = row]
        /\ changes' = [changes EXCEPT ![u] = @ + 1]
        /\ lost' = IF users[u].version = q.seen.version THEN lost ELSE lost \cup {u}
        /\ sessions' = sessions \/ sessions' = Ended(u)
    BY <1>4 DEF WriteAccount
  <2>4. ASSUME NEW x \in Users
        PROVE  AccountCounts(x)'
    <3>1. CASE x # u
      BY <1>0, <2>1, <2>3, <3>1 DEF TypeOK, AccountCounts, Exists, Born
    <3>2. CASE x = u
      <4>1. users'[u] = row /\ row # NoUser
        BY <2>1, <2>2, <2>3, PeopleNoneAssumption DEF TypeOK
      <4>2. changes'[u] = changes[u] + 1 /\ changes[u] \in Nat /\ Born(u) \in Nat
        <5>1. Accounts[u] # NoUser => Accounts[u] \in Account
          BY <2>1, PeopleAssumption
        <5>2. Born(u) \in Nat
          BY <5>1 DEF Born, Account
        <5>3. QED
          BY <2>1, <2>3, <5>2 DEF TypeOK
      <4>3. ASSUME u \notin lost'
            PROVE  row.version = Born(u) + changes[u] + 1
        <5>1. users[u].version = q.seen.version /\ u \notin lost
          BY <2>3, <4>3
        <5>2. users[u].version = Born(u) + changes[u]
          BY <1>0, <2>1, <5>1 DEF AccountCounts
        <5>3. QED
          BY <2>2, <5>1, <5>2
      <4>4. QED
        BY <3>2, <4>1, <4>2, <4>3 DEF AccountCounts, Exists, Born
    <3>3. QED
      BY <3>1, <3>2
  <2>5. ASSUME NEW s \in DOMAIN sessions'
        PROVE  SessionCounts(sessions[s])'
    <3>1. /\ s \in DOMAIN sessions /\ sessions'[s].user = sessions[s].user
          /\ sessions'[s].version = sessions[s].version /\ sessions'[s].since = sessions[s].since
          /\ sessions'[s].link = sessions[s].link
      BY <2>3, <2>5, EndedType
    <3>2. QED
      BY <1>0, <1>1, <3>1 DEF SessionCounts, LinkSeen, Serial, Exists, Born
  <2>6. QED
    BY <2>4, <2>5, CountsAll
<1>5. ASSUME NEW u \in Users, WriteUser(c, u)
      PROVE  VersionsCount'
  <2>1. NewAccount(q.name, q.temporary) # NoUser
    BY <1>0, <1>5, CallFields, NewAccountType, PeopleNoneAssumption DEF WriteUser, Ready, Running
  <2>2. \A x \in Users : AccountCounts(x)'
    BY <1>5, <2>1, NewAccountCounts DEF WriteUser
  <2>3. \A s \in DOMAIN sessions' : SessionCounts(sessions[s])'
    BY <1>0, <1>1, <1>5 DEF WriteUser, SessionCounts, LinkSeen, Serial, Exists, Born
  <2>4. QED
    BY <2>2, <2>3, CountsAll
<1>6. CASE WriteEmployee(c)
  <2>1. ASSUME NEW x \in Users
        PROVE  AccountCounts(x)'
    <3>1. CASE q.user = x
      <4>1. q.employee \in Employees /\ Exists(x) /\ users[x] \in Account
        BY <1>0, <1>6, <3>1, CallFields, AccountType, PeopleNoneAssumption
        DEF WriteEmployee, Ready, Running, Knows
      <4>2. /\ users'[x] = [users[x] EXCEPT !.employee = q.employee]
            /\ UNCHANGED <<lost, changes>>
        BY <1>6, <3>1, PeopleNoneAssumption DEF WriteEmployee, TypeOK
      <4>3. users'[x].version = users[x].version
        BY <4>1, <4>2 DEF Account
      <4>4. QED
        BY <1>0, <4>1, <4>2, <4>3 DEF AccountCounts, RowsKept, Born
    <3>2. CASE q.user # x
      BY <1>0, <1>6, <3>2 DEF WriteEmployee, TypeOK, AccountCounts, Exists, Born
    <3>3. QED
      BY <3>1, <3>2
  <2>2. \A s \in DOMAIN sessions' : SessionCounts(sessions[s])'
    BY <1>0, <1>1, <1>6 DEF WriteEmployee, SessionCounts, LinkSeen, Serial, Exists, Born
  <2>3. QED
    BY <2>1, <2>2, CountsAll
<1>7. QED
  BY <1>2, <1>3, <1>4, <1>5, <1>6
  DEF Write, Abandon, WriteFailure, WriteAppointment, WriteRevocation, WriteMove, WritePost,
      WriteRoster, identity

LEMMA SingleCounts ==
  ASSUME TypeOK, VersionsCount
  PROVE  /\ \A s \in DOMAIN sessions : EndSession(s) => VersionsCount'
         /\ \A u \in Users, name \in Names : Bootstrap(u, name) => VersionsCount'
         /\ \A name \in Names, client \in Clients : ForgetFailure(name, client) => VersionsCount'
         /\ \A e \in Employees, status \in EmployeeStatus : SetEmployeeStatus(e, status) => VersionsCount'
         /\ \A n \in Nodes, parent \in Nodes \cup {NoNode} : CreateNode(n, parent) => VersionsCount'
<1>0. /\ \A s \in DOMAIN sessions : SessionCounts(sessions[s]) /\ sessions[s] \in LoginSession
      /\ \A u \in Users : AccountCounts(u)
  BY CountsAll, SessionType
<1>1. ASSUME NEW s \in DOMAIN sessions, EndSession(s)
      PROVE  VersionsCount'
  <2>1. sessions' = [sessions EXCEPT ![s].over = TRUE] /\ UNCHANGED <<users, lost, changes>>
    BY <1>1 DEF EndSession
  <2>2. \A x \in DOMAIN sessions :
          /\ sessions'[x].user = sessions[x].user
          /\ sessions'[x].version = sessions[x].version /\ sessions'[x].since = sessions[x].since
          /\ sessions'[x].link = sessions[x].link
    BY <2>1, SessionType DEF LoginSession
  <2>3. DOMAIN sessions' = DOMAIN sessions
    BY <2>1
  <2>4. \A x \in DOMAIN sessions' : SessionCounts(sessions[x])'
    BY <1>0, <1>1, <2>1, <2>2, <2>3 DEF SessionCounts, LinkSeen, EndSession, Changed, Serial, Exists, Born
  <2>5. \A u \in Users : AccountCounts(u)'
    BY <1>0, <2>1 DEF AccountCounts, Exists, Born
  <2>6. QED
    BY <2>4, <2>5, CountsAll
<1>2. ASSUME NEW u \in Users, NEW name \in Names, Bootstrap(u, name)
      PROVE  VersionsCount'
  <2>1. RowsKept /\ LinksKept
    BY <1>2, SingleKeepsRows, SingleKeepsLinks
  <2>2. \A s \in DOMAIN sessions' : SessionCounts(sessions[s])'
    <3>1. \A row \in LoginSession : SessionCounts(row) => SessionCounts(row)'
      BY <2>1, SessionsCount
    <3>2. QED
      BY <1>0, <1>2, <3>1 DEF Bootstrap, SessionCounts, LinkSeen, Serial, Exists, Born
  <2>3. \A x \in Users : AccountCounts(x)'
    <3>1. CASE Exists(u)
      BY <1>0, <1>2, <3>1 DEF Bootstrap, AccountCounts, Exists, Born
    <3>2. CASE ~Exists(u)
      BY <1>2, <3>2, NewAccountCounts, NewAccountType, PeopleNoneAssumption DEF Bootstrap
    <3>3. QED
      BY <3>1, <3>2
  <2>4. QED
    BY <2>2, <2>3, CountsAll
<1>3. ASSUME UNCHANGED <<users, lost, changes, sessions, overlaps>>
      PROVE  VersionsCount'
  BY <1>3 DEF VersionsCount, LinkSeen, Serial, Exists, Born
<1>4. QED
  BY <1>1, <1>2, <1>3 DEF ForgetFailure, SetEmployeeStatus, CreateNode, Changed, identity

-----------------------------------------------------------------------------
(***************************************************************************)
(* The tree of nodes.                                                      *)
(***************************************************************************)

LEMMA AboveIsUp ==
  ASSUME NEW tree, NEW n, NEW x \in Nodes, x \notin Above(tree, n)
  PROVE  Above(tree, n) \in UpSets(tree, n)
<1>1. PICK some \in UpSets(tree, n) : x \notin some
  BY DEF Above
<1>2. n \in Above(tree, n)
  BY <1>1 DEF Above, UpSets
<1>3. ASSUME NEW m \in Above(tree, n) \cap Nodes
      PROVE  tree[m] \in Above(tree, n)
  BY <1>1 DEF Above, UpSets
<1>4. QED
  BY <1>2, <1>3 DEF Above, UpSets

LEMMA AboveLeast ==
  ASSUME NEW tree, NEW n, NEW set \in UpSets(tree, n)
  PROVE  Above(tree, n) \subseteq set
BY DEF Above

\* A node that is put below another, not one of those below itself, closes no
\* cycle.
LEMMA MoveAcyclic ==
  ASSUME NEW tree \in [Nodes -> Nodes \cup {NoNode, Missing}], Acyclic(tree),
         NEW n \in Nodes, NEW parent \in Nodes \cup {NoNode},
         parent # NoNode => tree[parent] # Missing,
         n \notin Above(tree, parent)
  PROVE  Acyclic([tree EXCEPT ![n] = parent])
<1> DEFINE new == [tree EXCEPT ![n] = parent]
           up == Above(tree, parent)
<1>0. new[n] = parent /\ \A m \in Nodes \ {n} : new[m] = tree[m]
  OBVIOUS
<1>1. up \in UpSets(tree, parent)
  BY AboveIsUp
<1>2. parent # n
  BY <1>1 DEF UpSets
<1>3. up \in UpSets(new, parent)
  BY <1>0, <1>1 DEF UpSets
<1> HIDE DEF new, up
<1>4. SUFFICES ASSUME NEW x \in Nodes, new[x] \in Nodes
               PROVE  new[new[x]] # Missing /\ x \notin Above(new, new[x])
  BY DEF Acyclic, new
<1>5. CASE x = n
  <2>1. new[x] = parent /\ parent # NoNode /\ new[parent] = tree[parent]
    BY <1>0, <1>2, <1>4, <1>5, PeopleNoneAssumption
  <2>2. n \notin Above(new, parent)
    BY <1>3, AboveLeast DEF up
  <2>3. QED
    BY <1>5, <2>1, <2>2
<1>6. CASE x # n
  <2> DEFINE y == tree[x]
             chain == Above(tree, y)
  <2>1. new[x] = y /\ y \in Nodes /\ tree[y] # Missing /\ x \notin chain
    BY <1>0, <1>4, <1>6 DEF Acyclic
  <2>2. new[y] # Missing
    BY <1>0, <2>1, PeopleNoneAssumption
  <2>3. chain \in UpSets(tree, y)
    BY <2>1, AboveIsUp
  <2>4. CASE n \notin chain
    <3>1. chain \in UpSets(new, y)
      BY <1>0, <2>3, <2>4 DEF UpSets
    <3>2. QED
      BY <2>1, <2>2, <3>1, AboveLeast
  <2>5. CASE n \in chain
    <3>1. x \notin up
      <4>1. SUFFICES ASSUME x \in up PROVE FALSE
        OBVIOUS
      <4>2. up \in UpSets(tree, y)
        BY <1>1, <4>1 DEF UpSets
      <4>3. n \in up
        BY <2>5, <4>2, AboveLeast
      <4>4. QED
        BY <4>3 DEF up
    <3>2. chain \cup up \in UpSets(new, y)
      BY <1>0, <1>1, <2>3 DEF UpSets
    <3>3. QED
      BY <2>1, <2>2, <3>1, <3>2, AboveLeast
  <2>6. QED
    BY <2>4, <2>5
<1>7. QED
  BY <1>5, <1>6

\* A node that is not there is above none.
LEMMA MissingNotAbove ==
  ASSUME NEW tree \in [Nodes -> Nodes \cup {NoNode, Missing}], Acyclic(tree),
         NEW n \in Nodes, tree[n] = Missing, NEW parent \in Nodes \cup {NoNode},
         parent # NoNode => tree[parent] # Missing
  PROVE  n \notin Above(tree, parent)
<1> DEFINE there == {m \in Nodes \cup {NoNode} : m \in Nodes => tree[m] # Missing}
<1>1. there \in UpSets(tree, parent)
  <2>1. parent \in there
    BY PeopleNoneAssumption
  <2>2. ASSUME NEW m \in there \cap Nodes
        PROVE  tree[m] \in there
    BY <2>2, PeopleNoneAssumption DEF Acyclic
  <2>3. QED
    BY <2>1, <2>2 DEF UpSets
<1>2. n \notin there
  OBVIOUS
<1>3. QED
  BY <1>1, <1>2, AboveLeast

\* The root is above nothing else.
LEMMA NothingAboveRoot ==
  ASSUME NEW tree, NEW n \in Nodes
  PROVE  n \notin Above(tree, NoNode)
<1>1. {NoNode} \in UpSets(tree, NoNode) /\ n \notin {NoNode}
  BY PeopleNoneAssumption DEF UpSets
<1>2. QED
  BY <1>1, AboveLeast

-----------------------------------------------------------------------------
(***************************************************************************)
(* What holds as long as no overtaken call writes.                         *)
(***************************************************************************)

LEMMA SerialBefore ==
  ASSUME TypeOK, NEW c \in Calls, Committed(c), Serial'
  PROVE  Serial /\ c \notin overtaken
BY DEF TypeOK, Committed, Serial

\* Whoever writes has overtaken everybody else who is running.
LEMMA CurrentAfter ==
  ASSUME TypeOK
  PROVE  /\ \A c \in Calls : Committed(c) => CallsCurrent'
         /\ Changed => CallsCurrent'
BY DEF TypeOK, Committed, Changed, CallsCurrent, Running

LEMMA HoldsKept ==
  ASSUME UNCHANGED <<identity, workforce>>, NEW q
  PROVE  Holds(q)' <=> Holds(q)
BY DEF Holds, Admin, AdminBy, FullAccess, Grants, Exists, Clashes, PostsOf, RostersOf, Rows,
       identity, workforce

LEMMA BeginCurrent ==
  ASSUME TypeOK, NEW c \in Calls, NEW call, Begin(c, call), Holds(call), CallsCurrent
  PROVE  CallsCurrent'
<1>1. UNCHANGED <<identity, workforce>>
  BY DEF Begin
<1>2. QED
  BY <1>1, HoldsKept DEF Begin, CallsCurrent, Running, TypeOK

LEMMA AbandonCurrent ==
  ASSUME TypeOK, NEW c \in Calls, Abandon(c), CallsCurrent
  PROVE  CallsCurrent'
<1>1. UNCHANGED <<identity, workforce>>
  BY DEF Abandon
<1>2. QED
  BY <1>1, HoldsKept DEF Abandon, CallsCurrent, Running, TypeOK

\* An administrator remains one.
LEMMA AdminKept ==
  ASSUME NEW u \in Users, NEW n, AdminBy(u, n),
         users'[u] # NoUser, users'[u].status = "active",
         n \in DOMAIN appointments', appointments'[n] = appointments[n]
  PROVE  AdministratorRemains'
<1>1. AdminBy(u, n)'
  BY DEF AdminBy, Exists
<1>2. Admin(u)'
  BY <1>1, AdminAssigned
<1>3. QED
  BY <1>2 DEF Admin, AdministratorRemains

LEMMA SomeAdmin ==
  ASSUME Serial, AdministratorRemains
  PROVE  \E u \in Users, n \in DOMAIN appointments : AdminBy(u, n)
<1>1. PICK u \in Users : Admin(u)
  BY DEF AdministratorRemains, Admin
<1>2. QED
  BY <1>1, AdminAssigned

LEMMA AppendKeeps ==
  ASSUME NEW S, NEW rows \in Seq(S), NEW row, NEW n \in DOMAIN rows
  PROVE  n \in DOMAIN Append(rows, row) /\ Append(rows, row)[n] = rows[n]
OBVIOUS

LEMMA WriteLeavesAdmin ==
  ASSUME TypeOK, CallsKnow, Serial => CallsCurrent /\ AdministratorRemains,
         NEW c \in Calls, Write(c), ~Abandon(c), Serial'
  PROVE  AdministratorRemains'
<1> DEFINE q == calls[c]
<1>0. Committed(c) /\ Running(c)
  BY DEF Write, WriteLogin, WriteFailure, WriteAccount, WriteUser, WriteAppointment,
         WriteRevocation, WriteEmployee, WriteMove, WritePost, WriteRoster, Ready, Running
<1>1. Serial /\ Holds(q) /\ Knows(q) /\ q \in Call
  BY <1>0, SerialBefore, CallType DEF CallsCurrent, CallsKnow
<1>2. PICK u \in Users, n \in DOMAIN appointments : AdminBy(u, n)
  BY <1>1, SomeAdmin
<1>3. users[u] # NoUser /\ users[u].status = "active"
  BY <1>2 DEF AdminBy, Exists
<1>4. CASE UNCHANGED <<users, appointments>>
  BY <1>2, <1>3, <1>4, AdminKept
<1>5. CASE WriteAccount(c)
  <2> DEFINE row == Written(users[q.user], q.seen, q.new)
  <2>1. /\ q.op = "account" /\ q.user \in Users /\ q.seen \in Account /\ q.new \in Account
        /\ Exists(q.user)
    BY <1>1, <1>5, CallFields DEF WriteAccount, Ready, Knows
  <2>2. q.seen = users[q.user]
    BY <1>1, <2>1 DEF Holds
  <2>3. row \in Account /\ row.status = q.new.status
    BY <2>1, <2>2, WrittenType DEF Written, Account
  <2>4. users' = [users EXCEPT ![q.user] = row] /\ appointments' = appointments
    BY <1>5 DEF WriteAccount
  <2>5. CASE q.new.status = "active"
    <3>1. users'[u] # NoUser /\ users'[u].status = "active"
      BY <1>3, <2>1, <2>3, <2>4, <2>5, PeopleNoneAssumption DEF TypeOK
    <3>2. QED
      BY <1>2, <2>4, <3>1, AdminKept
  <2>6. CASE q.new.status # "active"
    <3>1. PICK x \in Users \ {q.user} : Admin(x)
      BY <1>1, <2>1, <2>6 DEF Holds
    <3>2. PICK m \in DOMAIN appointments : AdminBy(x, m)
      BY <3>1, AdminAssigned
    <3>3. users'[x] # NoUser /\ users'[x].status = "active"
      BY <2>4, <3>1 DEF Admin, Exists, TypeOK
    <3>4. QED
      BY <2>4, <3>2, <3>3, AdminKept
  <2>7. QED
    BY <2>5, <2>6
<1>6. ASSUME NEW new \in Users, WriteUser(c, new)
      PROVE  AdministratorRemains'
  <2>1. users'[u] = users[u] /\ appointments' = appointments
    BY <1>3, <1>6 DEF WriteUser, Exists, TypeOK
  <2>2. QED
    BY <1>2, <1>3, <2>1, AdminKept
<1>7. CASE WriteAppointment(c)
  <2>1. n \in DOMAIN appointments' /\ appointments'[n] = appointments[n] /\ users' = users
    BY <1>7, AppendKeeps DEF WriteAppointment, TypeOK
  <2>2. QED
    BY <1>2, <1>3, <2>1, AdminKept
<1>8. CASE WriteRevocation(c)
  <2>1. q.op = "revoke"
    BY <1>8 DEF WriteRevocation, Ready
  <2>2. PICK x \in Users, m \in DOMAIN appointments \ {q.appointment} : AdminBy(x, m)
    BY <1>1, <2>1 DEF Holds
  <2>3. m \in DOMAIN appointments' /\ appointments'[m] = appointments[m] /\ users' = users
    BY <1>8 DEF WriteRevocation
  <2>4. QED
    BY <2>2, <2>3, AdminKept DEF AdminBy, Exists
<1>9. CASE WriteEmployee(c)
  <2>1. q.op = "hire" /\ q.employee \in Employees
    BY <1>1, <1>9, CallFields DEF WriteEmployee, Ready
  <2>2. users[u] \in Account
    BY <1>3, AccountType DEF Exists
  <2>3. users'[u] = users[u] \/ users'[u] = [users[u] EXCEPT !.employee = q.employee]
    BY <1>9 DEF WriteEmployee, TypeOK
  <2>4. users'[u] # NoUser /\ users'[u].status = "active"
    <3>1. [users[u] EXCEPT !.employee = q.employee] \in Account
      BY <2>1, <2>2 DEF Account
    <3>2. QED
      BY <1>3, <2>2, <2>3, <3>1, PeopleNoneAssumption DEF Account
  <2>5. QED
    BY <1>2, <1>9, <2>4, AdminKept DEF WriteEmployee
<1>10. QED
  BY <1>4, <1>5, <1>6, <1>7, <1>8, <1>9
  DEF Write, WriteLogin, WriteFailure, WriteMove, WritePost, WriteRoster, identity

LEMMA SingleLeavesAdmin ==
  ASSUME TypeOK, Serial, AdministratorRemains
  PROVE  /\ \A s \in DOMAIN sessions : EndSession(s) => AdministratorRemains'
         /\ \A u \in Users, name \in Names : Bootstrap(u, name) => AdministratorRemains'
         /\ \A name \in Names, client \in Clients : ForgetFailure(name, client) => AdministratorRemains'
         /\ \A e \in Employees, status \in EmployeeStatus :
              SetEmployeeStatus(e, status) => AdministratorRemains'
         /\ \A n \in Nodes, parent \in Nodes \cup {NoNode} :
              CreateNode(n, parent) => AdministratorRemains'
<1>1. PICK u \in Users, n \in DOMAIN appointments : AdminBy(u, n)
  BY SomeAdmin
<1>2. users[u] # NoUser /\ users[u].status = "active"
  BY <1>1 DEF AdminBy, Exists
<1>3. ASSUME UNCHANGED <<users, appointments>>
      PROVE  AdministratorRemains'
  BY <1>1, <1>2, <1>3, AdminKept
<1>4. ASSUME NEW x \in Users, NEW name \in Names, Bootstrap(x, name)
      PROVE  AdministratorRemains'
  <2>1. n \in DOMAIN appointments' /\ appointments'[n] = appointments[n]
    BY <1>4, AppendKeeps DEF Bootstrap, TypeOK
  <2>2. users'[u] = users[u]
    BY <1>2, <1>4 DEF Bootstrap, Exists, TypeOK
  <2>3. QED
    BY <1>1, <1>2, <2>1, <2>2, AdminKept
<1>5. QED
  BY <1>3, <1>4 DEF EndSession, ForgetFailure, SetEmployeeStatus, CreateNode, identity

\* A new row that clashes with none keeps the rows apart.
LEMMA OneMoreApart ==
  ASSUME NEW rows, Apart(rows), NEW row, ~Clashes(rows, row.first, row.last)
  PROVE  Apart(rows \cup {row})
BY DEF Apart, Clashes, Meets

LEMMA RowsAppended ==
  ASSUME NEW S, NEW table \in Seq(S), NEW row
  PROVE  Rows(Append(table, row)) = Rows(table) \cup {row}
<1>1. DOMAIN Append(table, row) = DOMAIN table \cup {Len(table) + 1}
  OBVIOUS
<1>2. Append(table, row)[Len(table) + 1] = row
  OBVIOUS
<1>3. \A n \in DOMAIN table : Append(table, row)[n] = table[n]
  OBVIOUS
<1> HIDE DEF Append
<1>4. QED
  BY <1>1, <1>2, <1>3 DEF Rows

LEMMA AssignmentsFrame ==
  ASSUME AssignmentsApart, UNCHANGED <<posts, rosters>>
  PROVE  AssignmentsApart'
BY DEF AssignmentsApart, Apart, Meets, PostsOf, RostersOf, Rows

LEMMA WriteKeepsApart ==
  ASSUME TypeOK, Serial => CallsCurrent /\ AssignmentsApart,
         NEW c \in Calls, Write(c), ~Abandon(c), Serial'
  PROVE  AssignmentsApart'
<1> DEFINE q == calls[c]
<1>0. Committed(c) /\ Running(c)
  BY DEF Write, WriteLogin, WriteFailure, WriteAccount, WriteUser, WriteAppointment,
         WriteRevocation, WriteEmployee, WriteMove, WritePost, WriteRoster, Ready, Running
<1>1. Serial /\ Holds(q) /\ q \in Call /\ AssignmentsApart
  BY <1>0, SerialBefore, CallType DEF CallsCurrent
<1>2. CASE UNCHANGED <<posts, rosters>>
  BY <1>1, <1>2, AssignmentsFrame
<1>3. CASE WritePost(c)
  <2>1. /\ q.op = "post" /\ posts \in Seq(Post) /\ posts' = Append(posts, q.row)
        /\ rosters' = rosters
    BY <1>3 DEF WritePost, Ready, TypeOK
  <2>2. Rows(posts') = Rows(posts) \cup {q.row}
    BY <2>1, RowsAppended
  <2>3. ASSUME NEW e \in Employees
        PROVE  Apart(PostsOf(e)')
    <3>1. Apart(PostsOf(e))
      BY <1>1 DEF AssignmentsApart
    <3>2. CASE q.row.employee = e
      <4>1. PostsOf(e)' = PostsOf(e) \cup {q.row}
        BY <2>2, <3>2 DEF PostsOf
      <4>2. ~Clashes(PostsOf(e), q.row.first, q.row.last)
        BY <1>1, <2>1, <3>2 DEF Holds
      <4>3. QED
        BY <3>1, <4>1, <4>2, OneMoreApart
    <3>3. CASE q.row.employee # e
      <4>1. PostsOf(e)' = PostsOf(e)
        BY <2>2, <3>3 DEF PostsOf
      <4>2. QED
        BY <3>1, <4>1
    <3>4. QED
      BY <3>2, <3>3
  <2>4. \A target \in Employees \cup Nodes : Apart(RostersOf(target)')
    BY <1>1, <2>1 DEF AssignmentsApart, RostersOf, Rows
  <2>5. QED
    BY <2>3, <2>4 DEF AssignmentsApart, Apart, Meets
<1>4. CASE WriteRoster(c)
  <2>1. /\ q.op = "roster" /\ rosters \in Seq(Roster) /\ rosters' = Append(rosters, q.row)
        /\ posts' = posts
    BY <1>4 DEF WriteRoster, Ready, TypeOK
  <2>2. Rows(rosters') = Rows(rosters) \cup {q.row}
    BY <2>1, RowsAppended
  <2>3. ASSUME NEW target \in Employees \cup Nodes
        PROVE  Apart(RostersOf(target)')
    <3>1. Apart(RostersOf(target))
      BY <1>1 DEF AssignmentsApart
    <3>2. CASE q.row.target = target
      <4>1. RostersOf(target)' = RostersOf(target) \cup {q.row}
        BY <2>2, <3>2 DEF RostersOf
      <4>2. ~Clashes(RostersOf(target), q.row.first, q.row.last)
        BY <1>1, <2>1, <3>2 DEF Holds
      <4>3. QED
        BY <3>1, <4>1, <4>2, OneMoreApart
    <3>3. CASE q.row.target # target
      <4>1. RostersOf(target)' = RostersOf(target)
        BY <2>2, <3>3 DEF RostersOf
      <4>2. QED
        BY <3>1, <4>1
    <3>4. QED
      BY <3>2, <3>3
  <2>4. \A e \in Employees : Apart(PostsOf(e)')
    BY <1>1, <2>1 DEF AssignmentsApart, PostsOf, Rows
  <2>5. QED
    BY <2>3, <2>4 DEF AssignmentsApart, Apart, Meets
<1>5. QED
  BY <1>2, <1>3, <1>4
  DEF Write, WriteLogin, WriteFailure, WriteAccount, WriteUser, WriteAppointment,
      WriteRevocation, WriteEmployee, WriteMove, workforce

LEMMA WriteKeepsTree ==
  ASSUME TypeOK, CallsKnow, Serial => CallsCurrent /\ Acyclic(parents),
         NEW c \in Calls, Write(c), ~Abandon(c), Serial'
  PROVE  Acyclic(parents')
<1> DEFINE q == calls[c]
<1>0. Committed(c) /\ Running(c)
  BY DEF Write, WriteLogin, WriteFailure, WriteAccount, WriteUser, WriteAppointment,
         WriteRevocation, WriteEmployee, WriteMove, WritePost, WriteRoster, Ready, Running
<1>1. Serial /\ Holds(q) /\ Knows(q) /\ q \in Call /\ Acyclic(parents)
  BY <1>0, SerialBefore, CallType DEF CallsCurrent, CallsKnow
<1>2. CASE UNCHANGED parents
  BY <1>1, <1>2
<1>3. CASE WriteMove(c)
  <2>1. /\ q.op = "move" /\ q.node \in Nodes /\ q.parent \in Nodes \cup {NoNode}
        /\ parents' = [parents EXCEPT ![q.node] = q.parent]
    BY <1>1, <1>3, CallFields DEF WriteMove, Ready
  <2>2. q.node \notin Above(parents, q.parent)
    BY <1>1, <2>1, NothingAboveRoot DEF Holds
  <2>3. q.parent # NoNode => parents[q.parent] # Missing
    BY <1>1, <2>1 DEF Knows, Known
  <2>4. parents \in [Nodes -> Nodes \cup {NoNode, Missing}]
    BY DEF TypeOK
  <2>5. QED
    BY <1>1, <2>1, <2>2, <2>3, <2>4, MoveAcyclic
<1>4. QED
  BY <1>2, <1>3
  DEF Write, WriteLogin, WriteFailure, WriteAccount, WriteUser, WriteAppointment,
      WriteRevocation, WriteEmployee, WritePost, WriteRoster, workforce

LEMMA CreateKeepsTree ==
  ASSUME TypeOK, Acyclic(parents), NEW n \in Nodes, NEW parent \in Nodes \cup {NoNode},
         CreateNode(n, parent)
  PROVE  Acyclic(parents')
<1>1. /\ parents[n] = Missing /\ parents \in [Nodes -> Nodes \cup {NoNode, Missing}]
      /\ parent # NoNode => parents[parent] # Missing
      /\ parents' = [parents EXCEPT ![n] = parent]
  BY DEF CreateNode, Known, TypeOK
<1>2. n \notin Above(parents, parent)
  BY <1>1, MissingNotAbove
<1>3. QED
  BY <1>1, <1>2, MoveAcyclic

-----------------------------------------------------------------------------
(***************************************************************************)
(* The invariant.                                                          *)
(***************************************************************************)

LEMMA InitInv == Init => PeopleInv
<1> SUFFICES ASSUME Init PROVE PeopleInv
  OBVIOUS
<1>1. CallsCurrent
  BY DEF Init, CallsCurrent, Running
<1>2. AdministratorRemains
  <2>1. PICK u \in Users :
          /\ Accounts[u] # NoUser /\ Accounts[u].status = "active"
          /\ \E n \in DOMAIN Appointed :
               Appointed[n] = [user |-> u, role |-> "system_administrator", scope |-> "global",
                               over |-> FALSE]
    BY AdministratorAssumption
  <2>2. PICK n \in DOMAIN Appointed :
          Appointed[n] = [user |-> u, role |-> "system_administrator", scope |-> "global",
                          over |-> FALSE]
    BY <2>1
  <2>3. AdminBy(u, n)
    BY <2>1, <2>2 DEF AdminBy, Exists, Init
  <2>4. Admin(u)
    BY <2>3, AdminAssigned DEF AdminBy
  <2>5. QED
    BY <2>4 DEF Admin, AdministratorRemains
<1>3. Acyclic(parents)
  BY TreeAssumption DEF Init
<1>4. AssignmentsApart
  BY DEF Init, AssignmentsApart, Apart, PostsOf, RostersOf, Rows
<1>5. QED
  BY <1>1, <1>2, <1>3, <1>4, InitVersions DEF PeopleInv

LEMMA InvParts ==
  ASSUME VersionsCount', CallsKnow',
         Serial' => CallsCurrent' /\ AdministratorRemains' /\ Acyclic(parents') /\ AssignmentsApart'
  PROVE  PeopleInv'
BY DEF PeopleInv

LEMMA TablesFrame ==
  ASSUME UNCHANGED <<identity, workforce>>, overlaps' = overlaps, PeopleInv
  PROVE  /\ VersionsCount'
         /\ Serial => AdministratorRemains' /\ Acyclic(parents') /\ AssignmentsApart'
<1>1. VersionsCount'
  BY DEF PeopleInv, VersionsCount, LinkSeen, Serial, Exists, Born, identity
<1>2. ASSUME Serial
      PROVE  AdministratorRemains' /\ Acyclic(parents') /\ AssignmentsApart'
  <2>1. AdministratorRemains'
    BY <1>2 DEF PeopleInv, AdministratorRemains, FullAccess, Grants, Exists, Serial, identity
  <2>2. Acyclic(parents') /\ AssignmentsApart'
    BY <1>2, AssignmentsFrame DEF PeopleInv, workforce
  <2>3. QED
    BY <2>1, <2>2
<1>3. QED
  BY <1>1, <1>2

LEMMA BeginInv ==
  ASSUME TypeOK, PeopleInv, NEW c \in Calls, Begins(c)
  PROVE  PeopleInv'
<1>1. PICK call \in Call : Begin(c, call) /\ Knows(call) /\ (Serial => Holds(call))
  BY DEF Begins
<1>2. UNCHANGED <<identity, workforce>> /\ overlaps' = overlaps
  BY <1>1 DEF Begin
<1>3. CallsKnow'
  BY <1>1, BeginKnows DEF PeopleInv
<1>4. Serial' => Serial
  BY <1>2 DEF Serial
<1>5. Serial' => CallsCurrent'
  BY <1>1, <1>4, BeginCurrent DEF PeopleInv
<1>6. QED
  BY <1>2, <1>3, <1>4, <1>5, TablesFrame, InvParts

LEMMA WriteInv ==
  ASSUME TypeOK, PeopleInv, NEW c \in Calls, Write(c)
  PROVE  PeopleInv'
<1>1. VersionsCount' /\ RowsKept /\ LinksKept
  BY WriteCounts, WriteKeepsRows, WriteKeepsLinks DEF PeopleInv
<1>2. CASE Abandon(c)
  <2>1. UNCHANGED <<identity, workforce>> /\ overlaps' = overlaps
    BY <1>2 DEF Abandon
  <2>2. \A k \in Calls : calls'[k] \in {calls[k], NoCall}
    BY <1>2 DEF Abandon, TypeOK
  <2>3. CallsKnow'
    BY <1>1, <2>2, KnowsKept DEF PeopleInv
  <2>4. Serial' => Serial
    BY <2>1 DEF Serial
  <2>5. Serial' => CallsCurrent'
    BY <1>2, <2>4, AbandonCurrent DEF PeopleInv
  <2>6. QED
    BY <2>1, <2>3, <2>4, <2>5, TablesFrame, InvParts
<1>3. CASE ~Abandon(c)
  <2>1. Committed(c)
    BY <1>3 DEF Write, WriteLogin, WriteFailure, WriteAccount, WriteUser, WriteAppointment,
                WriteRevocation, WriteEmployee, WriteMove, WritePost, WriteRoster
  <2>2. \A k \in Calls : calls'[k] \in {calls[k], NoCall}
    BY <2>1 DEF Committed, TypeOK
  <2>3. CallsKnow'
    BY <1>1, <2>2, KnowsKept DEF PeopleInv
  <2>4. CallsCurrent'
    BY <2>1, CurrentAfter
  <2>5. ASSUME Serial'
        PROVE  AdministratorRemains' /\ Acyclic(parents') /\ AssignmentsApart'
    BY <1>3, <2>5, WriteLeavesAdmin, WriteKeepsTree, WriteKeepsApart DEF PeopleInv
  <2>6. QED
    BY <1>1, <2>3, <2>4, <2>5, InvParts
<1>4. QED
  BY <1>2, <1>3

LEMMA SingleInv ==
  ASSUME TypeOK, PeopleInv,
         \/ \E s \in DOMAIN sessions : EndSession(s)
         \/ \E u \in Users, name \in Names : Bootstrap(u, name)
         \/ \E name \in Names, client \in Clients : ForgetFailure(name, client)
         \/ \E e \in Employees, status \in EmployeeStatus : SetEmployeeStatus(e, status)
         \/ \E n \in Nodes, parent \in Nodes \cup {NoNode} : CreateNode(n, parent)
  PROVE  PeopleInv'
<1>1. VersionsCount' /\ RowsKept /\ LinksKept
  BY SingleCounts, SingleKeepsRows, SingleKeepsLinks DEF PeopleInv
<1>2. Changed
  BY DEF EndSession, Bootstrap, ForgetFailure, SetEmployeeStatus, CreateNode
<1>3. calls' = calls /\ (Serial' => Serial)
  BY <1>2 DEF Changed, Serial
<1>4. CallsKnow'
  BY <1>1, <1>3, KnowsKept DEF PeopleInv
<1>5. CallsCurrent'
  BY <1>2, CurrentAfter
<1>6. Serial' => AdministratorRemains'
  BY <1>3, SingleLeavesAdmin DEF PeopleInv
<1>7. Serial' => Acyclic(parents')
  BY <1>3, CreateKeepsTree
  DEF PeopleInv, EndSession, Bootstrap, ForgetFailure, SetEmployeeStatus, workforce
<1>8. Serial' => AssignmentsApart'
  BY <1>3, AssignmentsFrame
  DEF PeopleInv, EndSession, Bootstrap, ForgetFailure, SetEmployeeStatus, CreateNode, workforce
<1>9. QED
  BY <1>1, <1>4, <1>5, <1>6, <1>7, <1>8, InvParts

LEMMA StepInv == TypeOK /\ PeopleInv /\ [Next]_vars => PeopleInv'
<1> SUFFICES ASSUME TypeOK, PeopleInv, [Next]_vars PROVE PeopleInv'
  OBVIOUS
<1>1. CASE UNCHANGED vars
  <2>1. UNCHANGED <<identity, workforce>> /\ overlaps' = overlaps /\ calls' = calls
        /\ overtaken' = overtaken
    BY <1>1 DEF vars, history
  <2>2. CallsKnow'
    BY <2>1 DEF PeopleInv, CallsKnow, Knows, LinkSeen, Serial, Running, Exists, Known, Born,
                identity, workforce
  <2>3. CallsCurrent => CallsCurrent'
    BY <2>1, HoldsKept DEF CallsCurrent, Running
  <2>4. Serial' => Serial
    BY <2>1 DEF Serial
  <2>5. QED
    BY <2>1, <2>2, <2>3, <2>4, TablesFrame, InvParts DEF PeopleInv
<1>2. ASSUME NEW c \in Calls,
             \/ \E name \in Names, client \in Clients, right \in BOOLEAN : Login(c, name, client, right)
             \/ \E s \in DOMAIN sessions : Administer(c, s)
             \/ Arrange(c)
      PROVE  PeopleInv'
  BY <1>2, LoginBegins, AdministerBegins, ArrangeBegins, BeginInv
<1>3. QED
  BY <1>1, <1>2, WriteInv, SingleInv DEF Next

LEMMA Invariant == Spec => [](TypeOK /\ PeopleInv)
<1>1. Init => TypeOK /\ PeopleInv
  BY InitType, InitInv
<1>2. TypeOK /\ PeopleInv /\ [Next]_vars => (TypeOK /\ PeopleInv)'
  BY StepType, StepInv
<1>3. QED
  BY <1>1, <1>2, PTL DEF Spec

-----------------------------------------------------------------------------
(***************************************************************************)
(* Theorems.                                                               *)
(***************************************************************************)

\* The rows of the accounts, sessions, roles and assignments keep their types.
THEOREM TypeCorrect == Spec => []TypeOK
BY Invariant, PTL

\* A session from before a change_password, set_user_status or update_user of
\* its account is not valid after it, whatever calls overlap, unless two such
\* changes of the account have; and, without overlapping writes, a valid session
\* began with the employee link its account still has, or with none.
THEOREM SessionsEnd == Spec => []SessionsCurrent
<1>1. TypeOK /\ PeopleInv => SessionsCurrent
  <2> SUFFICES ASSUME TypeOK, PeopleInv, NEW s \in DOMAIN sessions, Valid(s),
                      sessions[s].user \notin lost
               PROVE  /\ sessions[s].since = changes[sessions[s].user]
                      /\ Serial => sessions[s].link \in {NoEmployee, users[sessions[s].user].employee}
    BY DEF SessionsCurrent
  <2> DEFINE u == sessions[s].user
  <2>1. /\ u \in Users /\ Exists(u) /\ sessions[s] \in LoginSession
        /\ sessions[s].version = Born(u) + sessions[s].since
        /\ users[u].version = Born(u) + changes[u]
        /\ LinkSeen(sessions[s])
    BY SessionType DEF PeopleInv, VersionsCount
  <2>2. users[u].version = sessions[s].version
    BY DEF Valid
  <2>3. Born(u) \in Nat /\ changes[u] \in Nat /\ sessions[s].since \in Nat
    <3>1. Accounts[u] # NoUser => Accounts[u] \in Account
      BY <2>1, PeopleAssumption
    <3>2. QED
      BY <2>1, <3>1 DEF Born, Account, LoginSession, TypeOK
  <2>4. sessions[s].since = changes[u]
    BY <2>1, <2>2, <2>3
  <2>5. QED
    BY <2>1, <2>4 DEF LinkSeen
<1>2. QED
  BY <1>1, Invariant, PTL

\* Without overlapping writes the last administrator stays.
THEOREM NoLockout == Spec => []AdministratorRemains
<1>1. PeopleInv => AdministratorRemains
  BY DEF PeopleInv, AdministratorRemains
<1>2. QED
  BY <1>1, Invariant, PTL

\* Without overlapping writes the nodes form a forest.
THEOREM ForestRemains == Spec => []TreeAcyclic
<1>1. PeopleInv => TreeAcyclic
  BY DEF PeopleInv, TreeAcyclic
<1>2. QED
  BY <1>1, Invariant, PTL

\* Of rows that are apart one at most is found for a date.
LEMMA LatestOne ==
  ASSUME NEW rows, Apart(rows), NEW d \in Days,
         \A row \in rows : row.first \in Days /\ row.last \in Days,
         NEW a \in Latest(rows, d), NEW b \in Latest(rows, d)
  PROVE  a = b
<1>1. /\ a \in rows /\ a.first <= d /\ d <= a.last
      /\ b \in rows /\ b.first <= d /\ d <= b.last
  BY DEF Latest
<1>2. /\ d \in Int /\ a.first \in Int /\ a.last \in Int
      /\ b.first \in Int /\ b.last \in Int
  BY <1>1, PeopleAssumption
<1>3. a.first <= b.last /\ b.first <= a.last
  BY <1>1, <1>2
<1>4. QED
  BY <1>1, <1>3 DEF Apart, Meets

LEMMA OneOrNone ==
  ASSUME NEW set, \A a, b \in set : a = b, set # {}
  PROVE  \E x \in set : set = {x}
OBVIOUS

LEMMA OneShift ==
  ASSUME TypeOK, AssignmentsApart, NEW target \in Employees \cup Nodes, NEW d \in Days,
         ShiftsFound(target, d) # {}
  PROVE  \E x : ShiftsFound(target, d) = {x}
<1> DEFINE found == Latest(RostersOf(target), d)
<1>1. \A row \in RostersOf(target) : row.first \in Days /\ row.last \in Days
  <2>1. rosters \in Seq(Roster)
    BY DEF TypeOK
  <2>2. \A n \in DOMAIN rosters : rosters[n] \in Roster
    BY <2>1
  <2>3. QED
    BY <2>2 DEF RostersOf, Rows, Roster
<1>2. \A a, b \in found : a = b
  BY <1>1, LatestOne DEF AssignmentsApart
<1>3. found # {}
  BY DEF ShiftsFound
<1>4. PICK x \in found : found = {x}
  BY <1>2, <1>3, OneOrNone
<1>5. ShiftsFound(target, d) = {x.shift}
  BY <1>4 DEF ShiftsFound
<1>6. QED
  BY <1>5

\* Without overlapping writes an employee has one node and one shift on a date.
THEOREM OneContext == Spec => []ContextUnique
<1>1. TypeOK /\ PeopleInv => ContextUnique
  <2> SUFFICES ASSUME TypeOK, AssignmentsApart, NEW e \in Employees, NEW d \in Days
               PROVE  Cardinality(Contexts(e, d)) = 1
    BY DEF ContextUnique, PeopleInv
  <2> DEFINE found == Latest(PostsOf(e), d)
             nodes == {row.node : row \in found}
             used == IF nodes = {} THEN {NoNode} ELSE nodes
             own == ShiftsFound(e, d)
             from(n) == IF own # {} THEN own
                        ELSE IF n = NoNode \/ ShiftsFound(n, d) = {} THEN {NoShift}
                        ELSE ShiftsFound(n, d)
  <2>1. Contexts(e, d) = UNION {{<<n, shift>> : shift \in from(n)} : n \in used}
    BY DEF Contexts
  <2>2. \A row \in PostsOf(e) : row.first \in Days /\ row.last \in Days /\ row.node \in Nodes
    <3>1. posts \in Seq(Post)
      BY DEF TypeOK
    <3>2. \A n \in DOMAIN posts : posts[n] \in Post
      BY <3>1
    <3>3. QED
      BY <3>2 DEF PostsOf, Rows, Post
  <2>3. \E n \in Nodes \cup {NoNode} : used = {n}
    <3>1. CASE found = {}
      BY <3>1
    <3>2. CASE found # {}
      <4>1. \A a, b \in found : a = b
        BY <2>2, LatestOne DEF AssignmentsApart
      <4>2. PICK x \in found : found = {x}
        BY <3>2, <4>1, OneOrNone
      <4>3. x.node \in Nodes
        BY <2>2, <4>2 DEF Latest
      <4>4. QED
        BY <4>2, <4>3
    <3>3. QED
      BY <3>1, <3>2
  <2>4. PICK n \in Nodes \cup {NoNode} : used = {n}
    BY <2>3
  <2>5. \E shift : from(n) = {shift}
    BY <2>4, OneShift
  <2>6. PICK shift : from(n) = {shift}
    BY <2>5
  <2> HIDE DEF used, from
  <2>7. Contexts(e, d) = {<<n, shift>>}
    BY <2>1, <2>4, <2>6
  <2>8. QED
    BY <2>7, FS_Singleton
<1>2. QED
  BY <1>1, Invariant, PTL

-----------------------------------------------------------------------------
(***************************************************************************)
(* The login limit.                                                        *)
(***************************************************************************)

\* A login that has counted and that nobody has overtaken has found room for
\* its failure.
RejectionsFit ==
  \A c \in Calls \ overtaken : \A q :
    q = calls[c] /\ q # NoCall /\ q.op = "reject" => Counted(q.name, q.client) < LoginAttempts

\* The failures to count.
Failures == Attempts(failures)

FailureInv == IsFiniteSet(Failures) /\ FailuresBounded /\ RejectionsFit

Attempt(name, client, n) == [name |-> name, client |-> client, number |-> n]

\* The failures of an account from an address.
Numbered(name, client) == {Attempt(name, client, n) : n \in 1 .. failures[name][client]}

LEMMA AttemptKind ==
  ASSUME NEW row
  PROVE  row \in Failures <=>
           \E name \in Names, client \in Clients : \E n \in 1 .. failures[name][client] :
             row = Attempt(name, client, n)
<1>1. Failures = UNION {Numbered(name, client) : name \in Names, client \in Clients}
  BY DEF Failures, Attempts, Numbered, Attempt
<1>2. row \in Failures <=> \E name \in Names, client \in Clients : row \in Numbered(name, client)
  BY <1>1
<1>3. QED
  BY <1>2 DEF Numbered

LEMMA AttemptRow ==
  ASSUME NEW name \in Names, NEW client \in Clients, NEW n
  PROVE  Attempt(name, client, n) \in Failures <=> n \in 1 .. failures[name][client]
<1>1. ASSUME NEW given, NEW k, NEW m, Attempt(name, client, n) = Attempt(given, k, m)
      PROVE  name = given /\ client = k /\ n = m
  <2>1. /\ Attempt(name, client, n).name = name /\ Attempt(given, k, m).name = given
        /\ Attempt(name, client, n).client = client /\ Attempt(given, k, m).client = k
        /\ Attempt(name, client, n).number = n /\ Attempt(given, k, m).number = m
    BY DEF Attempt
  <2>2. QED
    BY <1>1, <2>1
<1>2. QED
  BY <1>1, AttemptKind

LEMMA AttemptFields ==
  ASSUME NEW row \in Failures
  PROVE  row.name \in Names /\ row.client \in Clients
BY DEF Failures, Attempts

\* While no failure is added none of the bounds can be passed.
LEMMA AttemptsShrink ==
  ASSUME TypeOK, FailureInv, Failures' \subseteq Failures, overlaps' \in Nat, overlaps' >= overlaps
  PROVE  IsFiniteSet(Failures)' /\ FailuresBounded'
<1>1. IsFiniteSet(Failures)'
  BY FS_Subset DEF FailureInv
<1>2. ASSUME NEW few, NEW many, few \subseteq many, many \subseteq Failures,
             Cardinality(many) <= LoginAttempts + overlaps
      PROVE  Cardinality(few) <= LoginAttempts + overlaps'
  <2>1. /\ IsFiniteSet(many) /\ Cardinality(few) <= Cardinality(many)
        /\ Cardinality(few) \in Nat /\ Cardinality(many) \in Nat
    BY <1>2, FS_Subset, FS_CardinalityType DEF FailureInv
  <2>2. LoginAttempts \in Nat /\ overlaps \in Nat
    BY PeopleAssumption DEF TypeOK
  <2>3. QED
    BY <1>2, <2>1, <2>2
<1>3. ASSUME NEW name \in Names
      PROVE  Cardinality(FailuresOf(name)') <= LoginAttempts + overlaps'
  <2>1. FailuresOf(name)' \subseteq FailuresOf(name) /\ FailuresOf(name) \subseteq Failures
    BY DEF FailuresOf, OfName, Failures
  <2>2. Cardinality(FailuresOf(name)) <= LoginAttempts + overlaps
    BY DEF FailureInv, FailuresBounded
  <2>3. QED
    BY <1>2, <2>1, <2>2
<1>4. ASSUME NEW client \in Clients
      PROVE  Cardinality(FailuresFrom(client)') <= LoginAttempts + overlaps'
  <2>1. FailuresFrom(client)' \subseteq FailuresFrom(client) /\ FailuresFrom(client) \subseteq Failures
    BY DEF FailuresFrom, OfClient, Failures
  <2>2. Cardinality(FailuresFrom(client)) <= LoginAttempts + overlaps
    BY DEF FailureInv, FailuresBounded
  <2>3. QED
    BY <1>2, <2>1, <2>2
<1>5. QED
  BY <1>1, <1>3, <1>4 DEF FailuresBounded

\* One failure more, which the login has room for unless it is overtaken.
LEMMA FailureAdded ==
  ASSUME TypeOK, FailureInv, NEW c \in Calls, WriteFailure(c)
  PROVE  IsFiniteSet(Failures)' /\ FailuresBounded'
<1> DEFINE name == calls[c].name
           client == calls[c].client
           new == Attempt(name, client, failures[name][client] + 1)
<1>1. calls[c] # NoCall /\ calls[c].op = "reject" /\ name \in Names /\ client \in Clients
  BY CallType, CallFields DEF WriteFailure, Ready, Running
<1>2. failures' = [failures EXCEPT ![name][client] = @ + 1]
  BY DEF WriteFailure
<1>3. failures \in [Names -> [Clients -> Nat]]
  BY DEF TypeOK
<1>4. \A given \in Names, k \in Clients :
        failures'[given][k] = IF given = name /\ k = client THEN failures[given][k] + 1 ELSE failures[given][k]
  BY <1>1, <1>2, <1>3
<1> HIDE DEF name, client
<1>5. Failures' \subseteq Failures \cup {new}
  <2> SUFFICES ASSUME NEW row \in Failures' PROVE row \in Failures \cup {new}
    OBVIOUS
  <2>1. PICK given \in Names, k \in Clients : \E n \in 1 .. failures'[given][k] : row = Attempt(given, k, n)
    BY DEF Failures, Attempts, Attempt
  <2>2. PICK n \in 1 .. failures'[given][k] : row = Attempt(given, k, n)
    BY <2>1
  <2>3. failures[given][k] \in Nat
    BY <1>3
  <2>4. n \in 1 .. failures[given][k] \/ (given = name /\ k = client /\ n = failures[name][client] + 1)
    BY <1>4, <2>2, <2>3
  <2>5. QED
    BY <2>2, <2>4, AttemptRow
<1>6. new.name = name /\ new.client = client
  BY DEF Attempt
<1> HIDE DEF new
<1>7. IsFiniteSet(Failures)
  BY DEF FailureInv
<1>8. IsFiniteSet(Failures)'
  <2>1. IsFiniteSet(Failures \cup {new})
    BY <1>7, FS_AddElement
  <2>2. QED
    BY <1>5, <2>1, FS_Subset
<1>9. LoginAttempts \in Nat /\ overlaps \in Nat
  BY PeopleAssumption DEF TypeOK
<1>10. overlaps' = IF c \in overtaken THEN overlaps + 1 ELSE overlaps
  BY DEF WriteFailure, Committed
<1>11. c \notin overtaken => Counted(name, client) < LoginAttempts
  BY <1>1 DEF FailureInv, RejectionsFit, name, client
<1>12. /\ IsFiniteSet(FailuresOf(name) \cup FailuresFrom(client))
       /\ \A few \in SUBSET (FailuresOf(name) \cup FailuresFrom(client)) :
            IsFiniteSet(few) /\ Cardinality(few) \in Nat /\ Cardinality(few) <= Counted(name, client)
  <2>1. FailuresOf(name) \cup FailuresFrom(client) \subseteq Failures
    BY DEF FailuresOf, OfName, FailuresFrom, OfClient, Failures
  <2>2. QED
    BY <1>7, <2>1, FS_Subset, FS_CardinalityType DEF Counted
<1>13. Counted(name, client) \in Nat
  BY <1>12, FS_CardinalityType DEF Counted
\* Rows that the new one is added to.
<1>14. ASSUME NEW few \in SUBSET (FailuresOf(name) \cup FailuresFrom(client)),
              NEW many, many \subseteq few \cup {new},
              Cardinality(few) <= LoginAttempts + overlaps
       PROVE  Cardinality(many) <= LoginAttempts + overlaps'
  <2>1. IsFiniteSet(few) /\ Cardinality(few) \in Nat /\ Cardinality(few) <= Counted(name, client)
    BY <1>12
  <2>2. /\ IsFiniteSet(few \cup {new}) /\ Cardinality(few \cup {new}) \in Nat
        /\ Cardinality(few \cup {new}) <= Cardinality(few) + 1
    <3>1. IsFiniteSet(few \cup {new})
      BY <2>1, FS_AddElement
    <3>2. Cardinality(few \cup {new}) \in {Cardinality(few), Cardinality(few) + 1}
      BY <2>1, FS_AddElement
    <3>3. QED
      BY <2>1, <3>1, <3>2
  <2>3. Cardinality(many) \in Nat /\ Cardinality(many) <= Cardinality(few) + 1
    BY <1>14, <2>1, <2>2, FS_Subset, FS_CardinalityType
  <2>4. QED
    BY <1>9, <1>10, <1>11, <1>13, <1>14, <2>1, <2>3
\* Rows that it is not added to.
<1>15. ASSUME NEW few, NEW many, few \subseteq many, many \subseteq Failures,
              Cardinality(many) <= LoginAttempts + overlaps
       PROVE  Cardinality(few) <= LoginAttempts + overlaps'
  <2>1. /\ Cardinality(few) <= Cardinality(many)
        /\ Cardinality(few) \in Nat /\ Cardinality(many) \in Nat
    BY <1>7, <1>15, FS_Subset, FS_CardinalityType
  <2>2. QED
    BY <1>9, <1>10, <1>15, <2>1
<1>16. ASSUME NEW given \in Names
       PROVE  Cardinality(FailuresOf(given)') <= LoginAttempts + overlaps'
  <2>1. Cardinality(FailuresOf(given)) <= LoginAttempts + overlaps
    BY DEF FailureInv, FailuresBounded
  <2>2. CASE given = name
    <3>1. FailuresOf(given)' \subseteq FailuresOf(given) \cup {new}
      BY <1>5 DEF FailuresOf, OfName, Failures
    <3>2. QED
      BY <1>14, <2>1, <2>2, <3>1
  <2>3. CASE given # name
    <3>1. FailuresOf(given)' \subseteq FailuresOf(given) /\ FailuresOf(given) \subseteq Failures
      BY <1>5, <1>6, <2>3 DEF FailuresOf, OfName, Failures
    <3>2. QED
      BY <1>15, <2>1, <3>1
  <2>4. QED
    BY <2>2, <2>3
<1>17. ASSUME NEW k \in Clients
       PROVE  Cardinality(FailuresFrom(k)') <= LoginAttempts + overlaps'
  <2>1. Cardinality(FailuresFrom(k)) <= LoginAttempts + overlaps
    BY DEF FailureInv, FailuresBounded
  <2>2. CASE k = client
    <3>1. FailuresFrom(k)' \subseteq FailuresFrom(k) \cup {new}
      BY <1>5 DEF FailuresFrom, OfClient, Failures
    <3>2. QED
      BY <1>14, <2>1, <2>2, <3>1
  <2>3. CASE k # client
    <3>1. FailuresFrom(k)' \subseteq FailuresFrom(k) /\ FailuresFrom(k) \subseteq Failures
      BY <1>5, <1>6, <2>3 DEF FailuresFrom, OfClient, Failures
    <3>2. QED
      BY <1>15, <2>1, <3>1
  <2>4. QED
    BY <2>2, <2>3
<1>18. QED
  BY <1>8, <1>16, <1>17 DEF FailuresBounded

LEMMA AttemptsFrame ==
  ASSUME failures' = failures
  PROVE  /\ Failures' = Failures
         /\ \A name, client : Counted(name, client)' = Counted(name, client)
BY DEF Failures, Counted, FailuresOf, FailuresFrom

LEMMA ForgetShrinks ==
  ASSUME TypeOK, NEW name \in Names, NEW client \in Clients, ForgetFailure(name, client)
  PROVE  Failures' \subseteq Failures
<1>1. failures \in [Names -> [Clients -> Nat]]
  BY DEF TypeOK
<1>2. failures' = [failures EXCEPT ![name][client] = @ - 1]
  BY DEF ForgetFailure
<1>3. \A given \in Names, k \in Clients :
        failures'[given][k] \in {failures[given][k], failures[given][k] - 1} /\ failures[given][k] \in Nat
  BY <1>1, <1>2
<1>4. \A given \in Names, k \in Clients : 1 .. failures'[given][k] \subseteq 1 .. failures[given][k]
  BY <1>3
<1>5. ASSUME NEW row \in Failures'
      PROVE  row \in Failures
  <2>1. PICK given \in Names, k \in Clients : \E n \in 1 .. failures'[given][k] : row = Attempt(given, k, n)
    BY DEF Failures, Attempts, Attempt
  <2>2. QED
    BY <1>4, <2>1, AttemptRow
<1>6. QED
  BY <1>5

\* A commit overtakes whoever else is running.
LEMMA CommitFits ==
  ASSUME \A c \in Calls \ overtaken' : calls'[c] = NoCall
  PROVE  RejectionsFit'
BY DEF RejectionsFit

\* A call that begins and is about to write a failure has counted.
BeginsFitting(c) ==
  \E call :
    /\ Begin(c, call)
    /\ call.op = "reject" => Counted(call.name, call.client) < LoginAttempts

LEMMA OtherFits ==
  ASSUME NEW c, NEW call, Begin(c, call), call.op # "reject"
  PROVE  BeginsFitting(c)
BY DEF BeginsFitting

LEMMA AdministerFits ==
  ASSUME NEW c, NEW s \in DOMAIN sessions, Administer(c, s)
  PROVE  BeginsFitting(c)
<1>1. ASSUME NEW u, NEW new, NEW ends, ChangesAccount(c, u, new, ends)
      PROVE  BeginsFitting(c)
  BY <1>1, OtherFits DEF ChangesAccount
<1>2. CASE ChangePassword(c, s)
  BY <1>1, <1>2 DEF ChangePassword
<1>3. ASSUME NEW u, NEW status, SetUserStatus(c, s, u, status)
      PROVE  BeginsFitting(c)
  BY <1>1, <1>3 DEF SetUserStatus
<1>4. ASSUME NEW u, NEW name, NEW link, UpdateUser(c, s, u, name, link)
      PROVE  BeginsFitting(c)
  BY <1>1, <1>4 DEF UpdateUser
<1>5. ASSUME NEW name, NEW temporary, CreateUser(c, s, name, temporary)
      PROVE  BeginsFitting(c)
  BY <1>5, OtherFits DEF CreateUser
<1>6. ASSUME NEW u, NEW role, NEW scope, AssignRole(c, s, u, role, scope)
      PROVE  BeginsFitting(c)
  BY <1>6, OtherFits DEF AssignRole
<1>7. ASSUME NEW n, RevokeRole(c, s, n)
      PROVE  BeginsFitting(c)
  BY <1>7, OtherFits DEF RevokeRole
<1>8. QED
  BY <1>2, <1>3, <1>4, <1>5, <1>6, <1>7 DEF Administer

LEMMA ArrangeFits ==
  ASSUME NEW c, Arrange(c)
  PROVE  BeginsFitting(c)
<1>1. ASSUME NEW e, NEW u, CreateEmployee(c, e, u)
      PROVE  BeginsFitting(c)
  BY <1>1, OtherFits DEF CreateEmployee
<1>2. ASSUME NEW n, NEW parent, MoveNode(c, n, parent)
      PROVE  BeginsFitting(c)
  BY <1>2, OtherFits DEF MoveNode
<1>3. ASSUME NEW e, NEW n, NEW first, NEW last, AssignNode(c, e, n, first, last)
      PROVE  BeginsFitting(c)
  BY <1>3, OtherFits DEF AssignNode
<1>4. ASSUME NEW target, NEW shift, NEW first, NEW last, AssignShift(c, target, shift, first, last)
      PROVE  BeginsFitting(c)
  BY <1>4, OtherFits DEF AssignShift
<1>5. QED
  BY <1>1, <1>2, <1>3, <1>4 DEF Arrange

LEMMA LoginFits ==
  ASSUME NEW c, NEW name, NEW client, NEW right, Login(c, name, client, right)
  PROVE  BeginsFitting(c)
<1>1. CASE \E u : Begin(c, [op |-> "login", row |-> NewSession(u)])
  BY <1>1, OtherFits
<1>2. CASE Begin(c, [op |-> "reject", name |-> name, client |-> client])
  BY <1>2 DEF Login, BeginsFitting
<1>3. QED
  BY <1>1, <1>2 DEF Login

LEMMA BeginFits ==
  ASSUME TypeOK, FailureInv, NEW c \in Calls, BeginsFitting(c)
  PROVE  FailureInv'
<1>0. PICK call : /\ Begin(c, call)
                  /\ call.op = "reject" => Counted(call.name, call.client) < LoginAttempts
  BY DEF BeginsFitting
<1>1. failures' = failures /\ overlaps' = overlaps /\ overtaken' = overtaken \ {c}
  BY <1>0 DEF Begin, identity
<1>2. \A k \in Calls : calls'[k] = IF k = c THEN call ELSE calls[k]
  BY <1>0 DEF Begin, TypeOK
<1>3. RejectionsFit'
  BY <1>0, <1>1, <1>2, AttemptsFrame DEF RejectionsFit, FailureInv
<1>4. IsFiniteSet(Failures)' /\ FailuresBounded'
  BY <1>1, AttemptsFrame, AttemptsShrink DEF TypeOK
<1>5. QED
  BY <1>3, <1>4 DEF FailureInv

LEMMA WriteFits ==
  ASSUME TypeOK, FailureInv, NEW c \in Calls, Write(c)
  PROVE  FailureInv'
<1>1. CASE Abandon(c)
  <2>1. failures' = failures /\ overlaps' = overlaps /\ overtaken' = overtaken \ {c}
    BY <1>1 DEF Abandon, identity
  <2>2. \A k \in Calls : calls'[k] = IF k = c THEN NoCall ELSE calls[k]
    BY <1>1 DEF Abandon, TypeOK
  <2>3. RejectionsFit'
    BY <2>1, <2>2, AttemptsFrame DEF RejectionsFit, FailureInv
  <2>4. IsFiniteSet(Failures)' /\ FailuresBounded'
    BY <2>1, AttemptsFrame, AttemptsShrink DEF TypeOK
  <2>5. QED
    BY <2>3, <2>4 DEF FailureInv
<1>2. CASE ~Abandon(c)
  <2>1. Committed(c)
    BY <1>2 DEF Write, WriteLogin, WriteFailure, WriteAccount, WriteUser, WriteAppointment,
                WriteRevocation, WriteEmployee, WriteMove, WritePost, WriteRoster
  <2>2. RejectionsFit'
    BY <2>1, CommitFits DEF Committed, TypeOK
  <2>3. CASE WriteFailure(c)
    BY <2>2, <2>3, FailureAdded DEF FailureInv
  <2>4. CASE ~WriteFailure(c)
    <3>1. failures' = failures
      BY <1>2, <2>4 DEF Write, WriteLogin, WriteAccount, WriteUser, WriteAppointment,
            WriteRevocation, WriteEmployee, WriteMove, WritePost, WriteRoster, identity
    <3>2. overlaps' \in Nat /\ overlaps' >= overlaps
      BY <2>1 DEF Committed, TypeOK
    <3>3. QED
      BY <2>2, <3>1, <3>2, AttemptsFrame, AttemptsShrink DEF FailureInv
  <2>5. QED
    BY <2>3, <2>4
<1>3. QED
  BY <1>1, <1>2

LEMMA SingleFits ==
  ASSUME TypeOK, FailureInv,
         \/ \E s \in DOMAIN sessions : EndSession(s)
         \/ \E u \in Users, name \in Names : Bootstrap(u, name)
         \/ \E name \in Names, client \in Clients : ForgetFailure(name, client)
         \/ \E e \in Employees, status \in EmployeeStatus : SetEmployeeStatus(e, status)
         \/ \E n \in Nodes, parent \in Nodes \cup {NoNode} : CreateNode(n, parent)
  PROVE  FailureInv'
<1>1. Changed
  BY DEF EndSession, Bootstrap, ForgetFailure, SetEmployeeStatus, CreateNode
<1>2. RejectionsFit'
  BY <1>1, CommitFits DEF Changed
<1>3. overlaps' = overlaps /\ overlaps \in Nat
  BY <1>1 DEF Changed, TypeOK
<1>4. Failures' \subseteq Failures
  <2>1. CASE \E name \in Names, client \in Clients : ForgetFailure(name, client)
    BY <2>1, ForgetShrinks
  <2>2. CASE failures' = failures
    BY <2>2, AttemptsFrame
  <2>3. QED
    BY <2>1, <2>2 DEF EndSession, Bootstrap, SetEmployeeStatus, CreateNode, identity
<1>5. QED
  BY <1>2, <1>3, <1>4, AttemptsShrink DEF FailureInv

LEMMA StepFits == TypeOK /\ FailureInv /\ [Next]_vars => FailureInv'
<1> SUFFICES ASSUME TypeOK, FailureInv, [Next]_vars PROVE FailureInv'
  OBVIOUS
<1>1. CASE UNCHANGED vars
  <2>1. failures' = failures /\ calls' = calls /\ overtaken' = overtaken /\ overlaps' = overlaps
    BY <1>1 DEF vars, identity, history
  <2>2. RejectionsFit'
    BY <2>1, AttemptsFrame DEF RejectionsFit, FailureInv
  <2>3. IsFiniteSet(Failures)' /\ FailuresBounded'
    BY <2>1, AttemptsFrame, AttemptsShrink DEF TypeOK
  <2>4. QED
    BY <2>2, <2>3 DEF FailureInv
<1>2. ASSUME NEW c \in Calls,
             \/ \E name \in Names, client \in Clients, right \in BOOLEAN : Login(c, name, client, right)
             \/ \E s \in DOMAIN sessions : Administer(c, s)
             \/ Arrange(c)
      PROVE  FailureInv'
  BY <1>2, LoginFits, AdministerFits, ArrangeFits, BeginFits
<1>3. QED
  BY <1>1, <1>2, WriteFits, SingleFits DEF Next

LEMMA InitFits == Init => FailureInv
<1> SUFFICES ASSUME Init PROVE FailureInv
  OBVIOUS
<1>1. failures = Failed /\ overlaps = 0
  BY DEF Init
<1>2. IsFiniteSet(Failures)
  BY <1>1, FailedAssumption DEF Failures
<1>3. FailuresBounded
  BY <1>1, FailedAssumption, PeopleAssumption DEF FailuresBounded, FailuresOf, FailuresFrom
<1>4. RejectionsFit
  BY DEF RejectionsFit, Init
<1>5. QED
  BY <1>2, <1>3, <1>4 DEF FailureInv

\* Failed logins on a name, whoever has it, and from an address stay within the
\* limit, and each login that another has overtaken adds at most one.
THEOREM FailuresAreBounded == Spec => []FailuresBounded
<1>1. FailureInv => FailuresBounded
  BY DEF FailureInv
<1>2. QED
  BY <1>1, InitFits, StepFits, Invariant, PTL DEF Spec
=============================================================================
