-------------------------------- MODULE People --------------------------------
(***************************************************************************)
(* The people of HajiriFlow: user accounts with their sessions and roles,  *)
(* and the workforce of one organization, its tree of nodes, who belongs   *)
(* to which node and who works which shift.  Accounts and workforce meet   *)
(* in the employee link of an account.                                     *)
(*                                                                         *)
(* A call of the API is one READ COMMITTED transaction that reads, checks  *)
(* in Python and writes at the end: a Begin and a Write.  What overwrites  *)
(* one row, or inserts one without looking at others, is one step.  The    *)
(* permissions of the workforce calls do not depend on the rows modelled   *)
(* here and are left out.                                                  *)
(***************************************************************************)
EXTENDS Integers, Sequences, FiniteSets

CONSTANTS
  Users,          \* user accounts
  Names,          \* usernames
  Clients,        \* addresses that people log in from
  Employees,      \* employees of the organization
  Nodes,          \* organization nodes
  Shifts,         \* shifts
  Calls,          \* API calls that can be running at the same time
  Days,           \* dates, consecutive numbers
  Periods,        \* bound: first and last dates of assignments
  Scopes,         \* bound: the scopes of the roles that are assigned
  LoginAttempts,  \* login_max_attempts of the settings
  Accounts,       \* the accounts to begin with
  LoggedIn,       \* who has logged in to begin with, one after the other
  Failed,         \* failed logins inside the login window to begin with
  Appointed,      \* the role assignments to begin with
  Tree,           \* the organization nodes to begin with
  Staff,          \* the employees to begin with
  MaxWrites,      \* bound: changes that are committed
  MaxOverlaps,    \* bound: writes of calls that others have overtaken
  NoUser, NoEmployee, NoNode, NoShift, NoCall, Missing

Role == {"system_administrator", "identity_administrator"}

\* user_accounts
Account ==
  [name : Names, status : {"active", "disabled"}, temporary : BOOLEAN, version : Nat,
   employee : Employees \cup {NoEmployee}]

\* auth_sessions; since and link are history: how many changes of the account,
\* and which employee link, the login has seen.
LoginSession ==
  [user : Users, version : Nat, over : BOOLEAN, since : Nat,
   link : Employees \cup {NoEmployee}]

\* user_roles
Appointment ==
  [user : Users, role : Role, scope : {"global", "organization"}, over : BOOLEAN]

\* The primary rows of employee_organization_assignments
Post == [employee : Employees, node : Nodes, first : Days, last : Days]

\* shift_assignments, of one employee or of one organization node
Roster == [target : Employees \cup Nodes, shift : Shifts, first : Days, last : Days]

EmployeeStatus == {"active", "inactive", "terminated"}

Call ==
  [op : {"login"}, row : LoginSession]
    \cup [op : {"reject"}, name : Names, client : Clients]
    \cup [op : {"account"}, user : Users, seen : Account, new : Account, ends : BOOLEAN]
    \cup [op : {"create"}, name : Names, temporary : BOOLEAN]
    \cup [op : {"appoint"}, row : Appointment]
    \cup [op : {"revoke"}, appointment : Nat]
    \cup [op : {"hire"}, employee : Employees, user : Users \cup {NoUser}]
    \cup [op : {"move"}, node : Nodes, parent : Nodes \cup {NoNode}]
    \cup [op : {"post"}, row : Post]
    \cup [op : {"roster"}, row : Roster]

\* What a node and the nodes above it are part of.
UpSets(tree, n) ==
  {set \in SUBSET (Nodes \cup {NoNode}) :
     n \in set /\ \A m \in set \cap Nodes : tree[m] \in set}

\* A node with the nodes above it.
Above(tree, n) == {m \in Nodes \cup {NoNode} : \A set \in UpSets(tree, n) : m \in set}

\* The parents are there, and no node is above itself.
Acyclic(tree) ==
  \A n \in Nodes : tree[n] \in Nodes =>
    tree[tree[n]] # Missing /\ n \notin Above(tree, tree[n])

\* The failed logins that a table of numbers counts.
Attempts(table) ==
  UNION {{[name |-> name, client |-> client, number |-> n] : n \in 1 .. table[name][client]} :
           name \in Names, client \in Clients}

OfName(attempts, name) == {row \in attempts : row.name = name}
OfClient(attempts, client) == {row \in attempts : row.client = client}

ASSUME PeopleAssumption ==
  /\ Days \subseteq Int /\ Periods \subseteq Days \X Days
  /\ Employees \cap Nodes = {}
  /\ Scopes \subseteq {"global", "organization"}
  /\ LoginAttempts \in 2 .. 50
  /\ Accounts \in [Users -> Account \cup {NoUser}]
  /\ \A u, v \in Users :
       Accounts[u] # NoUser /\ Accounts[v] # NoUser /\ u # v => Accounts[u].name # Accounts[v].name
  /\ LoggedIn \in Seq({u \in Users : Accounts[u] # NoUser})
  /\ Appointed \in Seq(Appointment)
  /\ Tree \in [Nodes -> Nodes \cup {NoNode, Missing}]
  /\ Staff \in [Employees -> EmployeeStatus \cup {Missing}]
  /\ MaxWrites \in Nat /\ MaxOverlaps \in Nat

ASSUME PeopleNoneAssumption ==
  /\ NoUser \notin Users \cup Account /\ NoEmployee \notin Employees
  /\ NoNode \notin Nodes /\ Missing \notin Nodes \cup {NoNode} \cup EmployeeStatus
  /\ NoShift \notin Shifts /\ NoCall \notin Call

ASSUME TreeAssumption == Acyclic(Tree)

\* The failures to begin with are such as the limit lets through.
ASSUME FailedAssumption ==
  /\ Failed \in [Names -> [Clients -> Nat]]
  /\ IsFiniteSet(Attempts(Failed))
  /\ \A name \in Names : Cardinality(OfName(Attempts(Failed), name)) <= LoginAttempts
  /\ \A client \in Clients : Cardinality(OfClient(Attempts(Failed), client)) <= LoginAttempts

\* The command that creates the first administrator has run.
ASSUME AdministratorAssumption ==
  \E u \in Users :
    /\ Accounts[u] # NoUser /\ Accounts[u].status = "active"
    /\ \E n \in DOMAIN Appointed :
         Appointed[n] = [user |-> u, role |-> "system_administrator", scope |-> "global",
                         over |-> FALSE]

VARIABLES
  users,          \* user_accounts
  sessions,       \* auth_sessions, in the order of the logins
  failures,       \* failed authentication attempts on a name inside the login window
  appointments,   \* user_roles, in the order of their assignment
  employees,      \* status of the employees
  parents,        \* parent_id of the organization nodes
  posts,          \* primary organization assignments
  rosters,        \* shift assignments
  calls,          \* the running calls
  changes,        \* history: changes of an account by calls that give it a new version
  lost,           \* history: accounts whose version a stale call has written
  writes,         \* how many changes have been committed
  overtaken,      \* history: calls that run since before the last commit of another
  overlaps        \* history: how many calls have written after they were overtaken

identity == <<users, sessions, failures, appointments, changes, lost>>
workforce == <<employees, parents, posts, rosters>>
history == <<writes, overtaken, overlaps>>
vars == <<identity, workforce, calls, history>>

NewSession(u) ==
  [user |-> u, version |-> users[u].version, over |-> FALSE, since |-> changes[u],
   link |-> users[u].employee]

Exists(u) == users[u] # NoUser
Named(name) == {u \in Users : Exists(u) /\ users[u].name = name}
Known(n) == parents[n] # Missing

TypeOK ==
  /\ users \in [Users -> Account \cup {NoUser}]
  /\ sessions \in Seq(LoginSession)
  /\ failures \in [Names -> [Clients -> Nat]]
  /\ appointments \in Seq(Appointment)
  /\ employees \in [Employees -> EmployeeStatus \cup {Missing}]
  /\ parents \in [Nodes -> Nodes \cup {NoNode, Missing}]
  /\ posts \in Seq(Post) /\ rosters \in Seq(Roster)
  /\ calls \in [Calls -> Call \cup {NoCall}]
  /\ changes \in [Users -> Nat] /\ lost \subseteq Users
  /\ writes \in 0 .. MaxWrites /\ overlaps \in 0 .. MaxOverlaps
  /\ overtaken \subseteq Calls

Init ==
  /\ users = Accounts
  /\ changes = [u \in Users |-> 0]
  /\ sessions = [n \in DOMAIN LoggedIn |-> NewSession(LoggedIn[n])]
  /\ failures = Failed
  /\ appointments = Appointed
  /\ employees = Staff
  /\ parents = Tree
  /\ posts = <<>> /\ rosters = <<>>
  /\ calls = [c \in Calls |-> NoCall]
  /\ lost = {}
  /\ writes = 0 /\ overtaken = {} /\ overlaps = 0

-----------------------------------------------------------------------------
(***************************************************************************)
(* Sessions, permissions, the tree and the context of an employee.         *)
(***************************************************************************)

\* Mutant: the version of the account is not looked at.
ValidAnyVersion(s) ==
  /\ s \in DOMAIN sessions
  /\ ~sessions[s].over
  /\ users[sessions[s].user].status = "active"

\* resolve_session
Valid(s) ==
  /\ s \in DOMAIN sessions
  /\ ~sessions[s].over
  /\ users[sessions[s].user].status = "active"
  /\ users[sessions[s].user].version = sessions[s].version

\* grants_for_user, as far as they are global
Grants(u) ==
  {appointments[n].role : n \in {m \in DOMAIN appointments :
     appointments[m].user = u /\ appointments[m].scope = "global" /\ ~appointments[m].over}}

FullAccess(u) == "system_administrator" \in Grants(u)

\* require_permission, for the identity permissions, which both roles hold
Manages(s) ==
  /\ Valid(s)
  /\ ~users[sessions[s].user].temporary
  /\ Grants(sessions[s].user) # {}

FailuresOf(name) == OfName(Attempts(failures), name)
FailuresFrom(client) == OfClient(Attempts(failures), client)

\* Mutant: the failures on other names from the address do not count.
CountedPair(name, client) == Cardinality(FailuresOf(name) \cap FailuresFrom(client))

\* The failures that _enforce_login_limit counts: by the name that is given,
\* whoever has it, if anybody.
Counted(name, client) == Cardinality(FailuresOf(name) \cup FailuresFrom(client))

Linked(e) == {u \in Users : Exists(u) /\ users[u].employee = e}

Rows(table) == {table[n] : n \in DOMAIN table}

\* Mutant: a row that ends on the first day of another does not overlap it.
OverlapsInside(row, first, last) == row.first < last /\ first < row.last

\* _overlaps
Meets(row, first, last) == row.first <= last /\ first <= row.last

Clashes(rows, first, last) == \E row \in rows : Meets(row, first, last)

PostsOf(e) == {row \in Rows(posts) : row.employee = e}
RostersOf(target) == {row \in Rows(rosters) : row.target = target}

\* What ORDER BY starts_on DESC LIMIT 1 may find among the rows of a date.
Latest(rows, d) ==
  LET current == {row \in rows : row.first <= d /\ d <= row.last}
  IN  {row \in current : \A other \in current : other.first <= row.first}

ShiftsFound(target, d) == {row.shift : row \in Latest(RostersOf(target), d)}

\* resolve_employee_context: the shift of the employee, or else that of the
\* node the employee belongs to.
Contexts(e, d) ==
  LET nodes == {row.node : row \in Latest(PostsOf(e), d)}
      own == ShiftsFound(e, d)
      from(n) == IF own # {} THEN own
                 ELSE IF n = NoNode \/ ShiftsFound(n, d) = {} THEN {NoShift}
                 ELSE ShiftsFound(n, d)
  IN  UNION {{<<n, shift>> : shift \in from(n)} :
             n \in IF nodes = {} THEN {NoNode} ELSE nodes}

-----------------------------------------------------------------------------
(***************************************************************************)
(* Checks.                                                                 *)
(***************************************************************************)

\* Mutant: people may disable their own account.
MaySetOwnStatus(s, u, status) ==
  /\ Manages(s)
  /\ Exists(u) /\ users[u].status # status
  /\ FullAccess(u) => FullAccess(sessions[s].user)

MaySetStatus(s, u, status) ==
  /\ Manages(s)
  /\ Exists(u) /\ users[u].status # status
  /\ status = "disabled" => u # sessions[s].user
  /\ FullAccess(u) => FullAccess(sessions[s].user)

\* A rename, a new employee link, or both; never of one's own account.
MayUpdate(s, u, name, link) ==
  /\ Manages(s)
  /\ Exists(u) /\ u # sessions[s].user
  /\ name # users[u].name \/ link # users[u].employee
  /\ Named(name) \ {u} = {}
  /\ link \notin {NoEmployee, users[u].employee} =>
       employees[link] \notin {Missing, "terminated"} /\ Linked(link) \ {u} = {}

MayAppoint(s, u, role) ==
  /\ Manages(s)
  /\ Exists(u)
  /\ role = "system_administrator" => FullAccess(sessions[s].user)

MayRevoke(s, n) ==
  /\ Manages(s)
  /\ n \in DOMAIN appointments /\ ~appointments[n].over
  /\ appointments[n].user # sessions[s].user
  /\ appointments[n].role = "system_administrator" => FullAccess(sessions[s].user)

MayHire(e, u) ==
  /\ employees[e] = Missing
  /\ u # NoUser => Exists(u) /\ users[u].employee = NoEmployee

\* Mutant: only the parent of the new parent is looked at.
MayMoveAboveParent(n, parent) ==
  /\ Known(n)
  /\ parent # NoNode => Known(parent) /\ parent # n /\ parents[parent] # n

MayMove(n, parent) ==
  /\ Known(n)
  /\ parent # NoNode => Known(parent) /\ n \notin Above(parents, parent)

MayPost(e, n, first, last) ==
  /\ employees[e] # Missing /\ Known(n)
  /\ first <= last
  /\ ~Clashes(PostsOf(e), first, last)

MayRoster(target, first, last) ==
  /\ IF target \in Employees THEN employees[target] # Missing ELSE Known(target)
  /\ first <= last
  /\ ~Clashes(RostersOf(target), first, last)

-----------------------------------------------------------------------------
(***************************************************************************)
(* Calls that check and then write.                                        *)
(***************************************************************************)

\* Calls run one at a time once MaxOverlaps is reached; no more calls run than
\* MaxWrites lets write.
Free(c) ==
  LET running == {other \in Calls : calls[other] # NoCall}
  IN
  /\ c \notin running
  /\ writes + Cardinality(running) < MaxWrites
  /\ overlaps < MaxOverlaps \/ running = {}

Begin(c, call) ==
  /\ calls' = [calls EXCEPT ![c] = call]
  /\ overtaken' = overtaken \ {c}
  /\ UNCHANGED <<identity, workforce, writes, overlaps>>

\* With the wrong password, or for an account that is not active or not there,
\* the failure is what is written.
Login(c, name, client, right) ==
  LET found == {u \in Named(name) : users[u].status = "active" /\ right}
  IN
  /\ Counted(name, client) < LoginAttempts
  /\ \/ \E u \in found : Begin(c, [op |-> "login", row |-> NewSession(u)])
     \/ found = {} /\ Begin(c, [op |-> "reject", name |-> name, client |-> client])

ChangesAccount(c, u, new, ends) ==
  Begin(c, [op |-> "account", user |-> u, seen |-> users[u],
            new |-> [new EXCEPT !.version = @ + 1], ends |-> ends])

ChangePassword(c, s) ==
  /\ Valid(s)
  /\ LET u == sessions[s].user
     IN  ChangesAccount(c, u, [users[u] EXCEPT !.temporary = FALSE], TRUE)

SetUserStatus(c, s, u, status) ==
  /\ MaySetStatus(s, u, status)
  /\ ChangesAccount(c, u, [users[u] EXCEPT !.status = status], FALSE)

UpdateUser(c, s, u, name, link) ==
  /\ MayUpdate(s, u, name, link)
  /\ ChangesAccount(c, u, [users[u] EXCEPT !.name = name, !.employee = link], TRUE)

CreateUser(c, s, name, temporary) ==
  /\ Manages(s)
  /\ Named(name) = {}
  /\ Begin(c, [op |-> "create", name |-> name, temporary |-> temporary])

\* An assignment that is there already is returned as it is.
AssignRole(c, s, u, role, scope) ==
  /\ MayAppoint(s, u, role)
  /\ LET row == [user |-> u, role |-> role, scope |-> scope, over |-> FALSE]
     IN  /\ \A n \in DOMAIN appointments : appointments[n] # row
         /\ Begin(c, [op |-> "appoint", row |-> row])

RevokeRole(c, s, n) ==
  /\ MayRevoke(s, n)
  /\ Begin(c, [op |-> "revoke", appointment |-> n])

CreateEmployee(c, e, u) ==
  /\ MayHire(e, u)
  /\ Begin(c, [op |-> "hire", employee |-> e, user |-> u])

MoveNode(c, n, parent) ==
  /\ MayMove(n, parent)
  /\ parents[n] # parent
  /\ Begin(c, [op |-> "move", node |-> n, parent |-> parent])

AssignNode(c, e, n, first, last) ==
  /\ MayPost(e, n, first, last)
  /\ Begin(c, [op |-> "post",
               row |-> [employee |-> e, node |-> n, first |-> first, last |-> last]])

AssignShift(c, target, shift, first, last) ==
  /\ MayRoster(target, first, last)
  /\ Begin(c, [op |-> "roster",
               row |-> [target |-> target, shift |-> shift, first |-> first, last |-> last]])

\* The call is c's, and it is ready to write.
Ready(c, op) ==
  /\ calls[c] # NoCall
  /\ calls[c].op = op
  /\ writes < MaxWrites
  /\ c \in overtaken => overlaps < MaxOverlaps

\* The call ends; everybody else who is running has been overtaken by it.
Committed(c) ==
  /\ writes' = writes + 1
  /\ calls' = [calls EXCEPT ![c] = NoCall]
  /\ overtaken' = {other \in Calls \ {c} : calls[other] # NoCall}
  /\ overlaps' = IF c \in overtaken THEN overlaps + 1 ELSE overlaps

WriteLogin(c) ==
  /\ Ready(c, "login")
  /\ sessions' = Append(sessions, calls[c].row)
  /\ Committed(c)
  /\ UNCHANGED <<users, failures, appointments, changes, lost, workforce>>

\* The failed attempt is committed although the login ends with an error.
WriteFailure(c) ==
  /\ Ready(c, "reject")
  /\ failures' = [failures EXCEPT ![calls[c].name][calls[c].client] = @ + 1]
  /\ Committed(c)
  /\ UNCHANGED <<users, sessions, appointments, changes, lost, workforce>>

\* Columns that the call does not change keep what they hold by now.
Written(now, seen, new) ==
  [f \in DOMAIN new |-> IF new[f] = seen[f] THEN now[f] ELSE new[f]]

\* The sessions of a user that are not over are revoked.
Ended(u) ==
  [s \in DOMAIN sessions |->
     IF sessions[s].user = u THEN [sessions[s] EXCEPT !.over = TRUE] ELSE sessions[s]]

\* The unique indexes of the name and the employee link may refuse the new row.
WriteAccount(c) ==
  LET q == calls[c]
      row == Written(users[q.user], q.seen, q.new)
  IN
  /\ Ready(c, "account")
  /\ Named(row.name) \ {q.user} = {}
  /\ row.employee # NoEmployee => Linked(row.employee) \ {q.user} = {}
  /\ users' = [users EXCEPT ![q.user] = row]
  /\ sessions' = IF q.ends THEN Ended(q.user) ELSE sessions
  /\ changes' = [changes EXCEPT ![q.user] = @ + 1]
  /\ lost' = IF users[q.user].version = q.seen.version THEN lost ELSE lost \cup {q.user}
  /\ Committed(c)
  /\ UNCHANGED <<failures, appointments, workforce>>

NewAccount(name, temporary) ==
  [name |-> name, status |-> "active", temporary |-> temporary, version |-> 1,
   employee |-> NoEmployee]

\* The username is unique.
WriteUser(c, u) ==
  LET q == calls[c]
  IN
  /\ Ready(c, "create")
  /\ Named(q.name) = {}
  /\ ~Exists(u)
  /\ users' = [users EXCEPT ![u] = NewAccount(q.name, q.temporary)]
  /\ Committed(c)
  /\ UNCHANGED <<sessions, failures, appointments, changes, lost, workforce>>

WriteAppointment(c) ==
  /\ Ready(c, "appoint")
  /\ appointments' = Append(appointments, calls[c].row)
  /\ Committed(c)
  /\ UNCHANGED <<users, sessions, failures, changes, lost, workforce>>

WriteRevocation(c) ==
  /\ Ready(c, "revoke")
  /\ appointments' = [appointments EXCEPT ![calls[c].appointment].over = TRUE]
  /\ Committed(c)
  /\ UNCHANGED <<users, sessions, failures, changes, lost, workforce>>

\* The link of the account changes without a new version, and no session ends.
WriteEmployee(c) ==
  LET q == calls[c]
  IN
  /\ Ready(c, "hire")
  /\ employees[q.employee] = Missing
  /\ employees' = [employees EXCEPT ![q.employee] = "active"]
  /\ users' = IF q.user = NoUser THEN users
              ELSE [users EXCEPT ![q.user].employee = q.employee]
  /\ Committed(c)
  /\ UNCHANGED <<sessions, failures, appointments, changes, lost, parents, posts, rosters>>

WriteMove(c) ==
  /\ Ready(c, "move")
  /\ parents' = [parents EXCEPT ![calls[c].node] = calls[c].parent]
  /\ Committed(c)
  /\ UNCHANGED <<identity, employees, posts, rosters>>

WritePost(c) ==
  /\ Ready(c, "post")
  /\ posts' = Append(posts, calls[c].row)
  /\ Committed(c)
  /\ UNCHANGED <<identity, employees, parents, rosters>>

WriteRoster(c) ==
  /\ Ready(c, "roster")
  /\ rosters' = Append(rosters, calls[c].row)
  /\ Committed(c)
  /\ UNCHANGED <<identity, employees, parents, posts>>

\* The call fails: a constraint, a blank field, a lost connection.
Abandon(c) ==
  /\ calls[c] # NoCall
  /\ calls' = [calls EXCEPT ![c] = NoCall]
  /\ overtaken' = overtaken \ {c}
  /\ UNCHANGED <<identity, workforce, writes, overlaps>>

-----------------------------------------------------------------------------
(***************************************************************************)
(* Changes of one step.                                                    *)
(***************************************************************************)

Changed ==
  /\ writes < MaxWrites
  /\ writes' = writes + 1
  /\ overtaken' = {c \in Calls : calls[c] # NoCall}
  /\ UNCHANGED <<calls, overlaps>>

\* logout, or the time of the session is up.
EndSession(s) ==
  /\ Valid(s)
  /\ sessions' = [sessions EXCEPT ![s].over = TRUE]
  /\ Changed
  /\ UNCHANGED <<users, failures, appointments, changes, lost, workforce>>

\* A failed attempt is older than the login window.
ForgetFailure(name, client) ==
  /\ failures[name][client] > 0
  /\ failures' = [failures EXCEPT ![name][client] = @ - 1]
  /\ Changed
  /\ UNCHANGED <<users, sessions, appointments, changes, lost, workforce>>

\* The command that makes the account of a name a system administrator that is
\* not one yet, or creates it.
Bootstrap(u, name) ==
  LET row == [user |-> u, role |-> "system_administrator", scope |-> "global", over |-> FALSE]
  IN
  /\ IF Named(name) = {} THEN ~Exists(u) ELSE u \in Named(name) /\ ~FullAccess(u)
  /\ users' = IF Exists(u) THEN users ELSE [users EXCEPT ![u] = NewAccount(name, TRUE)]
  /\ appointments' = Append(appointments, row)
  /\ Changed
  /\ UNCHANGED <<sessions, failures, changes, lost, workforce>>

SetEmployeeStatus(e, status) ==
  /\ employees[e] \notin {Missing, status}
  /\ employees' = [employees EXCEPT ![e] = status]
  /\ Changed
  /\ UNCHANGED <<identity, parents, posts, rosters>>

CreateNode(n, parent) ==
  /\ ~Known(n)
  /\ parent # NoNode => parent # n /\ Known(parent)
  /\ parents' = [parents EXCEPT ![n] = parent]
  /\ Changed
  /\ UNCHANGED <<identity, employees, posts, rosters>>

-----------------------------------------------------------------------------
Administer(c, s) ==
  \/ ChangePassword(c, s)
  \/ \E u \in Users :
       \/ \E status \in {"active", "disabled"} : SetUserStatus(c, s, u, status)
       \/ \E name \in Names, link \in Employees \cup {NoEmployee} :
            UpdateUser(c, s, u, name, link)
       \/ \E role \in Role, scope \in Scopes : AssignRole(c, s, u, role, scope)
  \/ \E name \in Names, temporary \in BOOLEAN : CreateUser(c, s, name, temporary)
  \/ \E n \in DOMAIN appointments : RevokeRole(c, s, n)

Arrange(c) ==
  \/ \E e \in Employees, u \in Users \cup {NoUser} : CreateEmployee(c, e, u)
  \/ \E n \in Nodes, parent \in Nodes \cup {NoNode} : MoveNode(c, n, parent)
  \/ \E p \in Periods :
       \/ \E e \in Employees, n \in Nodes : AssignNode(c, e, n, p[1], p[2])
       \/ \E target \in Employees \cup Nodes, shift \in Shifts :
            AssignShift(c, target, shift, p[1], p[2])

Write(c) ==
  \/ WriteLogin(c) \/ WriteFailure(c) \/ WriteAccount(c)
  \/ \E u \in Users : WriteUser(c, u)
  \/ WriteAppointment(c) \/ WriteRevocation(c)
  \/ WriteEmployee(c) \/ WriteMove(c) \/ WritePost(c) \/ WriteRoster(c)
  \/ Abandon(c)

Next ==
  \/ \E c \in Calls :
       \/ /\ Free(c)
          /\ \/ \E name \in Names, client \in Clients, right \in BOOLEAN :
                  Login(c, name, client, right)
             \/ \E s \in DOMAIN sessions : Administer(c, s)
             \/ Arrange(c)
       \/ Write(c)
  \/ \E s \in DOMAIN sessions : EndSession(s)
  \/ \E name \in Names :
       \/ \E u \in Users : Bootstrap(u, name)
       \/ \E client \in Clients : ForgetFailure(name, client)
  \/ \E e \in Employees, status \in EmployeeStatus : SetEmployeeStatus(e, status)
  \/ \E n \in Nodes, parent \in Nodes \cup {NoNode} : CreateNode(n, parent)

Spec == Init /\ [][Next]_vars

-----------------------------------------------------------------------------
(***************************************************************************)
(* Properties.                                                             *)
(***************************************************************************)

\* No write so far was based on rows that another call had changed.
Serial == overlaps = 0

\* A call that changes the password, the status, the username or the employee
\* link of an account (change_password, set_user_status, update_user) ends the
\* sessions from before it, even those of logins that run beside it; only two
\* such calls that run beside each other on one account, of which one version
\* is lost, may let a session live on.  The creation of an employee
\* (create_employee) is no such call: it links an account without ending
\* anything.  Unless calls overlap it links accounts without a link only, so
\* that nobody who logged in as one employee goes on as another, or as none.
SessionsCurrent ==
  \A s \in DOMAIN sessions :
    LET u == sessions[s].user
    IN  Valid(s) /\ u \notin lost =>
          /\ sessions[s].since = changes[u]
          /\ Serial => sessions[s].link \in {NoEmployee, users[u].employee}

\* Not so: every change of the employee link ends the sessions from before it.
\* create_employee leaves them alone.
LinksCurrent ==
  \A s \in DOMAIN sessions : Valid(s) => sessions[s].link = users[sessions[s].user].employee

\* Nobody can lock the organization out: the administrators, who may disable
\* each other and revoke each other's roles, always leave an active one.
AdministratorRemains ==
  Serial => \E u \in Users : Exists(u) /\ users[u].status = "active" /\ FullAccess(u)

\* Creating and moving nodes never closes a cycle and leaves no node below one
\* that is not there, unless two moves run beside each other.
TreeAcyclic == Serial => Acyclic(parents)

\* Every employee belongs to one node and works one shift on a date: the
\* context that attendance and reports resolve does not depend on which of
\* several rows the database returns.
ContextUnique ==
  Serial => \A e \in Employees, d \in Days : Cardinality(Contexts(e, d)) = 1

\* Failed logins on one name, and from one address, never pass the limit inside
\* the login window, whatever accounts have the name by and by; each login that
\* another has overtaken may add one.  An account that is renamed leaves its
\* failures behind with the old name.
FailuresBounded ==
  /\ \A name \in Names : Cardinality(FailuresOf(name)) <= LoginAttempts + overlaps
  /\ \A client \in Clients : Cardinality(FailuresFrom(client)) <= LoginAttempts + overlaps
=============================================================================
