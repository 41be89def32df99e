---------------------------- MODULE Registration ----------------------------
(***************************************************************************)
(* How users come to be: the handlers register, login and adminCreateUser  *)
(* of the API, the middleware that lets only admins reach the last one,    *)
(* and the statements CountUsersByRole and CreateUser they send.  Requests *)
(* are handled concurrently, and between the count of a registration and   *)
(* its insert lies the hashing of the password.                            *)
(*                                                                         *)
(* A user is named by the email, which the schema keeps unique, and a      *)
(* token by the user it was made for.  Passwords, names and balances are   *)
(* left out, and so are requests with an empty field or without a token:   *)
(* they are refused before anything is read.                               *)
(***************************************************************************)
EXTENDS Naturals, FiniteSets

CONSTANTS
  Email,        \* emails people register with
  Request,      \* requests to POST /api/auth/register and POST /api/admin/users
  Nobody,       \* the caller of a public registration
  MaxFaults     \* bound on lost answers, failed statements and restarts

ASSUME RegistrationAssumption == Nobody \notin Email /\ MaxFaults \in Nat

VARIABLES
  users,        \* table users: the role of each email, "absent" until inserted
  tokens,       \* users for whom a token is in someone's hands
  form,         \* what each request asks for
  pc,           \* where each request is in its handler
  answer,       \* the status each request was answered with
  faults        \* failures so far

vars == <<users, tokens, form, pc, answer, faults>>

Role == {"CLIENT", "BANKER", "ADMIN"}

\* A role field as it comes: a role, "" when it is missing, or another text.
RoleField == Role \cup {"", "OTHER"}

Form == [route : {"register", "admin"}, caller : Email \cup {Nobody},
         email : Email, role : RoleField]
NoForm == [route |-> "none", caller |-> Nobody, email |-> Nobody, role |-> ""]

RegistrationInit ==
  /\ users = [e \in Email |-> "absent"]
  /\ tokens = {}
  /\ form = [r \in Request |-> NoForm]
  /\ pc = [r \in Request |-> "new"]
  /\ answer = [r \in Request |-> "none"]
  /\ faults = 0

Fault == faults < MaxFaults /\ faults' = faults + 1

Goto(r, label) == pc' = [pc EXCEPT ![r] = label]
Reply(r, status) == Goto(r, "done") /\ answer' = [answer EXCEPT ![r] = status]
Continue(r, label) == Goto(r, label) /\ UNCHANGED answer

AdminExists == \E e \in Email : users[e] = "ADMIN"
-----------------------------------------------------------------------------
\* A mutant: register checks the role as adminCreateUser does.
RegisterAnyRole(r, email, role) ==
  /\ pc[r] = "new" /\ role # "OTHER"
  /\ form' = [form EXCEPT ![r] =
       [route |-> "register", caller |-> Nobody, email |-> email, role |-> role]]
  /\ IF role = "ADMIN" THEN Continue(r, "count") ELSE Continue(r, "insert")
  /\ UNCHANGED <<users, tokens, faults>>

\* The head of register: only clients and admins, admins only after a count.
Register(r, email, role) ==
  /\ pc[r] = "new"
  /\ form' = [form EXCEPT ![r] =
       [route |-> "register", caller |-> Nobody, email |-> email, role |-> role]]
  /\ \/ role \notin {"", "CLIENT", "ADMIN"} /\ Reply(r, "400")
     \/ role = "ADMIN" /\ Continue(r, "count")
     \/ role \in {"", "CLIENT"} /\ Continue(r, "insert")
  /\ UNCHANGED <<users, tokens, faults>>

\* A mutant: one admin already there does not stop the next registration.
CountAdminsLate(r) ==
  /\ pc[r] = "count"
  /\ \/ Cardinality({e \in Email : users[e] = "ADMIN"}) > 1 /\ Reply(r, "403")
     \/ Cardinality({e \in Email : users[e] = "ADMIN"}) <= 1 /\ Continue(r, "insert")
  /\ UNCHANGED <<users, tokens, form, faults>>

CountAdmins(r) ==
  /\ pc[r] = "count"
  /\ \/ AdminExists /\ Reply(r, "403")
     \/ ~ AdminExists /\ Continue(r, "insert")
  /\ UNCHANGED <<users, tokens, form, faults>>

CountFails(r) ==
  /\ Fault
  /\ pc[r] = "count" /\ Reply(r, "500")
  /\ UNCHANGED <<users, tokens, form>>

\* authenticated and requireRole, which read the caller's role from the table
\* and not from the token, then the head of adminCreateUser.
AdminCreate(r, caller, email, role) ==
  /\ pc[r] = "new" /\ caller \in tokens
  /\ form' = [form EXCEPT ![r] =
       [route |-> "admin", caller |-> caller, email |-> email, role |-> role]]
  /\ \/ users[caller] # "ADMIN" /\ Reply(r, "403")
     \/ users[caller] = "ADMIN" /\ role = "OTHER" /\ Reply(r, "400")
     \/ users[caller] = "ADMIN" /\ role # "OTHER" /\ Continue(r, "insert")
  /\ UNCHANGED <<users, tokens, faults>>

\* A mutant: a missing role is stored as it is.
RoleAsAsked(f) == f.role

\* The role a request that gets as far as the insert asks for.
Granted(f) == IF f.role = "" THEN "CLIENT" ELSE f.role

\* A mutant: "on conflict (email) do update".
Upsert(r) == users' = [users EXCEPT ![form[r].email] = Granted(form[r])]

\* CreateUser's insert, where the unique constraint lets it through.
CreateUser(r) ==
  /\ users[form[r].email] = "absent"
  /\ users' = [users EXCEPT ![form[r].email] = Granted(form[r])]

\* A registration answers with a token, an admin's request with the user only.
Insert(r) ==
  /\ pc[r] = "insert"
  /\ CreateUser(r)
  /\ tokens' = tokens \cup
       (IF form[r].route = "register" THEN {form[r].email} ELSE {})
  /\ Reply(r, "201")
  /\ UNCHANGED <<form, faults>>

InsertRefused(r) ==
  /\ pc[r] = "insert" /\ users[form[r].email] # "absent"
  /\ Reply(r, "409")
  /\ UNCHANGED <<users, tokens, form, faults>>

\* Whatever error CreateUser returns is answered with 409: a statement that
\* failed, and one whose success was not heard of.
InsertFails(r) ==
  /\ Fault
  /\ pc[r] = "insert"
  /\ CreateUser(r) \/ UNCHANGED users
  /\ Reply(r, "409")
  /\ UNCHANGED <<tokens, form>>

\* The owner of an email knows the password and gets a token for two hours
\* (nothing in the program sets is_blocked, the other condition of login).
Login(e) ==
  /\ users[e] # "absent"
  /\ tokens' = tokens \cup {e}
  /\ UNCHANGED <<users, form, pc, answer, faults>>

Expire(e) ==
  /\ e \in tokens
  /\ tokens' = tokens \ {e}
  /\ UNCHANGED <<users, form, pc, answer, faults>>

\* The process restarts: requests under way get no answer, tokens stay valid.
ApiRestart ==
  /\ Fault
  /\ pc' = [r \in Request |-> IF pc[r] = "new" THEN "new" ELSE "done"]
  /\ UNCHANGED <<users, tokens, form, answer>>

RequestNext(r) ==
  \/ \E e \in Email, role \in RoleField : Register(r, e, role)
  \/ \E c \in Email, e \in Email, role \in RoleField : AdminCreate(r, c, e, role)
  \/ CountAdmins(r) \/ CountFails(r)
  \/ Insert(r) \/ InsertRefused(r) \/ InsertFails(r)

RegistrationNext ==
  \/ \E r \in Request : RequestNext(r)
  \/ \E e \in Email : Login(e) \/ Expire(e)
  \/ ApiRestart

RegistrationSpec == RegistrationInit /\ [][RegistrationNext]_vars
-----------------------------------------------------------------------------
RegistrationTypeOK ==
  /\ users \in [Email -> Role \cup {"absent"}]
  /\ tokens \subseteq {e \in Email : users[e] # "absent"}
  /\ form \in [Request -> Form \cup {NoForm}]
  /\ pc \in [Request -> {"new", "count", "insert", "done"}]
  /\ answer \in [Request -> {"none", "201", "400", "403", "409", "500"}]
  /\ faults \in 0 .. MaxFaults

\* Nobody becomes a banker, who decides other people's payments, through the
\* public route: behind every banker stands a request of an admin who was one
\* when the request was let in and still is.  And whoever was created on the
\* route for admins was created by an admin, however registrations, logins and
\* expiries of other users interleave.
BankersAreAppointed ==
  /\ \A e \in Email : users[e] = "BANKER" =>
       \E r \in Request : /\ form[r].route = "admin" /\ form[r].email = e
                          /\ form[r].role = "BANKER"
                          /\ users[form[r].caller] = "ADMIN"
  /\ \A r \in Request : form[r].route = "admin" /\ answer[r] = "201" =>
       users[form[r].caller] = "ADMIN"

\* An answer 201 is about a user who exists with the role that was granted, and
\* no two requests are told that they created the same user.
CreatedOnce ==
  /\ \A r \in Request : answer[r] = "201" =>
       users[form[r].email] = Granted(form[r])
  /\ \A r1, r2 \in Request :
       r1 # r2 /\ answer[r1] = "201" /\ answer[r2] = "201" =>
         form[r1].email # form[r2].email

\* A public registration of an admin whose count starts when there is an admin
\* fails for good: the window of the race below closes with the first admin.
LateAdminIsRefused ==
  \A r \in Request :
    [](AdminExists /\ pc[r] = "count" => [](answer[r] # "201"))

\* openapi.go:88: the public route creates clients, and the first admin only.
FirstAdminOnly ==
  Cardinality({r \in Request : /\ form[r].route = "register"
                               /\ form[r].role = "ADMIN"
                               /\ answer[r] = "201"}) <= 1
=============================================================================
