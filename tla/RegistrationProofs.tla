--------------------------- MODULE RegistrationProofs ---------------------------
(***************************************************************************)
(* Theorems about Registration, for any number of emails, requests and     *)
(* failures: who can become a banker, that a user is created once, and     *)
(* that the race between two first admins closes with the first of them.   *)
(*                                                                         *)
(* A row of users never changes once it is there, so what a request has    *)
(* checked about its caller still holds when its insert runs.              *)
(***************************************************************************)
EXTENDS Registration, TLAPS

\* What the head of each handler leaves to its insert, and what an answer 201
\* stands for.
RequestOK(r) ==
  /\ pc[r] = "new" => form[r] = NoForm
  /\ pc[r] # "new" => form[r] \in Form
  /\ form[r].route = "admin" => form[r].caller \in Email
  /\ pc[r] # "done" => answer[r] = "none"
  /\ pc[r] = "count" => form[r].route = "register" /\ form[r].role = "ADMIN"
  /\ pc[r] = "insert" =>
       /\ form[r].role \in Role \cup {""}
       /\ form[r].route = "register" => form[r].role # "BANKER"
       /\ form[r].route = "admin" => users[form[r].caller] = "ADMIN"
  /\ answer[r] = "201" =>
       /\ users[form[r].email] = Granted(form[r])
       /\ users[form[r].email] # "absent"
       /\ form[r].route = "admin" => users[form[r].caller] = "ADMIN"

\* What BankersAreAppointed says of one user.
Appointed(e) ==
  users[e] = "BANKER" =>
    \E r \in Request : /\ form[r].route = "admin" /\ form[r].email = e
                       /\ form[r].role = "BANKER"
                       /\ users[form[r].caller] = "ADMIN"

RegistrationInv ==
  /\ RegistrationTypeOK
  /\ \A r \in Request : RequestOK(r)
  /\ \A e \in Email : Appointed(e)
  /\ CreatedOnce

\* No statement of the program changes or removes a row of users.
LEMMA RowsStay ==
  ASSUME RegistrationTypeOK, [RegistrationNext]_vars, NEW e \in Email,
         users[e] # "absent"
  PROVE  users'[e] = users[e]
BY DEF RegistrationTypeOK, RegistrationNext, RequestNext, Register, CountAdmins,
       CountFails, AdminCreate, Insert, InsertRefused, InsertFails, CreateUser,
       Login, Expire, ApiRestart, vars

\* A request keeps its form once it is in its handler.
LEMMA FormsStay ==
  ASSUME RegistrationTypeOK, [RegistrationNext]_vars, NEW r \in Request,
         pc[r] # "new"
  PROVE  form'[r] = form[r] /\ pc'[r] # "new"
<1> USE DEF RegistrationTypeOK, Reply, Continue, Goto
<1>1. ASSUME NEW q \in Request, RequestNext(q)
      PROVE  form'[r] = form[r] /\ pc'[r] # "new"
  BY <1>1 DEF RequestNext, Register, CountAdmins, CountFails, AdminCreate, Insert,
              InsertRefused, InsertFails
<1>2. CASE \E e \in Email : Login(e) \/ Expire(e)
  BY <1>2 DEF Login, Expire
<1>3. CASE ApiRestart
  BY <1>3 DEF ApiRestart
<1>4. CASE UNCHANGED vars
  BY <1>4 DEF vars
<1> QED
  BY <1>1, <1>2, <1>3, <1>4 DEF RegistrationNext

\* A role as it is stored is one of the three.
LEMMA GrantedIsRole ==
  ASSUME NEW f \in Form, f.role \in Role \cup {""}
  PROVE  Granted(f) \in Role
BY DEF Granted, Role

\* The table, the tokens and the requests keep their types.
LEMMA RegistrationTypeStep ==
  ASSUME RegistrationInv, [RegistrationNext]_vars
  PROVE  RegistrationTypeOK'
<1> USE DEF RegistrationTypeOK, Reply, Continue, Goto
<1>0. RegistrationTypeOK /\ \A r \in Request : RequestOK(r)
  BY DEF RegistrationInv
<1>1. ASSUME NEW r \in Request, NEW e \in Email, NEW role \in RoleField,
             Register(r, e, role)
      PROVE  RegistrationTypeOK'
  <2>1. [route |-> "register", caller |-> Nobody, email |-> e, role |-> role] \in Form
    BY DEF Form
  <2> QED
    BY <1>0, <1>1, <2>1 DEF Register
<1>2. ASSUME NEW r \in Request, NEW c \in Email, NEW e \in Email,
             NEW role \in RoleField, AdminCreate(r, c, e, role)
      PROVE  RegistrationTypeOK'
  <2>1. [route |-> "admin", caller |-> c, email |-> e, role |-> role] \in Form
    BY DEF Form
  <2> QED
    BY <1>0, <1>2, <2>1 DEF AdminCreate
<1>3. ASSUME NEW r \in Request, CountAdmins(r) \/ CountFails(r) \/ InsertRefused(r)
      PROVE  RegistrationTypeOK'
  BY <1>0, <1>3, RegistrationAssumption
  DEF CountAdmins, CountFails, InsertRefused, Fault, RegistrationAssumption
<1>4. ASSUME NEW r \in Request, Insert(r) \/ InsertFails(r)
      PROVE  RegistrationTypeOK'
  <2>1. form[r] \in Form /\ form[r].role \in Role \cup {""} /\ form[r].email \in Email
    BY <1>0, <1>4 DEF Insert, InsertFails, RequestOK, Form
  <2>2. Granted(form[r]) \in Role
    BY <2>1, GrantedIsRole
  <2>3. users' \in [Email -> Role \cup {"absent"}]
    BY <1>0, <1>4, <2>1, <2>2 DEF Insert, InsertFails, CreateUser
  <2>4. \A e \in Email : users[e] # "absent" => users'[e] # "absent"
    BY RowsStay, <1>0
  <2>5. tokens' \subseteq {e \in Email : users'[e] # "absent"}
    <3>1. CASE Insert(r)
      <4>1. users'[form[r].email] # "absent"
        BY <1>0, <2>1, <2>2, <3>1 DEF Insert, CreateUser, Role
      <4> QED
        BY <1>0, <2>1, <2>4, <3>1, <4>1 DEF Insert
    <3>2. CASE InsertFails(r)
      BY <1>0, <2>4, <3>2 DEF InsertFails
    <3> QED
      BY <1>4, <3>1, <3>2
  <2> QED
    BY <1>0, <1>4, <2>3, <2>5, RegistrationAssumption
    DEF Insert, InsertFails, Fault, RegistrationAssumption
<1>5. CASE \E e \in Email : Login(e) \/ Expire(e)
  BY <1>0, <1>5 DEF Login, Expire
<1>6. CASE ApiRestart
  BY <1>0, <1>6, RegistrationAssumption DEF ApiRestart, Fault, RegistrationAssumption
<1>7. CASE UNCHANGED vars
  BY <1>0, <1>7 DEF vars
<1> QED
  BY <1>1, <1>2, <1>3, <1>4, <1>5, <1>6, <1>7 DEF RegistrationNext, RequestNext

\* Requests keep what their handlers have established: the callers they have
\* checked stay admins, because rows stay.
LEMMA RequestStep ==
  ASSUME RegistrationInv, [RegistrationNext]_vars, NEW q \in Request
  PROVE  RequestOK(q)'
<1> USE DEF Reply, Continue, Goto
<1>0. /\ users \in [Email -> Role \cup {"absent"}]
      /\ tokens \subseteq {e \in Email : users[e] # "absent"}
      /\ form \in [Request -> Form \cup {NoForm}]
      /\ pc \in [Request -> {"new", "count", "insert", "done"}]
      /\ answer \in [Request -> {"none", "201", "400", "403", "409", "500"}]
      /\ RequestOK(q)
  BY DEF RegistrationInv, RegistrationTypeOK
<1>1. \A e \in Email : users[e] # "absent" => users'[e] = users[e]
  BY RowsStay DEF RegistrationInv
<1>2. ASSUME form'[q] = form[q], pc'[q] = pc[q] \/ pc'[q] = "done", pc[q] # "new",
             answer'[q] = answer[q]
      PROVE  RequestOK(q)'
  <2>1. form[q] \in Form /\ form[q].email \in Email
    BY <1>0, <1>2 DEF RequestOK, Form
  <2>2. users[form[q].caller] = "ADMIN" /\ form[q].route = "admin" =>
          users'[form[q].caller] = "ADMIN"
    BY <1>0, <1>1, <1>2 DEF RequestOK
  <2>3. users[form[q].email] # "absent" => users'[form[q].email] = users[form[q].email]
    BY <1>1, <2>1
  <2>4. pc'[q] # "new"
    BY <1>2
  <2>5. pc'[q] # "done" => pc'[q] = pc[q] /\ answer'[q] = "none"
    BY <1>0, <1>2 DEF RequestOK
  <2>6. pc'[q] = "insert" =>
          /\ form[q].role \in Role \cup {""}
          /\ form[q].route = "register" => form[q].role # "BANKER"
          /\ form[q].route = "admin" => users'[form[q].caller] = "ADMIN"
    BY <1>0, <2>2, <2>5 DEF RequestOK
  <2>7. answer'[q] = "201" =>
          /\ users'[form[q].email] = Granted(form[q])
          /\ users'[form[q].email] # "absent"
          /\ form[q].route = "admin" => users'[form[q].caller] = "ADMIN"
    BY <1>0, <1>2, <2>2, <2>3 DEF RequestOK
  <2>8. /\ form[q].route = "admin" => form[q].caller \in Email
        /\ pc'[q] = "count" => form[q].route = "register" /\ form[q].role = "ADMIN"
    BY <1>0, <1>2 DEF RequestOK
  <2> QED
    BY <1>2, <2>1, <2>4, <2>5, <2>6, <2>7, <2>8 DEF RequestOK
<1>3. ASSUME NEW e \in Email, NEW role \in RoleField, Register(q, e, role)
      PROVE  RequestOK(q)'
  <2>1. form'[q] = [route |-> "register", caller |-> Nobody, email |-> e, role |-> role]
    BY <1>0, <1>3 DEF Register
  <2>2. form'[q] \in Form
    BY <2>1 DEF Form
  <2>3. answer'[q] # "201"
    BY <1>0, <1>3 DEF Register, RequestOK
  <2> QED
    BY <1>0, <1>3, <2>1, <2>2, <2>3 DEF Register, RequestOK, Role
<1>4. ASSUME NEW c \in Email, NEW e \in Email, NEW role \in RoleField,
             AdminCreate(q, c, e, role)
      PROVE  RequestOK(q)'
  <2>1. form'[q] = [route |-> "admin", caller |-> c, email |-> e, role |-> role]
    BY <1>0, <1>4 DEF AdminCreate
  <2>2. form'[q] \in Form
    BY <2>1 DEF Form
  <2>3. answer'[q] # "201" /\ users' = users
    BY <1>0, <1>4 DEF AdminCreate, RequestOK
  <2> QED
    BY <1>0, <1>4, <2>1, <2>2, <2>3 DEF AdminCreate, RequestOK, RoleField
<1>5. CASE CountAdmins(q)
  BY <1>0, <1>5 DEF CountAdmins, RequestOK, Role
<1>6. CASE CountFails(q) \/ InsertRefused(q)
  BY <1>0, <1>6 DEF CountFails, InsertRefused, RequestOK
<1>7. CASE InsertFails(q)
  <2>1. /\ pc'[q] = "done" /\ answer'[q] = "409" /\ form'[q] = form[q]
        /\ pc[q] = "insert"
    BY <1>0, <1>7 DEF InsertFails
  <2> QED
    BY <1>0, <2>1 DEF RequestOK
<1>8. CASE Insert(q)
  <2>1. /\ pc'[q] = "done" /\ answer'[q] = "201" /\ form' = form /\ pc[q] = "insert"
        /\ users' = [users EXCEPT ![form[q].email] = Granted(form[q])]
        /\ users[form[q].email] = "absent"
    BY <1>0, <1>8 DEF Insert, CreateUser
  <2>2. form[q] \in Form /\ form[q].email \in Email
    BY <1>0, <2>1 DEF RequestOK, Form
  <2>3. Granted(form[q]) \in Role
    BY <1>0, <2>1, <2>2, GrantedIsRole DEF RequestOK
  <2>4. users'[form[q].email] = Granted(form[q]) /\ users'[form[q].email] # "absent"
    BY <1>0, <2>1, <2>2, <2>3 DEF Role
  <2>5. form[q].route = "admin" =>
          form[q].caller \in Email /\ users'[form[q].caller] = "ADMIN"
    BY <1>0, <1>1, <2>1 DEF RequestOK
  <2> QED
    BY <2>1, <2>2, <2>4, <2>5 DEF RequestOK
<1>9. ASSUME NEW r \in Request, r # q, RequestNext(r)
      PROVE  /\ form'[q] = form[q] /\ pc'[q] = pc[q] /\ answer'[q] = answer[q]
  BY <1>0, <1>9
  DEF RequestNext, Register, CountAdmins, CountFails, AdminCreate, Insert,
      InsertRefused, InsertFails
<1>10. CASE pc[q] = "new" /\ form'[q] = form[q] /\ pc'[q] = pc[q] /\ answer'[q] = answer[q]
  BY <1>0, <1>10 DEF RequestOK
<1>11. CASE \/ \E e \in Email : Login(e) \/ Expire(e)
            \/ UNCHANGED vars
  BY <1>2, <1>10, <1>11 DEF Login, Expire, vars
<1>12. CASE ApiRestart
  BY <1>0, <1>2, <1>10, <1>12 DEF ApiRestart
<1> QED
  BY <1>2, <1>3, <1>4, <1>5, <1>6, <1>7, <1>8, <1>9, <1>10, <1>11, <1>12
  DEF RegistrationNext, RequestNext

\* A banker appears only by the insert of an admin's request, and the request
\* stays there to show for it.
LEMMA AppointedStep ==
  ASSUME RegistrationInv, [RegistrationNext]_vars, NEW e \in Email
  PROVE  Appointed(e)'
<1> USE DEF RegistrationInv
<1>0. users \in [Email -> Role \cup {"absent"}] /\ \A r \in Request : RequestOK(r)'
  BY RequestStep DEF RegistrationTypeOK
<1> SUFFICES ASSUME users'[e] = "BANKER"
             PROVE  \E r \in Request : /\ form'[r].route = "admin"
                                       /\ form'[r].email = e
                                       /\ form'[r].role = "BANKER"
                                       /\ users'[form'[r].caller] = "ADMIN"
  BY DEF Appointed
<1>a. ASSUME NEW c \in Email, users[c] = "ADMIN"
      PROVE  users'[c] = "ADMIN"
  BY <1>a, RowsStay
<1>1. CASE users[e] = "BANKER"
  <2>1. PICK r \in Request : /\ form[r].route = "admin" /\ form[r].email = e
                             /\ form[r].role = "BANKER"
                             /\ users[form[r].caller] = "ADMIN"
    BY <1>1 DEF Appointed
  <2>2. pc[r] # "new"
    <3>1. pc[r] = "new" => form[r] = NoForm
      BY DEF RequestOK
    <3>2. NoForm.route # "admin"
      BY DEF NoForm
    <3> QED
      BY <2>1, <3>1, <3>2
  <2>3. form'[r] = form[r]
    BY <2>2, FormsStay
  <2>4. form[r].caller \in Email
    BY <2>1 DEF RequestOK
  <2> QED
    BY <1>a, <2>1, <2>3, <2>4
<1>2. CASE users[e] # "BANKER"
  <2>1. PICK r \in Request : /\ pc[r] = "insert" /\ CreateUser(r) /\ form' = form
                             /\ e = form[r].email
    BY <1>0, <1>2
    DEF RegistrationNext, RequestNext, Register, CountAdmins, CountFails,
        AdminCreate, Insert, InsertRefused, InsertFails, CreateUser, Login,
        Expire, ApiRestart, vars
  <2>2. form[r] \in Form /\ RequestOK(r)
    BY <2>1 DEF RequestOK
  <2>3. Granted(form[r]) = "BANKER"
    BY <1>0, <2>1 DEF CreateUser
  <2>4. form[r].role = "BANKER"
    BY <2>3 DEF Granted
  <2>5. form[r].route = "admin" /\ users[form[r].caller] = "ADMIN"
    BY <2>1, <2>2, <2>4 DEF RequestOK, Form
  <2>6. form[r].caller \in Email
    BY <2>2, <2>5 DEF RequestOK
  <2> QED
    BY <1>a, <2>1, <2>4, <2>5, <2>6
<1> QED
  BY <1>1, <1>2

\* The second of two inserts for one email finds the first one's row.
LEMMA CreatedOnceStep ==
  ASSUME RegistrationInv, [RegistrationNext]_vars
  PROVE  CreatedOnce'
<1> USE DEF RegistrationInv
<1>0. /\ answer \in [Request -> {"none", "201", "400", "403", "409", "500"}]
      /\ \A r \in Request : RequestOK(r)' /\ RequestOK(r)
  BY RequestStep DEF RegistrationTypeOK
<1>1. \A r \in Request : answer'[r] = "201" => users'[form'[r].email] = Granted(form'[r])
  BY <1>0 DEF RequestOK
<1>2. \A r \in Request : answer[r] = "201" => form'[r] = form[r]
  BY <1>0, FormsStay DEF RequestOK
<1>3. \A r \in Request : answer'[r] = "201" /\ answer[r] # "201" =>
        Insert(r) /\ form'[r] = form[r]
  BY <1>0
  DEF RegistrationNext, RequestNext, Register, CountAdmins, CountFails,
      AdminCreate, Insert, InsertRefused, InsertFails, Login, Expire, ApiRestart,
      Reply, Continue, vars
<1>4. \A r \in Request : Insert(r) =>
        /\ users[form[r].email] = "absent"
        /\ \A q \in Request : q # r => answer'[q] = answer[q]
  BY <1>0 DEF Insert, CreateUser, Reply
<1>5. \A r \in Request : answer[r] = "201" => users[form[r].email] # "absent"
  BY <1>0 DEF RequestOK
<1>6. ASSUME NEW r1 \in Request, NEW r2 \in Request, r1 # r2,
             answer'[r1] = "201", answer'[r2] = "201"
      PROVE  form'[r1].email # form'[r2].email
  <2>1. CASE answer[r1] = "201" /\ answer[r2] = "201"
    BY <1>2, <1>6, <2>1 DEF CreatedOnce
  <2>2. CASE answer[r1] # "201"
    BY <1>2, <1>3, <1>4, <1>5, <1>6, <2>2
  <2>3. CASE answer[r2] # "201"
    BY <1>2, <1>3, <1>4, <1>5, <1>6, <2>3
  <2> QED
    BY <2>1, <2>2, <2>3
<1> QED
  BY <1>1, <1>6 DEF CreatedOnce

\* The invariant of the registrations.
LEMMA RegistrationInvAlways == RegistrationSpec => []RegistrationInv
<1>1. RegistrationInit => RegistrationInv
  <2> SUFFICES ASSUME RegistrationInit PROVE RegistrationInv
    OBVIOUS
  <2> USE DEF RegistrationInit
  <2>1. RegistrationTypeOK
    BY RegistrationAssumption DEF RegistrationTypeOK, RegistrationAssumption
  <2>2. \A r \in Request : RequestOK(r)
    BY DEF RequestOK, NoForm
  <2>3. \A e \in Email : Appointed(e)
    BY DEF Appointed
  <2>4. CreatedOnce
    BY DEF CreatedOnce
  <2> QED
    BY <2>1, <2>2, <2>3, <2>4 DEF RegistrationInv
<1>2. RegistrationInv /\ [RegistrationNext]_vars => RegistrationInv'
  BY RegistrationTypeStep, RequestStep, AppointedStep, CreatedOnceStep
  DEF RegistrationInv
<1> QED
  BY <1>1, <1>2, PTL DEF RegistrationSpec

\* Every variable keeps its type, and tokens are about users who exist.
THEOREM RegistrationTypeCorrect == RegistrationSpec => []RegistrationTypeOK
<1>1. RegistrationInv => RegistrationTypeOK
  BY DEF RegistrationInv
<1> QED
  BY <1>1, RegistrationInvAlways, PTL

\* Behind every banker, and every user created on the route for admins, stands
\* an admin, for any number of requests.
THEOREM BankersAlwaysAppointed == RegistrationSpec => []BankersAreAppointed
<1>1. RegistrationInv => BankersAreAppointed
  BY DEF RegistrationInv, BankersAreAppointed, Appointed, RequestOK
<1> QED
  BY <1>1, RegistrationInvAlways, PTL

\* No two requests are told that they created the same user.
THEOREM AlwaysCreatedOnce == RegistrationSpec => []CreatedOnce
<1>1. RegistrationInv => CreatedOnce
  BY DEF RegistrationInv
<1> QED
  BY <1>1, RegistrationInvAlways, PTL

\* A request whose count of the admins comes after one of them is never answered
\* with 201: the admin stays, so the count finds one or fails.
THEOREM LateAdminAlwaysRefused == RegistrationSpec => LateAdminIsRefused
<1> SUFFICES ASSUME NEW r \in Request
             PROVE  RegistrationSpec =>
                      [](AdminExists /\ pc[r] = "count" => [](answer[r] # "201"))
  BY DEF LateAdminIsRefused
<1> DEFINE TooLate == AdminExists /\ pc[r] \in {"count", "done"} /\ answer[r] # "201"
<1>1. RegistrationInv /\ AdminExists /\ pc[r] = "count" => TooLate
  BY DEF RegistrationInv, RequestOK
<1>2. RegistrationInv /\ TooLate /\ [RegistrationNext]_vars => TooLate'
  <2> SUFFICES ASSUME RegistrationInv, TooLate, [RegistrationNext]_vars
               PROVE  TooLate'
    OBVIOUS
  <2>1. AdminExists'
    BY RowsStay DEF AdminExists, RegistrationInv
  <2>2. pc'[r] \in {"count", "done"} /\ answer'[r] # "201"
    BY DEF RegistrationInv, RegistrationTypeOK, RegistrationNext, RequestNext,
           Register, CountAdmins, CountFails, AdminCreate, Insert, InsertRefused,
           InsertFails, Login, Expire, ApiRestart, Reply, Continue, Goto, vars
  <2> QED
    BY <2>1, <2>2
<1>3. TooLate => answer[r] # "201"
  OBVIOUS
<1> QED
  BY <1>1, <1>2, <1>3, RegistrationInvAlways, PTL DEF RegistrationSpec
=============================================================================
