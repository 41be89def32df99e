---------------------------- MODULE PaymentStore ----------------------------
(***************************************************************************)
(* What internal/store/store.go promises about the tables payments and     *)
(* audit_log: each exported function that writes them, as one atomic step. *)
(* StoreTransactions shows that the statements the functions really send   *)
(* implement these steps; PaymentPipeline builds the whole system on them. *)
(*                                                                         *)
(* Abstracted: amounts are small numbers, a payment is named by its id,    *)
(* timestamps are "set or not", and the texts (description, reason, fraud  *)
(* score, audit details) are left out because nothing branches on them.    *)
(* No function of the program updates a row of users after inserting it,   *)
(* so balances and the is_blocked flag are constants here.                 *)
(***************************************************************************)
EXTENDS Naturals, Sequences, FiniteSets

CONSTANTS
  Payment,      \* ids the bigserial of payments can hand out
  User,         \* ids of the rows of users
  NoUser,       \* null, and any id that is not in users
  Banker,       \* users with role BANKER or ADMIN
  Blocked,      \* users whose is_blocked is true
  Balance,      \* balance_cents of each user
  Amount        \* amounts that requests ask for

ASSUME StoreAssumption ==
  /\ IsFiniteSet(Payment)
  /\ NoUser \notin User
  /\ Banker \subseteq User
  /\ Blocked \subseteq User
  /\ Balance \in [User -> Nat]
  /\ Amount \subseteq Nat

VARIABLES
  payments,     \* table payments: one row per id, Absent until committed
  audit_log     \* table audit_log: the entries about each payment, by id

storeVars == <<payments, audit_log>>

\* What a processing answer or a banker can make of a payment, and the states
\* that no statement may leave again.
ResultStatus == {"PENDING", "APPROVED", "REJECTED", "COMPLETED"}
Decision == {"APPROVED", "REJECTED"}
Final == {"APPROVED", "REJECTED", "COMPLETED"}

Row == [sender : User \cup {NoUser}, recipient : User \cup {NoUser},
        amount : Nat, status : ResultStatus \cup {"ABSENT"},
        approved_by : User \cup {NoUser}, processed : BOOLEAN]

Absent == [sender |-> NoUser, recipient |-> NoUser, amount |-> 0,
           status |-> "ABSENT", approved_by |-> NoUser, processed |-> FALSE]

Action == {"CREATE_PAYMENT", "BANKER_APPROVED", "BANKER_REJECTED"}
Entry == [user : User, action : Action]
\* A mutant: the audit log gets the bare status.
BareAction(status) == status

BankerAction(status) ==
  IF status = "APPROVED" THEN "BANKER_APPROVED" ELSE "BANKER_REJECTED"

StoreInit ==
  /\ payments = [p \in Payment |-> Absent]
  /\ audit_log = [p \in Payment |-> <<>>]
-----------------------------------------------------------------------------
\* The checks of CreatePayment and of the schema; the commission that the code
\* adds to the amount is zero in every payment the API builds.
Acceptable(sender, recipient, amount) ==
  /\ sender \in User \ Blocked
  /\ recipient \in User
  /\ amount > 0
  /\ Balance[sender] >= amount

NewRow(sender, recipient, amount) ==
  [sender |-> sender, recipient |-> recipient, amount |-> amount,
   status |-> "PENDING", approved_by |-> NoUser, processed |-> FALSE]

CreatePayment(p, sender, recipient, amount) ==
  /\ payments[p] = Absent
  /\ Acceptable(sender, recipient, amount)
  /\ payments' = [payments EXCEPT ![p] = NewRow(sender, recipient, amount)]
  /\ audit_log' = [audit_log EXCEPT
       ![p] = Append(@, [user |-> sender, action |-> "CREATE_PAYMENT"])]

Processed(row, status) == [row EXCEPT !.status = status, !.processed = TRUE]

\* A mutant: the statement without "and status = PENDING".
ApplyUnguarded(p, status) ==
  /\ payments' = [payments EXCEPT ![p] = Processed(@, status)]
  /\ UNCHANGED audit_log

\* One UPDATE; that it matched no row is not reported to the caller.
ApplyProcessingResult(p, status) ==
  /\ \/ /\ payments[p].status = "PENDING"
        /\ payments' = [payments EXCEPT ![p] = Processed(@, status)]
     \/ /\ payments[p].status # "PENDING"
        /\ UNCHANGED payments
  /\ UNCHANGED audit_log

Decided(row, banker, status) ==
  [row EXCEPT !.status = status, !.approved_by = banker, !.processed = TRUE]

DecidePayment(p, banker, status) ==
  /\ payments[p].status = "PENDING"
  /\ payments' = [payments EXCEPT ![p] = Decided(@, banker, status)]
  /\ audit_log' = [audit_log EXCEPT
       ![p] = Append(@, [user |-> banker, action |-> BankerAction(status)])]

StoreNext ==
  \E p \in Payment :
    \/ \E s \in User, r \in User, a \in Amount : CreatePayment(p, s, r, a)
    \/ \E st \in ResultStatus : ApplyProcessingResult(p, st)
    \/ \E b \in Banker, st \in Decision : DecidePayment(p, b, st)

StoreSpec == StoreInit /\ [][StoreNext]_storeVars
-----------------------------------------------------------------------------
\* The counters of BankerStats: decisions credited to a banker, by status.
DecidedBy(banker) == {p \in Payment : payments[p].approved_by = banker}
CountDecided(banker, status) ==
  Cardinality({p \in DecidedBy(banker) : payments[p].status = status})

\* The entries AuditForUser shows for a banker and one kind of decision.
Audited(banker, status) ==
  {p \in Payment : \E i \in 1 .. Len(audit_log[p]) :
     audit_log[p][i] = [user |-> banker, action |-> BankerAction(status)]}
-----------------------------------------------------------------------------
\* Every column stays in its domain: rows are rows of the schema and audit
\* entries name users that exist.
StoreTypeOK ==
  /\ payments \in [Payment -> Row]
  /\ audit_log \in [Payment -> Seq(Entry)]

\* The audit log tells the whole life of each payment: nothing before the
\* insert, then the creation by its sender, then, exactly when a banker's
\* decision stands in the row, that one decision by that banker.  No update of
\* the worker, in whatever order it comes, may break the correspondence.
AuditExplainsStatus ==
  \A p \in Payment :
    LET row == payments[p]
        created == [user |-> row.sender, action |-> "CREATE_PAYMENT"]
        decided == [user |-> row.approved_by,
                    action |-> BankerAction(row.status)]
    IN CASE row.status = "ABSENT" -> audit_log[p] = <<>>
         [] row.status # "ABSENT" /\ row.approved_by = NoUser ->
              audit_log[p] = <<created>>
         [] OTHER -> /\ row.status \in Decision
                     /\ audit_log[p] = <<created, decided>>

\* The statistics of a banker add up and agree with the audit log: every
\* decision counted for the banker is an approval or a rejection, and it is
\* counted exactly when the audit log holds it (GET /api/banker/stats against
\* GET /api/admin/audit).
StatsMatchAudit ==
  \A b \in Banker :
    /\ \A st \in Decision : CountDecided(b, st) = Cardinality(Audited(b, st))
    /\ Cardinality(DecidedBy(b)) =
         CountDecided(b, "APPROVED") + CountDecided(b, "REJECTED")

\* A settled payment is settled for good: once its status has left PENDING, no
\* later answer of processing and no later decision changes any of its columns,
\* and a created payment never disappears or changes parties.
FinalIsFinal ==
  [][\A p \in Payment :
       /\ payments[p].status \in Final => payments'[p] = payments[p]
       /\ payments[p].status # "ABSENT" =>
            /\ payments'[p].status # "ABSENT"
            /\ \A col \in {"sender", "recipient", "amount"} :
                 payments'[p][col] = payments[p][col]]_storeVars
=============================================================================
