------------------------------ MODULE Reporting ------------------------------
(***************************************************************************)
(* The reads of internal/store/store.go that people act on: the list of    *)
(* pending payments that bankers work through, and the answers that        *)
(* adminStats, clientProfile and adminClientHistory put together from      *)
(* several statements.  There is no transaction around these statements:   *)
(* each sees the tables as they are when it runs.                          *)
(*                                                                         *)
(* Abstracted: a list is the set of what it shows, sums of amounts are     *)
(* left out (counts stand for them), and histories are asked about users   *)
(* who decide nothing, so that the audit entries of a user are creations.  *)
(***************************************************************************)
EXTENDS PaymentStore, SequencesExt

CONSTANTS
  Admin,        \* users with role ADMIN: they may decide, as bankers may
  Reader,       \* requests for reports under way
  Ask,          \* values of the query parameter limit
  MaxAsk,       \* what queryLimit reduces larger values to
  MaxList,      \* largest limit the lists of one user accept
  ListLimit,    \* their limit when they are asked for none or for more
  QueueLimit    \* length of the list of pending payments

ASSUME ReportingAssumption ==
  /\ Admin \subseteq Banker
  /\ Ask \subseteq Nat
  /\ {MaxAsk, MaxList, ListLimit, QueueLimit} \subseteq Nat \ {0}
  /\ ListLimit <= MaxList /\ ListLimit <= MaxAsk

VARIABLES
  born,         \* committed payments in the order of created_at
  shown,        \* the pending payments on the screen of one who decides
  report        \* what each request has read so far

vars == <<storeVars, born, shown, report>>

Kind == {"stats", "profile", "history"}
Counted == {"total", "sent", "received"} \cup ResultStatus

NoReport ==
  [kind |-> "none", user |-> NoUser, limit |-> 0, todo |-> <<>>,
   counts |-> [k \in Counted |-> 0],
   decisions |-> [d \in Decision |-> 0],
   listed |-> {}, trail |-> {}]

ReportingInit ==
  /\ StoreInit
  /\ born = <<>>
  /\ shown = {}
  /\ report = [r \in Reader |-> NoReport]
-----------------------------------------------------------------------------
Saved == {p \in Payment : payments[p].status # "ABSENT"}
Sent(u) == {p \in Saved : payments[p].sender = u}
Received(u) == {p \in Saved : payments[p].recipient = u}
WithStatus(S, st) == {p \in S : payments[p].status = st}

Before(p, q) ==
  \E i, j \in 1 .. Len(born) : i < j /\ born[i] = p /\ born[j] = q

\* order by created_at asc limit n, and desc.
Oldest(S, n) == {p \in S : Cardinality({q \in S : Before(q, p)}) < n}
Newest(S, n) == {p \in S : Cardinality({q \in S : Before(p, q)}) < n}

\* A mutant: the statement without "where status = 'PENDING'".
AllPayments == Oldest(Saved, QueueLimit)

PendingPayments == Oldest(WithStatus(Saved, "PENDING"), QueueLimit)

queryLimit(asked) ==
  CASE asked = 0 -> ListLimit
    [] asked > MaxAsk -> MaxAsk
    [] OTHER -> asked

\* The lists of one user take a limit above their largest for a missing one.
UserLimit(limit) == IF limit \in 1 .. MaxList THEN limit ELSE ListLimit

PaymentStats ==
  [k \in Counted |->
     CASE k = "total" -> Cardinality(Saved)
       [] k \in ResultStatus -> Cardinality(WithStatus(Saved, k))
       [] OTHER -> 0]

\* Only users with role BANKER have a line in these statistics.
AllBankerStats ==
  [d \in Decision |->
     Cardinality({p \in WithStatus(Saved, d) :
                    payments[p].approved_by \in Banker \ Admin})]

\* ClientProfile counts approvals, rejections and what is pending, once each.
ClientStats(u) ==
  LET mine == Sent(u) \cup Received(u)
  IN [k \in Counted |->
        CASE k = "sent" -> Cardinality(Sent(u))
          [] k = "received" -> Cardinality(Received(u))
          [] k \in {"PENDING"} \cup Decision -> Cardinality(WithStatus(mine, k))
          [] OTHER -> 0]

PaymentsForUser(u) ==
  {[id |-> p, status |-> payments[p].status] :
     p \in Newest(Sent(u) \cup Received(u), UserLimit(ListLimit))}

\* The creations among the newest entries of a client.
AuditForUser(u, limit) == Newest({p \in Saved :
  \E i \in 1 .. Len(audit_log[p]) : audit_log[p][i] =
     [user |-> u, action |-> "CREATE_PAYMENT"]}, UserLimit(limit))
-----------------------------------------------------------------------------
\* created_at is the time at which the transaction began, so a payment may be
\* older than others that committed before it.
Create(p, sender, recipient, amount) ==
  /\ CreatePayment(p, sender, recipient, amount)
  /\ \E i \in 1 .. Len(born) + 1 : born' = InsertAt(born, i, p)
  /\ UNCHANGED <<shown, report>>

Process(p, status) ==
  /\ payments[p].status # "ABSENT"
  /\ ApplyProcessingResult(p, status)
  /\ UNCHANGED <<born, shown, report>>

\* bankerQueue.
Look ==
  /\ shown' = PendingPayments
  /\ UNCHANGED <<storeVars, born, report>>

\* The handlers take any id, shown or not.  If what is shown is out of date, the
\* statement matches no row, and the list stays as it is until the next look.
Decide(b, p, status) ==
  /\ DecidePayment(p, b, status)
  /\ UNCHANGED <<born, shown, report>>
-----------------------------------------------------------------------------
\* The statements of each report in the order of the code.  The user's own row,
\* which never changes, is left out.  The plans "...First" are mutants: each reads
\* first what the code reads last.
BankersFirst == <<"bankers", "payments">>
StatsPlan == <<"payments", "bankers">>

ListFirst == <<"list", "counts">>
ProfilePlan == <<"counts", "list">>

AuditFirst == <<"audit", "counts", "list">>
HistoryPlan == <<"counts", "list", "audit">>

\* What a report shows once a statement has been read into it.
Filled(rep, statement) ==
  CASE statement = "payments" -> [rep EXCEPT !.counts = PaymentStats]
    [] statement = "bankers" -> [rep EXCEPT !.decisions = AllBankerStats]
    [] statement = "counts" -> [rep EXCEPT !.counts = ClientStats(rep.user)]
    [] statement = "list" -> [rep EXCEPT !.listed = PaymentsForUser(rep.user)]
    [] statement = "audit" ->
         [rep EXCEPT !.trail = AuditForUser(rep.user, rep.limit)]

AskStats(r) ==
  /\ report[r].kind = "none"
  /\ report' = [report EXCEPT ![r] =
       [NoReport EXCEPT !.kind = "stats", !.todo = StatsPlan]]
  /\ UNCHANGED <<storeVars, born, shown>>

AskProfile(r, u) ==
  /\ report[r].kind = "none"
  /\ report' = [report EXCEPT ![r] =
       [NoReport EXCEPT !.kind = "profile", !.user = u, !.todo = ProfilePlan]]
  /\ UNCHANGED <<storeVars, born, shown>>

\* Only the history has a limit of its own, for its audit entries.
AskHistory(r, u, n) ==
  /\ report[r].kind = "none"
  /\ report' = [report EXCEPT ![r] =
       [NoReport EXCEPT !.kind = "history", !.user = u, !.todo = HistoryPlan,
                        !.limit = queryLimit(n)]]
  /\ UNCHANGED <<storeVars, born, shown>>

Read(r) ==
  /\ report[r].todo # <<>>
  /\ report' = [report EXCEPT ![r] =
       [Filled(report[r], Head(report[r].todo)) EXCEPT !.todo = Tail(report[r].todo)]]
  /\ UNCHANGED <<storeVars, born, shown>>

\* A statement fails or the client goes away: nothing is answered.  Or the
\* answer has been read.
Finish(r) ==
  /\ report[r].kind # "none"
  /\ report' = [report EXCEPT ![r] = NoReport]
  /\ UNCHANGED <<storeVars, born, shown>>
-----------------------------------------------------------------------------
ReportingNext ==
  \/ \E p \in Payment :
       \/ \E s \in User, u \in User, a \in Amount : Create(p, s, u, a)
       \/ \E st \in ResultStatus : Process(p, st)
       \/ \E b \in Banker, st \in Decision : Decide(b, p, st)
  \/ Look
  \/ \E r \in Reader :
       \/ AskStats(r)
       \/ \E u \in User \ Banker :
            AskProfile(r, u) \/ \E n \in Ask : AskHistory(r, u, n)
       \/ Read(r) \/ Finish(r)

ReportingSpec == ReportingInit /\ [][ReportingNext]_vars

\* Somebody works: the list is fetched again and again, and what stays on it is
\* decided.  Nothing is assumed of workers or of who else decides.
WorkedSpec ==
  /\ ReportingSpec
  /\ WF_vars(Look)
  /\ \A p \in Payment :
       WF_vars(p \in shown /\ \E b \in Banker, st \in Decision : Decide(b, p, st))
-----------------------------------------------------------------------------
Answered(r, kind) == report[r].kind = kind /\ report[r].todo = <<>>
ListedAs(r, st) == {row \in report[r].listed : row.status = st}

ReportingTypeOK ==
  /\ StoreTypeOK
  /\ Range(born) = Saved /\ Len(born) = Cardinality(Saved)
  /\ shown \subseteq Saved
  /\ \A r \in Reader :
       /\ report[r].kind \in Kind \cup {"none"}
       /\ report[r].user \in User \cup {NoUser}
       /\ report[r].limit \in 0 .. MaxAsk
       /\ report[r].counts \in [Counted -> 0 .. Cardinality(Payment)]
       /\ report[r].decisions \in [Decision -> 0 .. Cardinality(Payment)]
       /\ report[r].trail \subseteq Payment

\* The halves of the admin statistics are read from two states of the tables,
\* but every approval or rejection that the first half counts is accounted for:
\* a banker is credited with it in the second half, or it was made by an admin
\* or by processing, whom that half does not list.
StatsAccountForDecisions ==
  \A r \in Reader : Answered(r, "stats") =>
    \A d \in Decision :
      report[r].counts[d] <= report[r].decisions[d] +
        Cardinality({p \in WithStatus(Saved, d) :
                       payments[p].approved_by \notin Banker \ Admin})

\* The counts and the list of a client's profile come from two states as well:
\* a list that the limit does not cut shows every payment the counts count, and
\* nothing counted as decided is listed as undecided.
ProfileAgrees ==
  \A r \in Reader :
    /\ Answered(r, "profile") \/ Answered(r, "history")
    /\ Cardinality(report[r].listed) < ListLimit
    => LET listed == report[r].listed
           counts == report[r].counts
       IN /\ counts["sent"] <= Cardinality(listed)
          /\ counts["received"] <= Cardinality(listed)
          /\ counts["PENDING"] + counts["APPROVED"] + counts["REJECTED"]
               <= Cardinality(listed)
          /\ \A d \in Decision : counts[d] <= Cardinality(ListedAs(r, d))

\* In a client's history, every payment the profile lists as sent by the client
\* is among the audit entries of the same answer, unless the limit cuts them:
\* the entry is committed with the payment and read after it.
HistoryIsExplained ==
  \A r \in Reader :
    Answered(r, "history") /\
    Cardinality(report[r].trail) < UserLimit(report[r].limit) =>
      \A row \in report[r].listed :
        payments[row.id].sender = report[r].user => row.id \in report[r].trail

\* The limit of the list hides payments only for a while: if somebody works
\* through what the list shows, every pending payment is settled in the end,
\* however many payments are older and whatever the workers do.
PendingIsSettled ==
  \A p \in Payment :
    payments[p].status = "PENDING" ~> payments[p].status \in Final
=============================================================================
