# A model of the bank payment subsystem

TLA+ specifications of the Go program in `src/` (module
`bank-processing-data-subsystem`): an HTTP API over PostgreSQL, a RabbitMQ
queue, a worker that has payments decided by an external processing service,
and bankers who decide payments by hand. The modules are model-checked with TLC
on small instances, and every safety property that a passing run checks is
proved with TLAPS for any number of payments, users, workers, requests and
failures. Liveness is model-checked.

Contents: [the system](#1-the-system), [the modules](#2-the-modules),
[the runs](#3-the-runs), [what the runs found](#4-where-the-program-departs-from-its-documents),
[the proofs](#5-the-proofs), [what is not modelled](#6-not-modelled-and-the-plan),
[how to run it](#7-running-it).

## 1. The system

| component | code | state | operations |
|---|---|---|---|
| payment tables | `internal/store/store.go` | rows of `payments`, `audit_log` | `CreatePayment`, `DecidePayment`, `ApplyProcessingResult`, reads |
| job queue | `internal/queue/rabbit.go`, RabbitMQ | durable queue, channels with unsettled deliveries | publish, consume, Ack, Nack |
| API | `internal/httpapi/server.go`, `cmd/api` | requests under way, one publisher channel | handlers of payments, bankers, admins |
| worker | `cmd/worker/main.go` | the job in hand and where it is | load, score, apply, acknowledge |
| processing client | `internal/processing/client.go` | cached token | `Score`, `token`, conversions |
| users | `server.go`, `internal/auth`, `store.go` | rows of `users`, tokens | register, login, create by admin |
| connection pool | `pgxpool` in `store.Store` | connections | every store call |
| metrics | `internal/httpapi/metrics.go` | counters under a mutex | count a request, scrape |
| load test | `cmd/loadtest` | goroutines, results | create payments, wait for them |
| configuration, OpenAPI text, Redis key | `internal/config`, `openapi.go`, worker | none | none |

How they interact. `POST /api/payments` commits a row and its audit entry in
one transaction and then publishes the id; there is no outbox and no publisher
confirm. A worker takes the id, reads the row, calls processing over HTTPS with
the idempotency key `local-payment-<id>` and a timeout of five seconds, and
writes the answer with an `UPDATE ... where status = 'PENDING'`; when a call
fails it puts the job back at the head of the queue. Meanwhile a banker may
approve or reject the same payment. All of them share the tables, and the
handlers of the API share one connection pool.

What is hard here: the two writes of a creation (table and queue) can part;
every call can fail after its effect; a worker can die at any line and its job
come back; a worker without a channel goes on with what it has in hand; the
decision of a banker races with the answer of processing; transactions wait for
each other's locks; two statements of one handler see different tables; and
connections are a bounded resource. A token of the processing service that
expires stops a worker for good, a scrape of the metrics holds up every answer,
and the load test must account for everything it started when its time is up.
`PROJECT.json` lists these hazards with
their lines and the properties that cover them.

What makes each component correct:

* tables: a settled payment is settled for good, and the audit log and the
  bankers' statistics agree with the rows, whatever the order of calls;
* transactions: the statements and locks implement those atomic steps, every
  call is answered, and what was answered stays true;
* queue: a message is at exactly one place until it is settled, and an answer
  settles the delivery it is about;
* pipeline: jobs have payments, a job is forgotten only after its payment is
  processed, and what is written is what processing decided;
* users: bankers and admins are created by admins, one row per email;
* pool: no request holds a connection while it waits for one, every request ends;
* reports: what several statements read fits together, and lists with a limit
  hide nothing for ever;
* processing client: processing executes what was saved, and logs in no more
  often than it must;
* metrics: pages are snapshots, answers are counted before they leave, and a
  stalled scrape delays requests but does not stop them;
* load test: every job has one result, success means processed, and it ends.

## 2. The modules

```
PaymentStore      atomic promise of store.go          <- PaymentStoreProofs
  |    \
  |     StoreTransactions   statements and row locks; implements PaymentStore
  |\                                                   <- StatementProofs
  | Reporting               lists and reports of several statements
  |                                                    <- StatementProofs
PaymentPipeline   API + worker + bankers + processing <- PaymentPipelineProofs
  |  (EXTENDS PaymentStore, INSTANCE JobQueue)
JobQueue          broker, channels, consumer loop     <- JobQueueProofs

Registration      users and roles                     <- RegistrationProofs
ConnectionPool    the pool under all handlers         <- ConnectionPoolProofs
ProcessingClient  tokens and conversions              <- ProcessingClientProofs
Metrics           counters and scrapes                <- LoadTestProofs
  |
LoadTest          goroutines and polling; composes Metrics with an abstract API
                                                      <- LoadTestProofs
```

Each `MC*.tla` gives the constants that a `.cfg` cannot write down (functions,
symmetry); each `.cfg` is one run.

### PaymentStore

The abstract specification of the tables: `CreatePayment`,
`ApplyProcessingResult` and `DecidePayment` as single steps. `payments` maps the
ids that the `bigserial` can hand out to rows (`Absent` until committed);
`audit_log` holds the entries about each payment. Kept: sender, recipient,
amount, status, `approved_by`, whether `processed_at` is set. Left out: texts,
fraud scores and timestamps, on which nothing branches. Balances and
`is_blocked` are constants because no function of the program updates them, and
the commission is zero in every payment the API builds. A payment whose
processing answer is unknown goes back to `PENDING` with `processed_at` set,
as `mapProcessingStatus` has it.

### StoreTransactions

The same three functions statement by statement: `SELECT ... FOR UPDATE` on the
sender, the insert with its check, its foreign keys, the audit insert, the
commit; the update of `DecidePayment` under its row lock; the single `UPDATE` of
the worker. What a transaction has written is its `draft`; `rowLock`, `userLock`
and `keyShare` are the row locks. A session waits while somebody else holds what
its next statement needs (`WaitsFor`); PostgreSQL aborts a member of a minimal
cycle (`DeadlockVictim`). Sequence values are drawn and not returned on rollback
(`drawn`). Connections may break before and after the commit takes effect.
`PROPERTY StoreSpec` is the refinement: the mapping is the identity, since
`payments` and `audit_log` are the committed tables in both.

### JobQueue

`ready` is the queue of the broker, `unacked[c]` what each channel still owes an
answer for, `hand[c]` the delivery a process is handling, `channel[c]` whether
its channel is open, closed under a live process, or gone, `fate[m]` what became
of each message. `Subscribe`, `Take`, `Drop`, `Ack`, `Requeue` are the lines of
`ConsumePayments`; `Deliver` and `Return` are RabbitMQ as the code uses it: no
prefetch limit, requeue at the head, return of unsettled deliveries when a
channel dies. `ChannelLost` leaves the process alive with its delivery in hand,
which it later settles to no effect (`Stale`).

### PaymentPipeline

Extends PaymentStore, instantiates JobQueue with payment ids as messages, and
adds the requests (`request`, `publisher`), the workers (`pc`, `result`) and the
processing service (`outcome`, `limited`). The worker's labels are the calls of
its handler: `load` (GetPayment), `score` and `answer` (Score, before and after
processing has executed the request), `apply` (ApplyProcessingResult), then
`ack` or `backoff`. `Fail` is any of these calls failing without effect,
`ApplyUnheard`, `CommitUnheard` and a failure at `answer` are failures after the
effect, `Crash` ends the process anywhere. Processing is external: a service
that decides each idempotency key once, or answers 429 to any request.

### Registration

`register` with its count and its insert as separate steps, `adminCreateUser`
behind `authenticated` and `requireRole` (which read the role from the table),
`login`, expiry of tokens, failures of statements before and after their effect,
restarts of the API.

### ConnectionPool

Each request is the list of store calls of its handler. A call takes a
connection, waits if there is none and gives it back; the first query that
`ListPayments` runs for a banker or an admin is the one that does not. A failed
statement and a client that goes away end a handler anywhere.

### Reporting

Extends PaymentStore with what people read. `born` is the order of `created_at`,
which need not be the order of commits; `shown` is the list of pending payments
on somebody's screen, the oldest `QueueLimit` of them when it was fetched;
`report[r]` is a request of `adminStats`, `clientProfile` or
`adminClientHistory` with the statements it has yet to run and what it has read.
`StatsPlan`, `ProfilePlan` and `HistoryPlan` are the statements in order. `queryLimit` and `UserLimit` are the two
places where a limit is adjusted: the first cuts values above 500 to 500, the
second replaces values above 200 by 100. Counts stand for sums, and histories are
asked about users who decide nothing.

### ProcessingClient

Each worker has one client and one call of `Score` at a time: `Take` (which asks
for the token), `Login`, `Execute` (the request reaches processing), `Answered`,
with `LoginFails`, `PostFails`, `RateLimited` and `Unauthorised` for the other
ends. `token[w]` is `authToken` or `cachedToken`; `Expire` is processing refusing
a token at its own time. `NewClient` is what a process starts with: the token of
its environment, the same one for every configured worker and after every
restart, or an empty cache. `payment_type` is free text: `ToUpper` is a constant
that says how each text of the instance looks in upper case. The conversions are
operators: `idToUUID` gives the groups of the text, `centsToDecimal` its digits
as a sequence, so that padding matters; `IdOf` and `CentsOf` say what a reader of
the text understands. `Word` scales the sixteen bits of a group down. What a
score does to the tables is PaymentPipeline's.

### Metrics and LoadTest

`observe` is lock, increment and unlock in one step; a scrape locks, writes a
line per label and unlocks, and `Cut` is the write deadline that
`cmd/api/main.go` sets (`WriteTimeout`). LoadTest puts the middleware between a
handler (`HandlePost`, `HandleGet`) and the answer (`Hear`): `Count` waits for the
mutex. Its jobs go `queued`, `calling`, `ticking`, `recorded`; at most
`Concurrency` (then `WaitConcurrency`) are under way, which is all that the
number of goroutines means. `late` is the context's timeout; a call that fails
leaves its request in the API, where it is still handled and counted. A payment
that has left `PENDING` or has `processed_at` set is `PROCESSED`. Counters of GET
requests, which grow with every poll, are left out; that they wait for the mutex
is not.

## 3. The runs

| run | instance | checks | size |
|---|---|---|---|
| `reporting` | 2 payments, 3 users (one a banker, one a blocked admin), 1 report at a time, room for 1 pending payment | types, `StatsAccountForDecisions`, `ProfileAgrees`, `HistoryIsExplained`, `AuditExplainsStatus`, `StatsMatchAudit`, `PendingIsSettled` | 825 thousand states |
| `transactions` | 3 sessions, 2 payments, 2 users who may pay each other, amounts 1 and 2, failures | types, `AnswersStand`, refinement of `StoreSpec`, `CallsEnd` | 586 thousand |
| `queue` | 2 workers, 3 jobs, 1 malformed message | types, `OnePlace`, `AnswersItsHand`, `OneLiveHandler`, no deadlock | 1250 (symmetry) |
| `pipeline` | 2 payments, 2 workers, 1 banker, 2 failures | types, `JobHasPayment`, `AckedIsProcessed`, `CreatedIsQueuedOrProcessed`, `VerdictIsOutcome`, `FinalIsFinal` | 1.1 million |
| `pipeline_live` | 2 payments, 2 workers, 1 failure, messages may vanish | `QueuedIsAcked` | 253 thousand |
| `registration` | 3 requests, 2 emails, 1 failure | types, `BankersAreAppointed`, `CreatedOnce`, `LateAdminIsRefused` | 215 thousand |
| `client` | 2 workers (one with a configured token), 3 payments with types in several spellings, 4 failures | types, `ExecutedAsSaved`, `LoginsAreBounded`, `JobsAreScored` | 76 thousand |
| `loadtest` | 2 payments, 1 pair of users, 2 scrapes, 1 failure, timeout at any time | types, `ScrapesAgree`, `AnsweredIsCounted`, `ResultsComplete`, `CleanRunIsProcessed`, `LoadEnds`, `HandledIsCounted` | 591 thousand |
| `pool` | 5 requests, 3 connections, 1 failure | types, `HoldsOneWhileRunning`, `RequestsEnd` | 75 thousand |

Why these bounds are enough to meet the interesting cases. Two workers and one
failure suffice for a job that two processes handle at once (one loses its
channel, the other is given the job); a second failure puts a crash, a lost
answer or a lost commit on top. Two payments make jobs overtake each other and
return to the head of a queue that is not empty. Three sessions are two
creations between two users, which deadlock, and one more call in their way, or
a creation and two calls that race for its payment; workers there store
`COMPLETED` only, since the statement does not look at what it stores. Amounts
are 1 and 2 against a balance of 1: the handler refuses 0 before the store is
called (`server.go:183`). A list with room for one payment hides the second of
two. Two registrations, two created payments and two scrapes are what it takes
for two pages to disagree if the mutex did not cover the whole page. The payments
of `client` have cents below and above ten, ids that need every group of a
UUID, and payment types in either case. Three requests of `registration` are an admin, the banker that admin appoints, and one who tries too
late. Five requests on three connections leave one connection once both
listings by bankers have been served, and more requests than that wait for it.

`MaxFaults` bounds failures only; every other action is unbounded, the state
spaces are finite because payments, messages and requests are. `IdLeft` bounds
the creations of `StoreTransactions` by the ids the instance has.

`CHECK_DEADLOCK FALSE` is set where the system may come to rest: all payments
settled, all requests answered, or nobody calling. Only the queue, which always
has a worker that may come or go, is checked for deadlock.

### Fairness

* `OperatedSpec`: weak fairness of each worker's next step when nothing fails,
  of each delivery, of publishing, of starting processes that have ended, and of
  an operator restarting workers that live on without a channel. The first three
  are threads that run and a broker that pushes. The last two are the
  deployment's: `docker-compose.yml` has no restart policy, and
  `DEPLOYMENT_CHECKLIST.md:123-124` gives the operator the command. Without the
  operator the job is lost, which `sent_is_submitted` shows; failures themselves
  are bounded and have no fairness.
* `UnattendedSpec` leaves the operator out.
* `WorkedSpec`: somebody fetches the list of pending payments again and again
  and decides what stays on it. This is what the bankers' page is for; nothing is
  assumed of workers or of other bankers. `PendingIsSettled` is therefore about
  the limit of the list, not about the diligence of people.
* `OperatedClient`: workers run, and an operator replaces a worker whose token
  processing refuses, with the command of `DEPLOYMENT_CHECKLIST.md:124`. Without
  the operator the jobs circle for ever, because no answer empties the cache of a
  client. The command does not change the environment, so it helps only workers
  that log in: `JobsAreScored` excepts the case that processing has refused the
  token of `PROCESSING_AUTH_TOKEN` (`ConfiguredRefused`). Its workers then take
  jobs and give them back until somebody changes `.env`; no document tells how.
* `FairLoadSpec`: the goroutines and the API's threads run, the context times
  out, and the server's write deadline ends a scrape. Nobody has to read a page
  or process a payment.
* `FairTxSpec`: each session whose next statement is not blocked executes it,
  and PostgreSQL resolves deadlocks.
* `FairPoolSpec`: running statements end, and a waiting request gets a
  connection when one stays free. The pool's queue is first in, first out; weak
  fairness is enough because the instance has finitely many requests.

## 4. Where the program departs from its documents

Three runs state what a document says, and TLC finds a behaviour of the code
that violates it:

| run | property | the code |
|---|---|---|
| `sent_is_submitted` | `SentIsSubmitted` | a worker never reopens a closed channel (`rabbit.go:89`, `worker/main.go:73`) |
| `first_admin_only` | `FirstAdminOnly` | two registrations count the admins before either inserts (`server.go:102`) |
| `list_is_answered` | `ListIsAnswered` | listings by bankers leak connections (`store.go:321`) |

Three passing properties say how far these go. By `QueuedIsAcked` a queued job
is handled in the end if an operator restarts workers that have lost their
channel. By `LateAdminIsRefused` the window of registrations closes with the
first admin: one that counts later is refused. By `RequestsEnd` requests are
served as long as fewer listings by bankers have been made than the pool has
connections.

Two users who pay each other at the same time deadlock, since `CreatePayment`
locks the sender before its insert locks the recipient (`store.go:265`).
`CallsEnd` and the refinement show that both calls are answered and nothing is
left half done; but the victim's answer is 400, which `openapi.go:200` documents
as an incorrect request.

More choices of the code are in the model because it follows the code, and
are no run of their own. A payment answered with 202 after a failed publish has no
job and never gets one (`server.go:202`), and `openapi.go:191-202` knows no such
answer; `CreatedIsQueuedOrProcessed` is about answers of 201. A
worker submits a payment without looking at its status (`worker/main.go:52`), so
processing may execute what a banker has rejected; by `FinalIsFinal` the row
keeps the banker's decision. `PAYMENT_REVIEW_THRESHOLD` is loaded and read by
nothing (`config.go:42`), so the model has no threshold: every payment goes to
the workers. The project's plan sends payments over 100k through a banker
(`sources/plan cur.txt:32`), and `DEPLOYMENT.md:98` sets the variable to 100000;
no property here asserts that rule or its contrary. The load test counts an answer of 202 as a success and does not
wait for that payment (`loadtest/main.go:161`), and takes a payment that is
`PENDING` with `processed_at` set for processed (`loadtest/main.go:237`);
`CleanRunIsProcessed` says what its exit code means with both.

## 5. The proofs

TLAPS checks every leaf; nothing is assumed but the named assumptions on the
constants, which TLC evaluates in the runs of the modules that declare them:

| assumption | what it asks | why the code justifies it |
|---|---|---|
| `StoreAssumption` | finitely many ids, bankers and blocked users are users, balances and amounts are not negative | table `users`, checks of the schema |
| `SessionAssumption` | finitely many sessions | the pool is finite |
| `ReportingAssumption` | admins act as bankers too; limits are positive, and the limit of a list is within the caps | the constants of `queryLimit` and `UserLimit` (100, 200, 500) |
| `QueueAssumption`, `PipelineAssumption`, `MetricsAssumption`, `RegistrationAssumption` | the values for "nothing" are none of the things, failures are counted | no code: the names of absent values |
| `PoolAssumption` | every request has a route, the pool has a connection | `server.go` routes, `pgxpool` |
| `ClientAssumption` | finitely many workers, ids fit in four words, amounts are not negative, `ToUpper` is defined on the payment types of the rows | `idToUUID` has 32 + 16 + 16 bits, `strings.ToUpper` takes any text, `bigserial` and `check (amount_cents > 0)` in the schema |
| `LoadAssumption` | at least one user and one goroutine, finitely many jobs, labels are those of the load test's requests | the loops of `cmd/loadtest` |

**PaymentStoreProofs.** `StoreTypeCorrect`, `AuditAlwaysExplains`,
`StatsAlwaysMatch`, `SettledIsSettled`. The audit property is inductive once the
types are known, in the form `Explained(p)`, which adds that a payment that is
not settled by a banker has no `approved_by`: without it, a decision could meet
a pending row that names a banker. `StatsMatchAudit` follows from it: the set of
payments a banker decided and the set whose trail names the banker are the same
set (`AuditedIsDecided`), and the two kinds of decision are disjoint.
`RowsAlwaysOK` adds what the pipeline needs: a settled row has `processed_at`,
and processed rows stay processed.

**JobQueueProofs.** The inductive invariant is `QueueInv`: the types,
`OnePlace`, `AnswersItsHand` and `DeadIsEmpty` (a channel that is not open owes
nothing). None is inductive alone: that a settlement removes the right message
needs `AnswersItsHand`, that it removes the only copy needs `OnePlace`, and that
a reopened channel starts empty needs `DeadIsEmpty`. The lemmas
`AppendedOnce`, `HeadLeaves` and `JoinedOnce` say what appending, taking the
head and concatenating do to sequences without repetitions. `OneLiveHandler`
follows: two live channels that handle the same job would both owe it.

**PaymentPipelineProofs.** Each step of the pipeline is a step of JobQueue or
leaves it alone (`PipelineStepsQueue`), so the pipeline implements `QueueSpec`
and has its invariant. `WorkersOK` says that a worker in its handler has a job
in hand, that `answer` follows a decision of processing, and that the result it
is about to write stands for what processing decided; it is stable because
processing decides once (`DecidedOnce`). With it each step is also a step of
PaymentStore or leaves it alone, so the pipeline implements `StoreSpec` and
inherits `FinalIsFinal` and the types. `LinkOK` ties the parts together: a
request that has left "none" has a row, a job that was sent has such a request,
a job in a hand was sent, a worker about to acknowledge has a processed row, an
acknowledged job has one, and rows written by workers stand for the outcome. Its
step rests on four lemmas about who changes what (`FateChanges`, `HandChanges`,
`RequestChanges`, `RowChanges`). `JobHasPayment`, `AckedIsProcessed`,
`CreatedIsQueuedOrProcessed` (if messages do not vanish) and `VerdictIsOutcome`
follow from it.

**StatementProofs** is about what happens between the statements of `store.go`,
and has two halves, one for each module that splits a function of the store.

*Transactions.* `TransactionsImplementStore` is the refinement: every step of
StoreTransactions is a step of PaymentStore or changes no committed row, so
row locks, aborts, deadlocks and broken connections are invisible from outside
and whatever is proved of `StoreSpec` holds (`TransactionsExplain`). A commit is
the step that matters, and it installs a draft made many steps before; so the
invariant `TxInv` says what a transaction may still rely on then. `CreationOK`:
the id of a creation was drawn, by it alone (`IdsApart`), and no row has it yet.
`DecisionOK`: a decision past its update holds the lock of its row (`LocksHeld`),
the row is still pending, and the draft is that row as decided. Neither is
inductive without the other, because both a foreign commit and a foreign lock
could break them; `TogetherOK` is the case where two sessions meet, and the
worker's single `UPDATE` waits for the lock. `AnswersAlwaysStand` uses it: what
a banker was told was installed by that banker's commit (`AnsweredByCommit`), and
settled rows stay (`KeptStep` of PaymentStoreProofs).

*Reports.* A report reads in several statements, each from a newer state, so the
invariant `ReportingInv` says what a half-read report may rely on: what was
counted is still in the tables (`CountedStays`, `CountsGrow`), since rows are never
removed and a decision is never taken back. `StatsOK`, `CountsOK`, `ListOK` and
`TrailOK` say this for each place of each plan. The limits need more: a list
shorter than its limit shows everything (`Uncut`: all that is newer than the newest
hidden payment is shown), where `born` lists each saved payment exactly once
(`BornOnce`, `BornOrder`, `InsertedAt`). `StatsAlwaysAccount`,
`ProfileAlwaysAgrees` and `HistoryAlwaysExplained` follow. TLC checked
`ReportingInv` on the instance of run `reporting` before it was proved.

**RegistrationProofs.** A row of `users` never changes once it is there
(`RowsStay`) and a form does not change under its handler (`FormsStay`), so what a
request has checked about its caller still holds at its insert (`RequestOK`).
`BankersAlwaysAppointed` needs `Appointed(e)` for each user: behind a banker
stands a request by an admin; `AlwaysCreatedOnce` needs that an answer 201 was
given for a row that was absent. `LateAdminAlwaysRefused` is about the rest of a
behaviour: the predicate "there is an admin, and this request counts or is done
without 201" is stable.

**ConnectionPoolProofs.** `PoolInv` looks ahead into the calls a request still has
to make: at most one of them keeps its connection, only the listings of bankers
have one, and a request that has lost one has none left. That and the equation
`idle + Cardinality(Lent) = MaxConns` (no connection is doubled) give
`ConnectionsAreAccountedFor`. The calls of a handler are sequences; that a route
is a plan of this kind is `PlansAreSound`.

**ProcessingClientProofs.** First the conversions: quotient and remainder
determine a number (`Division`), therefore `idToUUID` and `centsToDecimal` lose
nothing (`UUIDHasTheId`, `DecimalHasTheCents`), for every width of a word. Then
`ClientInv`: no two workers have the same job, a worker that logs in has no
token, and a configured worker always has the token of its environment
(`TokensKept`). So each login adds a token to those in use (`InUse`), and only a
failure, a crash or an expiry takes one away (`TokensInUse`);
`LoginsAreBounded` is inductive with that. Configured workers share one token,
which is in use until processing refuses it.

**LoadTestProofs.** `MetricsInv`: the lines that a scrape has written are those
of this moment, because it holds the mutex that counting needs; thus of two full
pages the one finished first is the smaller in every line. `LoadImplementsMetrics`
shows that the load test's traffic touches the registry only by the steps of
Metrics, so `ScrapesAgreeUnderLoad`. `LoadInv` says where a job can be in each phase
of `main` (`PhaseOK`), what its request has been answered and what the tables then
have (`RequestOK`), that goroutines are no more than the limit (`LimitOK`), and
which payments and answers the counters have counted (`CountsOK`: the sum of the
lines for 201 and 202 is the number of payments past the middleware).
`NoJobIsLost`, `AnswersAreCounted` and `CleanRunsAreProcessed` follow.

Only model-checked: `QueuedIsAcked`, `CallsEnd`, `RequestsEnd`,
`PendingIsSettled`, `JobsAreScored`, `LoadEnds` and `HandledIsCounted`. They are
liveness properties, whose proofs need the enabledness of actions, which TLAPS
cannot reason about. The three properties of section 4 are false, as their runs
show. What the theorems say of every value of the constants the runs show on
small instances of the same definitions.

## 6. Not modelled, and the plan

Not modelled because they are static text or plain input and output: the OpenAPI
document, the Swagger page, the environment variables, HTTP headers, the
encoding of tokens and passwords, the unused tables of the schema, the Redis key
that the worker deletes and nobody reads, the scripts and the monitoring.

Left out of modelled parts: the sums of amounts in reports, the histories of
bankers beyond `StatsMatchAudit`, the flags and the printed percentiles of the
load test, the growth of the map of counters with every path that is asked for
(`metrics.go:51`), and `PAYMENT_REVIEW_THRESHOLD`, which nothing reads.

The plan, in this order. All of it is done but the last line.

1. `PaymentStore`, `StoreTransactions`: tables, locks, refinement.
2. `JobQueue`: broker and consumer loop.
3. `PaymentPipeline`: composition, failures, liveness.
4. `Registration`, `ConnectionPool`.
5. Proofs of PaymentStore, JobQueue, PaymentPipeline.
6. `Reporting`: reads of several statements while payments change, and the limits
   of the lists.
7. `ProcessingClient`: tokens and conversions.
8. `Metrics`, `LoadTest`: counters and scrapes under the mutex; goroutines,
   channel and polling.
9. Proofs of the rest: the refinement of `StoreSpec` by StoreTransactions, and the
   safety properties of Reporting, Registration, ConnectionPool, ProcessingClient,
   Metrics and LoadTest.
10. Safety steps towards the liveness properties: while fewer listings by bankers
    have been made than the pool has connections, a request waits only while
    another one runs; and if every session waits, the waiting has a cycle, so that
    `DeadlockVictim` has somebody to abort.

## 7. Running it

In this directory, `tlc -config MCPaymentPipeline.cfg MCPaymentPipeline.tla`
checks a run (`PROJECT.json` lists the module of each `.cfg`), and
`tlapm PaymentPipelineProofs.tla` checks the proofs of a module. `PROJECT.json`
also maps every definition to the lines it models and names, for each property,
a plausible mistake in the code that would violate it; the definitions marked
"A mutant" in the modules are these mistakes.
