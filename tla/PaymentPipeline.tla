--------------------------- MODULE PaymentPipeline ---------------------------
(***************************************************************************)
(* The life of a payment through the whole system: the handler             *)
(* createPayment of the API, the tables (PaymentStore), the queue          *)
(* (JobQueue), the workers of cmd/worker with their calls of the external  *)
(* processing, and the bankers who decide payments meanwhile.              *)
(*                                                                         *)
(* Every call that leaves a process may fail, at most MaxFaults times in   *)
(* all.  A job is the id of its payment.  The external processing is not   *)
(* in this repository: it is modelled as the client uses it, a service     *)
(* that decides each idempotency key once.                                 *)
(***************************************************************************)
EXTENDS PaymentStore

CONSTANTS
  Worker,         \* worker processes
  NoPayment,      \* the hand of an idle worker
  Verdict,        \* statuses processing may answer
  MaxFaults,      \* bound on failures of calls, channels and processes
  PublishMayVanish \* whether a message may be lost on its way to the broker

ASSUME PipelineAssumption ==
  /\ NoPayment \notin Payment
  /\ Verdict \subseteq {"COMPLETED", "APPROVED", "REJECTED", "FAILED", "OTHER"}
  /\ MaxFaults \in Nat
  /\ PublishMayVanish \in BOOLEAN

VARIABLES
  ready, unacked, channel, hand, fate,  \* JobQueue
  request,      \* POST /api/payments for each payment: where it is, its answer
  publisher,    \* the channel on which the API publishes
  pc,           \* where each worker is in its handler
  result,       \* the status Score returned to each worker
  outcome,      \* what processing has decided under each payment's key
  limited,      \* payments processing has answered with status 429
  faults        \* failures so far

Queue == INSTANCE JobQueue
           WITH Message <- Payment, Malformed <- {}, Consumer <- Worker,
                Nothing <- NoPayment

queueVars == <<ready, unacked, channel, hand, fate>>
apiVars == <<request, publisher>>
workerVars == <<pc, result>>
processingVars == <<outcome, limited>>
vars == <<storeVars, queueVars, apiVars, workerVars, processingVars, faults>>

PipelineInit ==
  /\ StoreInit
  /\ Queue!QueueInit
  /\ request = [p \in Payment |-> "none"]
  /\ publisher = "open"
  /\ pc = [w \in Worker |-> "down"]
  /\ result = [w \in Worker |-> "none"]
  /\ outcome = [p \in Payment |-> "none"]
  /\ limited = {}
  /\ faults = 0

\* One more failure, while the bound allows it.
Fault == faults < MaxFaults /\ faults' = faults + 1
-----------------------------------------------------------------------------
\* The API.  A request that CreatePayment refuses leaves no trace and is not
\* modelled; p is the id the insert gets.

Commit(p, sender, recipient, amount) ==
  /\ request[p] = "none"
  /\ CreatePayment(p, sender, recipient, amount)
  /\ request' = [request EXCEPT ![p] = "publish"]
  /\ UNCHANGED <<queueVars, publisher, workerVars, processingVars, faults>>

\* The database commits, but Commit returns an error: the client reads 400.
CommitUnheard(p, sender, recipient, amount) ==
  /\ Fault
  /\ request[p] = "none"
  /\ CreatePayment(p, sender, recipient, amount)
  /\ request' = [request EXCEPT ![p] = "400"]
  /\ UNCHANGED <<queueVars, publisher, workerVars, processingVars>>

\* A mutant: the job is published before its payment is committed.
PublishFirst(p) ==
  /\ request[p] \in {"none", "publish"} /\ publisher = "open"
  /\ Queue!Publish(p)
  /\ request' = [request EXCEPT ![p] = IF @ = "none" THEN @ ELSE "201"]
  /\ UNCHANGED <<storeVars, publisher, workerVars, processingVars, faults>>

Publish(p) ==
  /\ request[p] = "publish" /\ publisher = "open"
  /\ Queue!Publish(p)
  /\ request' = [request EXCEPT ![p] = "201"]
  /\ UNCHANGED <<storeVars, publisher, workerVars, processingVars, faults>>

\* Without publisher confirms, a message written to a connection that then
\* dies is lost although PublishPayment returned nil.
PublishVanishes(p) ==
  /\ PublishMayVanish /\ Fault
  /\ request[p] = "publish" /\ publisher = "open"
  /\ request' = [request EXCEPT ![p] = "201"]
  /\ publisher' = "closed"
  /\ UNCHANGED <<storeVars, queueVars, workerVars, processingVars>>

\* On a dead channel every publish fails at once; the payment stays saved.
PublishFails(p) ==
  /\ request[p] = "publish" /\ publisher = "closed"
  /\ request' = [request EXCEPT ![p] = "202"]
  /\ UNCHANGED <<storeVars, queueVars, publisher, workerVars, processingVars, faults>>

PublisherLost ==
  /\ Fault
  /\ publisher = "open"
  /\ publisher' = "closed"
  /\ UNCHANGED <<storeVars, queueVars, request, workerVars, processingVars>>

\* The API process restarts: a new publisher, and every request under way is
\* cut off without an answer.
ApiRestart ==
  /\ Fault
  /\ publisher' = "open"
  /\ request' = [p \in Payment |-> IF request[p] = "publish" THEN "cut"
                                   ELSE request[p]]
  /\ UNCHANGED <<storeVars, queueVars, workerVars, processingVars>>
-----------------------------------------------------------------------------
\* A banker answers a payment of the pending list, in whatever state its job is.
Decide(p, banker, status) ==
  /\ DecidePayment(p, banker, status)
  /\ UNCHANGED <<queueVars, apiVars, workerVars, processingVars, faults>>
-----------------------------------------------------------------------------
\* The worker.

Goto(w, label) == pc' = [pc EXCEPT ![w] = label]

Start(w) ==
  /\ Queue!Subscribe(w)
  /\ Goto(w, "idle")
  /\ UNCHANGED <<storeVars, apiVars, result, processingVars, faults>>

Deliver(w) ==
  /\ Queue!Deliver(w)
  /\ UNCHANGED <<storeVars, apiVars, workerVars, processingVars, faults>>

Take(w) ==
  /\ Queue!Take(w)
  /\ Goto(w, "load")
  /\ UNCHANGED <<storeVars, apiVars, result, processingVars, faults>>

\* A mutant: a payment that is decided already counts as a failure.
LoadPending(w) ==
  /\ pc[w] = "load"
  /\ IF payments[hand[w]].status # "PENDING" THEN Goto(w, "backoff")
     ELSE Goto(w, "score")
  /\ UNCHANGED <<storeVars, queueVars, apiVars, result, processingVars, faults>>

\* GetPayment: whatever the status of the row, the handler goes on.
Load(w) ==
  /\ pc[w] = "load"
  /\ IF payments[hand[w]].status = "ABSENT" THEN Goto(w, "backoff")
     ELSE Goto(w, "score")
  /\ UNCHANGED <<storeVars, queueVars, apiVars, result, processingVars, faults>>

\* The request reaches processing, which decides its key unless it has already.
Submit(w) ==
  /\ pc[w] = "score"
  /\ \/ /\ outcome[hand[w]] = "none"
        /\ \E v \in Verdict : outcome' = [outcome EXCEPT ![hand[w]] = v]
     \/ /\ outcome[hand[w]] # "none"
        /\ UNCHANGED outcome
  /\ Goto(w, "answer")
  /\ UNCHANGED <<storeVars, queueVars, apiVars, result, limited, faults>>

\* A mutant: an unknown status counts as a completed payment.
StatusOrCompleted(v) ==
  CASE v \in {"COMPLETED", "OTHER"} -> "COMPLETED"
    [] v = "APPROVED" -> "APPROVED"
    [] v \in {"REJECTED", "FAILED"} -> "REJECTED"

\* A mutant: the answer is stored as it comes.
StatusAsIs(v) == v

mapProcessingStatus(v) ==
  CASE v = "COMPLETED" -> "COMPLETED"
    [] v = "APPROVED" -> "APPROVED"
    [] v \in {"REJECTED", "FAILED"} -> "REJECTED"
    [] v = "OTHER" -> "PENDING"

\* The answer arrives within the client's timeout.
Scored(w) ==
  /\ pc[w] = "answer"
  /\ result' = [result EXCEPT ![w] = mapProcessingStatus(outcome[hand[w]])]
  /\ Goto(w, "apply")
  /\ UNCHANGED <<storeVars, queueVars, apiVars, processingVars, faults>>

\* Status 429 counts as a rejection, also when it answers a repeated request.
RateLimited(w) ==
  /\ pc[w] = "score"
  /\ limited' = limited \cup {hand[w]}
  /\ result' = [result EXCEPT ![w] = "REJECTED"]
  /\ Goto(w, "apply")
  /\ UNCHANGED <<storeVars, queueVars, apiVars, outcome, faults>>

\* The UPDATE, the invalidation of the cache, and nil.
Apply(w) ==
  /\ pc[w] = "apply"
  /\ ApplyProcessingResult(hand[w], result[w])
  /\ result' = [result EXCEPT ![w] = "none"]
  /\ Goto(w, "ack")
  /\ UNCHANGED <<queueVars, apiVars, processingVars, faults>>

\* The UPDATE takes effect but its answer is lost: the handler sees an error.
ApplyUnheard(w) ==
  /\ Fault
  /\ pc[w] = "apply"
  /\ ApplyProcessingResult(hand[w], result[w])
  /\ result' = [result EXCEPT ![w] = "none"]
  /\ Goto(w, "backoff")
  /\ UNCHANGED <<queueVars, apiVars, processingVars>>

\* A mutant: the handler logs a failed call and returns nil.
FailQuietly(w) ==
  /\ Fault
  /\ pc[w] \in {"load", "score", "answer", "apply"}
  /\ result' = [result EXCEPT ![w] = "none"]
  /\ Goto(w, "ack")
  /\ UNCHANGED <<storeVars, queueVars, apiVars, processingVars>>

\* A call of the handler fails without effect: the query, the login or the
\* request on its way out, the answer on its way back (the timeout of five
\* seconds, a status of 300 or more, a body without status), the update.
Fail(w) ==
  /\ Fault
  /\ pc[w] \in {"load", "score", "answer", "apply"}
  /\ result' = [result EXCEPT ![w] = "none"]
  /\ Goto(w, "backoff")
  /\ UNCHANGED <<storeVars, queueVars, apiVars, processingVars>>

Ack(w) ==
  /\ pc[w] = "ack"
  /\ Queue!Ack(w)
  /\ Goto(w, "idle")
  /\ UNCHANGED <<storeVars, apiVars, result, processingVars, faults>>

Requeue(w) ==
  /\ pc[w] = "backoff"
  /\ Queue!Requeue(w)
  /\ Goto(w, "idle")
  /\ UNCHANGED <<storeVars, apiVars, result, processingVars, faults>>

ChannelLost(w) ==
  /\ Fault
  /\ Queue!ChannelLost(w)
  /\ UNCHANGED <<storeVars, apiVars, workerVars, processingVars>>

\* The process is killed, at whatever line it is.
Crash(w) ==
  /\ Fault
  /\ Queue!Exit(w)
  /\ Goto(w, "down")
  /\ result' = [result EXCEPT ![w] = "none"]
  /\ UNCHANGED <<storeVars, apiVars, processingVars>>

\* The operator stops a worker that has lost its channel and is idle for good.
Stop(w) ==
  /\ channel[w] = "closed" /\ pc[w] = "idle"
  /\ Queue!Exit(w)
  /\ Goto(w, "down")
  /\ UNCHANGED <<storeVars, apiVars, result, processingVars, faults>>
-----------------------------------------------------------------------------
ApiNext(p) ==
  \/ \E s \in User, r \in User, a \in Amount :
       Commit(p, s, r, a) \/ CommitUnheard(p, s, r, a)
  \/ Publish(p) \/ PublishVanishes(p) \/ PublishFails(p)

\* What a worker does next when nothing fails.
Advance(w) ==
  \/ Take(w) \/ Load(w) \/ Submit(w) \/ Scored(w) \/ RateLimited(w) \/ Apply(w)
  \/ Ack(w) \/ Requeue(w)

Disturb(w) == ApplyUnheard(w) \/ Fail(w) \/ ChannelLost(w) \/ Crash(w)

PipelineNext ==
  \/ \E p \in Payment : ApiNext(p)
  \/ PublisherLost \/ ApiRestart
  \/ \E p \in Payment, b \in Banker, st \in Decision : Decide(p, b, st)
  \/ \E w \in Worker : Start(w) \/ Deliver(w) \/ Advance(w) \/ Disturb(w) \/ Stop(w)

PipelineSpec == PipelineInit /\ [][PipelineNext]_vars

\* Running processes go on, and the broker pushes what is ready.
Running ==
  /\ \A p \in Payment : WF_vars(Publish(p) \/ PublishFails(p))
  /\ \A w \in Worker : WF_vars(Advance(w)) /\ WF_vars(Deliver(w))

\* Processes that end are started again.  (docker-compose.yml has no restart
\* policy, so this is already more than the deployment does by itself.)
Restarted == \A w \in Worker : WF_vars(Start(w))

\* The operator also restarts workers that live on without a channel
\* (DEPLOYMENT_CHECKLIST.md lists the command).
Operated == \A w \in Worker : WF_vars(Stop(w))

UnattendedSpec == PipelineSpec /\ Running /\ Restarted
OperatedSpec == UnattendedSpec /\ Operated
-----------------------------------------------------------------------------
Queued(p) == p \in Queue!Waiting \/ \E w \in Worker : p \in Queue!Owed(w)

\* The row carries a decision of a worker, not of a banker.
ByWorker(p) == payments[p].processed /\ payments[p].approved_by = NoUser
-----------------------------------------------------------------------------
PipelineTypeOK ==
  /\ StoreTypeOK
  /\ Queue!QueueTypeOK
  /\ request \in [Payment -> {"none", "publish", "201", "202", "400", "cut"}]
  /\ publisher \in {"open", "closed"}
  /\ pc \in [Worker -> {"down", "idle", "load", "score", "answer", "apply",
                        "ack", "backoff"}]
  /\ result \in [Worker -> ResultStatus \cup {"none"}]
  /\ outcome \in [Payment -> Verdict \cup {"none"}]
  /\ limited \subseteq Payment
  /\ faults \in 0 .. MaxFaults

\* A worker never meets a job without a committed payment, so a job can never
\* circle through the requeue for want of a row: the API publishes after the
\* commit, and a job goes on to exist only as long as the row does.
JobHasPayment ==
  \A p \in Payment : Queued(p) \/ (\E w \in Worker : hand[w] = p) =>
    payments[p].status # "ABSENT"

\* A message leaves the queue only when its payment has been processed: at
\* whatever line a worker dies, whichever call fails, and however often the job
\* was handed out, the broker forgets it only after an answer of processing or a
\* decision of a banker is in the row.
AckedIsProcessed ==
  \A p \in Payment : fate[p] = "acked" => payments[p].processed

\* A payment answered with 201 is never forgotten: until it is processed its job
\* is in the queue or on a channel (of a broker that got the message).
CreatedIsQueuedOrProcessed ==
  \A p \in Payment : request[p] = "201" => Queued(p) \/ payments[p].processed

\* What a worker writes is what processing decided under the payment's key,
\* whichever attempt got the answer and whoever crashed in between; the one
\* exception is a rejection after a 429.  In particular no payment is COMPLETED
\* here that is not completed there.
VerdictIsOutcome ==
  \A p \in Payment : ByWorker(p) =>
    CASE payments[p].status = "COMPLETED" -> outcome[p] = "COMPLETED"
      [] payments[p].status = "APPROVED" -> outcome[p] = "APPROVED"
      [] payments[p].status = "REJECTED" ->
           outcome[p] \in {"REJECTED", "FAILED"} \/ p \in limited
      [] payments[p].status = "PENDING" -> outcome[p] = "OTHER"

\* Every job that entered the queue is acknowledged in the end, whatever failed
\* on the way: the requeues do not starve it and no dead channel keeps it, as
\* long as failures cease and an operator looks after the workers.  With
\* AckedIsProcessed, its payment is processed.
QueuedIsAcked ==
  \A p \in Payment : fate[p] = "queued" ~> fate[p] = "acked"
-----------------------------------------------------------------------------
\* What a document promises and the program does not do.

\* openapi.go:175, on POST /api/payments: once the job is sent to RabbitMQ the
\* worker calls the external processing.  A job that was sent leads to such a
\* call.
SentIsSubmitted ==
  \A p \in Payment : fate[p] # "unsent" ~> outcome[p] # "none" \/ p \in limited
=============================================================================
