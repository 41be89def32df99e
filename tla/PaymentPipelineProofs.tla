------------------------ MODULE PaymentPipelineProofs ------------------------
(***************************************************************************)
(* Theorems about the whole pipeline, for any number of payments, workers  *)
(* and failures.  The pipeline implements JobQueue and PaymentStore, so    *)
(* what is proved of them holds here; the invariants of this module relate *)
(* the rows, the fates of the jobs, the workers and the processing.        *)
(***************************************************************************)
EXTENDS PaymentPipeline, PaymentStoreProofs

QueueP == INSTANCE JobQueueProofs
            WITH Message <- Payment, Malformed <- {}, Consumer <- Worker,
                 Nothing <- NoPayment

\* The jobs and workers of the pipeline meet what JobQueue assumes.
LEMMA QueueAssumptionMet == QueueP!QueueAssumption
BY PipelineAssumption DEF QueueP!QueueAssumption, PipelineAssumption

-----------------------------------------------------------------------------
\* Whatever the pipeline does, the queue takes a step of its own or none.
LEMMA PipelineStepsQueue ==
  ASSUME [PipelineNext]_vars
  PROVE  [QueueP!QueueNext]_QueueP!queueVars
<1> USE DEF QueueP!QueueNext, QueueP!queueVars
<1>1. ASSUME UNCHANGED queueVars
      PROVE  UNCHANGED QueueP!queueVars
  BY <1>1 DEF queueVars
<1>2. ASSUME NEW p \in Payment, ApiNext(p)
      PROVE  [QueueP!QueueNext]_QueueP!queueVars
  <2>1. ASSUME NEW s \in User, NEW r \in User, NEW a \in Amount,
               Commit(p, s, r, a) \/ CommitUnheard(p, s, r, a)
        PROVE  UNCHANGED queueVars
    BY <2>1 DEF Commit, CommitUnheard
  <2>2. Publish(p) => QueueP!Publish(p)
    BY DEF Publish, Queue!Publish, QueueP!Publish
  <2>3. PublishVanishes(p) \/ PublishFails(p) => UNCHANGED queueVars
    BY DEF PublishVanishes, PublishFails
  <2> QED
    BY <1>1, <1>2, <2>1, <2>2, <2>3 DEF ApiNext
<1>3. PublisherLost \/ ApiRestart => UNCHANGED queueVars
  BY DEF PublisherLost, ApiRestart
<1>4. ASSUME NEW p \in Payment, NEW b \in Banker, NEW st \in Decision, Decide(p, b, st)
      PROVE  UNCHANGED queueVars
  BY <1>4 DEF Decide
<1>5. ASSUME NEW w \in Worker,
             Start(w) \/ Deliver(w) \/ Advance(w) \/ Disturb(w) \/ Stop(w)
      PROVE  [QueueP!QueueNext]_QueueP!queueVars
  <2>1. Start(w) => QueueP!Subscribe(w)
    BY DEF Start, Queue!Subscribe, QueueP!Subscribe
  <2>2. Deliver(w) => QueueP!Deliver(w)
    BY DEF Deliver, Queue!Deliver, QueueP!Deliver
  <2>3. Take(w) => QueueP!Take(w)
    BY DEF Take, Queue!Take, QueueP!Take, Queue!Receives, QueueP!Receives
  <2>4. Load(w) \/ Submit(w) \/ Scored(w) \/ RateLimited(w) \/ Apply(w)
          => UNCHANGED queueVars
    BY DEF Load, Submit, Scored, RateLimited, Apply
  <2>5. Ack(w) => QueueP!Ack(w)
    BY DEF Ack, Queue!Ack, QueueP!Ack, Queue!Stale, QueueP!Stale
  <2>6. Requeue(w) => QueueP!Requeue(w)
    BY DEF Requeue, Queue!Requeue, QueueP!Requeue, Queue!Stale, QueueP!Stale
  <2>7. ApplyUnheard(w) \/ Fail(w) => UNCHANGED queueVars
    BY DEF ApplyUnheard, Fail
  <2>8. ChannelLost(w) => QueueP!ChannelLost(w)
    BY DEF ChannelLost, Queue!ChannelLost, QueueP!ChannelLost,
           Queue!Return, QueueP!Return
  <2>9. Crash(w) \/ Stop(w) => QueueP!Exit(w)
    BY DEF Crash, Stop, Queue!Exit, QueueP!Exit, Queue!Return, QueueP!Return
  <2> QED
    BY <1>1, <1>5, <2>1, <2>2, <2>3, <2>4, <2>5, <2>6, <2>7, <2>8, <2>9
    DEF Advance, Disturb
<1>6. CASE UNCHANGED vars
  BY <1>1, <1>6 DEF vars
<1> QED
  BY <1>1, <1>2, <1>3, <1>4, <1>5, <1>6 DEF PipelineNext

\* The pipeline uses the queue as JobQueue describes it, so the queue's
\* invariant holds in it.
THEOREM PipelineImplementsQueue == PipelineSpec => QueueP!QueueSpec
<1>1. PipelineInit => QueueP!QueueInit
  BY DEF PipelineInit, Queue!QueueInit, QueueP!QueueInit
<1> QED
  BY <1>1, PipelineStepsQueue, PTL DEF PipelineSpec, QueueP!QueueSpec

\* The invariant of JobQueue holds of the pipeline's queue.
LEMMA PipelineQueueInv == PipelineSpec => []QueueP!QueueInv
BY PipelineImplementsQueue, QueueP!QueueInvHolds, QueueAssumptionMet, PTL

\* In every job of the queue or in a hand, the fate of the job says so.
LEMMA QueueFacts ==
  ASSUME QueueP!QueueInv
  PROVE  /\ Queue!QueueTypeOK
         /\ \A p \in Payment : Queued(p) <=> fate[p] = "queued"
<1>1. Queue!QueueTypeOK
  BY DEF QueueP!QueueInv, QueueP!QueueTypeOK, Queue!QueueTypeOK
<1>2. {p \in Payment : fate[p] = "queued"} =
        Queue!Waiting \cup UNION {Queue!Owed(w) : w \in Worker}
  <2>1. {p \in Payment : fate[p] = "queued"} =
          QueueP!Waiting \cup UNION {QueueP!Owed(w) : w \in Worker}
    BY DEF QueueP!QueueInv, QueueP!OnePlace
  <2>2. QueueP!Waiting = Queue!Waiting /\ \A w : QueueP!Owed(w) = Queue!Owed(w)
    BY DEF QueueP!Waiting, QueueP!Owed, Queue!Waiting, Queue!Owed,
           QueueP!Range, Queue!Range
  <2> QED
    BY <2>1, <2>2
<1> QED
  BY <1>1, <1>2 DEF Queued

-----------------------------------------------------------------------------
\* What VerdictIsOutcome asks of a status st that a worker holds or has written.
Stands(st, answer, refused) ==
  /\ st = "COMPLETED" => answer = "COMPLETED"
  /\ st = "APPROVED" => answer = "APPROVED"
  /\ st = "REJECTED" => answer \in {"REJECTED", "FAILED"} \/ refused
  /\ st = "PENDING" => answer = "OTHER"

Matches(st, p) == Stands(st, outcome[p], p \in limited)

Working == {"load", "score", "answer", "apply", "ack", "backoff"}
Label == Working \cup {"down", "idle"}

\* The variables that neither the store nor the queue types.
LocalTypeOK ==
  /\ request \in [Payment -> {"none", "publish", "201", "202", "400", "cut"}]
  /\ publisher \in {"open", "closed"}
  /\ pc \in [Worker -> Label]
  /\ result \in [Worker -> ResultStatus \cup {"none"}]
  /\ outcome \in [Payment -> Verdict \cup {"none"}]
  /\ limited \subseteq Payment
  /\ faults \in 0 .. MaxFaults

\* A worker in its handler has a job in hand; once processing has answered, the
\* job is decided there, and the result the worker holds says what it decided.
WorkerOK(w) ==
  /\ pc[w] \in Working => hand[w] \in Payment
  /\ pc[w] = "answer" => outcome[hand[w]] # "none"
  /\ pc[w] = "apply" => result[w] \in ResultStatus /\ Matches(result[w], hand[w])

WorkersOK == LocalTypeOK /\ \A w \in Worker : WorkerOK(w)

\* Every status that mapProcessingStatus returns is a status of the store and
\* stands for what processing answered.
LEMMA MappedStatus ==
  ASSUME NEW p \in Payment, outcome[p] \in Verdict
  PROVE  /\ mapProcessingStatus(outcome[p]) \in ResultStatus
         /\ Matches(mapProcessingStatus(outcome[p]), p)
<1>1. outcome[p] \in {"COMPLETED", "APPROVED", "REJECTED", "FAILED", "OTHER"}
  BY PipelineAssumption DEF PipelineAssumption
<1> QED
  BY <1>1 DEF mapProcessingStatus, Matches, Stands, ResultStatus

\* The hand of a worker changes only in a step of that worker.
LEMMA OthersKeep ==
  ASSUME LocalTypeOK, Queue!QueueTypeOK, NEW w \in Worker, NEW u \in Worker, u # w,
         Start(w) \/ Deliver(w) \/ Advance(w) \/ Disturb(w) \/ Stop(w)
  PROVE  pc'[u] = pc[u] /\ hand'[u] = hand[u] /\ result'[u] = result[u]
<1> USE DEF LocalTypeOK, Queue!QueueTypeOK, Goto
<1>1. Start(w) \/ Deliver(w) => pc'[u] = pc[u] /\ hand'[u] = hand[u] /\ result'[u] = result[u]
  BY DEF Start, Deliver, workerVars, Queue!Subscribe, Queue!Deliver
<1>2. Take(w) \/ Ack(w) \/ Requeue(w) =>
        pc'[u] = pc[u] /\ hand'[u] = hand[u] /\ result'[u] = result[u]
  BY DEF Take, Ack, Requeue, Queue!Take, Queue!Ack, Queue!Requeue
<1>3. Load(w) \/ Submit(w) \/ Scored(w) \/ RateLimited(w) \/ Apply(w) =>
        pc'[u] = pc[u] /\ hand'[u] = hand[u] /\ result'[u] = result[u]
  BY DEF Load, Submit, Scored, RateLimited, Apply, queueVars
<1>4. Disturb(w) => pc'[u] = pc[u] /\ hand'[u] = hand[u] /\ result'[u] = result[u]
  BY DEF Disturb, ApplyUnheard, Fail, ChannelLost, Crash, queueVars, workerVars,
         Queue!ChannelLost, Queue!Exit
<1>5. Stop(w) => pc'[u] = pc[u] /\ hand'[u] = hand[u] /\ result'[u] = result[u]
  BY DEF Stop, Queue!Exit
<1> QED
  BY <1>1, <1>2, <1>3, <1>4, <1>5 DEF Advance

\* Only Submit decides a payment at the processing, and it never decides twice.
LEMMA DecidedOnce ==
  ASSUME WorkersOK, QueueP!QueueInv, [PipelineNext]_vars
  PROVE  /\ outcome' \in [Payment -> Verdict \cup {"none"}]
         /\ \A p \in Payment : outcome[p] # "none" => outcome'[p] = outcome[p]
         /\ limited \subseteq limited' /\ limited' \subseteq Payment
<1> USE DEF WorkersOK, LocalTypeOK
<1> DEFINE Goal == /\ outcome' \in [Payment -> Verdict \cup {"none"}]
                   /\ \A p \in Payment : outcome[p] # "none" => outcome'[p] = outcome[p]
                   /\ limited \subseteq limited' /\ limited' \subseteq Payment
<1>1. ASSUME UNCHANGED processingVars
      PROVE  Goal
  BY <1>1 DEF processingVars
<1>2. ASSUME NEW w \in Worker, Submit(w)
      PROVE  Goal
  <2>1. hand[w] \in Payment
    BY <1>2 DEF Submit, WorkerOK, Working
  <2>2. CASE outcome[hand[w]] = "none"
    <3>1. PICK v \in Verdict : outcome' = [outcome EXCEPT ![hand[w]] = v]
      BY <1>2, <2>2 DEF Submit
    <3> QED
      BY <1>2, <2>1, <2>2, <3>1 DEF Submit
  <2>3. CASE outcome[hand[w]] # "none"
    BY <1>2, <2>3 DEF Submit
  <2> QED
    BY <2>2, <2>3
<1>3. ASSUME NEW w \in Worker, RateLimited(w)
      PROVE  Goal
  <2>1. hand[w] \in Payment
    BY <1>3 DEF RateLimited, WorkerOK, Working
  <2> QED
    BY <1>3, <2>1 DEF RateLimited
<1>4. ASSUME NEW p \in Payment, ApiNext(p)
      PROVE  Goal
  BY <1>1, <1>4
  DEF ApiNext, Commit, CommitUnheard, Publish, PublishVanishes, PublishFails
<1>5. ASSUME PublisherLost \/ ApiRestart
      PROVE  Goal
  BY <1>1, <1>5 DEF PublisherLost, ApiRestart
<1>6. ASSUME NEW p \in Payment, NEW b \in Banker, NEW st \in Decision, Decide(p, b, st)
      PROVE  Goal
  BY <1>1, <1>6 DEF Decide
<1>7. ASSUME NEW w \in Worker,
             Start(w) \/ Deliver(w) \/ Advance(w) \/ Disturb(w) \/ Stop(w)
      PROVE  Goal
  BY <1>1, <1>2, <1>3, <1>7
  DEF Start, Deliver, Advance, Disturb, Stop, Take, Load, Scored, Apply, Ack, Requeue,
      ApplyUnheard, Fail, ChannelLost, Crash
<1>8. CASE UNCHANGED vars
  BY <1>1, <1>8 DEF vars
<1> QED
  BY <1>4, <1>5, <1>6, <1>7, <1>8 DEF PipelineNext

\* A status that stood for an answer goes on to stand for it.
LEMMA MatchesStable ==
  ASSUME WorkersOK, QueueP!QueueInv, [PipelineNext]_vars, NEW p \in Payment,
         NEW st \in ResultStatus, Matches(st, p)
  PROVE  Matches(st, p)'
BY DecidedOnce DEF Matches, Stands, ResultStatus

-----------------------------------------------------------------------------
\* The variables of API, workers and processing stay in their domains.
LEMMA LocalTypeStep ==
  ASSUME WorkersOK, QueueP!QueueInv, [PipelineNext]_vars
  PROVE  LocalTypeOK'
<1> USE DEF WorkersOK, LocalTypeOK, Goto
<1>0. /\ outcome' \in [Payment -> Verdict \cup {"none"}] /\ limited' \subseteq Payment
      /\ MaxFaults \in Nat
  BY DecidedOnce, PipelineAssumption DEF PipelineAssumption
<1>1. Fault => faults' \in 0 .. MaxFaults
  BY <1>0 DEF Fault
<1>2. ASSUME NEW p \in Payment, ApiNext(p)
      PROVE  LocalTypeOK'
  BY <1>0, <1>1, <1>2
  DEF ApiNext, Commit, CommitUnheard, Publish, PublishVanishes, PublishFails, workerVars
<1>3. ASSUME PublisherLost \/ ApiRestart
      PROVE  LocalTypeOK'
  BY <1>0, <1>1, <1>3 DEF PublisherLost, ApiRestart, workerVars
<1>4. ASSUME NEW p \in Payment, NEW b \in Banker, NEW st \in Decision, Decide(p, b, st)
      PROVE  LocalTypeOK'
  BY <1>0, <1>4 DEF Decide, apiVars, workerVars
<1>5. ASSUME NEW w \in Worker, Start(w) \/ Deliver(w) \/ Take(w) \/ Ack(w) \/ Requeue(w) \/ Stop(w)
      PROVE  LocalTypeOK'
  <2>1. /\ UNCHANGED <<request, publisher, result, faults>>
        /\ UNCHANGED pc \/ \E l \in Label : pc' = [pc EXCEPT ![w] = l]
    BY <1>5 DEF Start, Deliver, Take, Ack, Requeue, Stop, apiVars, workerVars, Label, Working
  <2> QED
    BY <1>0, <2>1
<1>6. ASSUME NEW w \in Worker,
             Load(w) \/ Submit(w) \/ Scored(w) \/ RateLimited(w) \/ Apply(w)
      PROVE  LocalTypeOK'
  <2>1. /\ UNCHANGED <<request, publisher, faults>>
        /\ \E l \in Label : pc' = [pc EXCEPT ![w] = l]
    BY <1>6 DEF Load, Submit, Scored, RateLimited, Apply, apiVars, Label, Working
  <2>2. \/ UNCHANGED result
        \/ \E st \in ResultStatus \cup {"none"} : result' = [result EXCEPT ![w] = st]
    <3>1. Load(w) \/ Submit(w) => UNCHANGED result
      BY DEF Load, Submit
    <3>2. Scored(w) => outcome[hand[w]] \in Verdict /\ hand[w] \in Payment
      BY DEF Scored, WorkerOK, Working
    <3>3. Scored(w) => \E st \in ResultStatus : result' = [result EXCEPT ![w] = st]
      BY <3>2, MappedStatus DEF Scored
    <3>4. RateLimited(w) \/ Apply(w) =>
            \E st \in ResultStatus \cup {"none"} : result' = [result EXCEPT ![w] = st]
      BY DEF RateLimited, Apply, ResultStatus
    <3> QED
      BY <1>6, <3>1, <3>3, <3>4
  <2> QED
    BY <1>0, <2>1, <2>2
<1>7. ASSUME NEW w \in Worker, Disturb(w)
      PROVE  LocalTypeOK'
  <2>1. /\ UNCHANGED <<request, publisher>> /\ Fault
        /\ UNCHANGED pc \/ \E l \in Label : pc' = [pc EXCEPT ![w] = l]
        /\ UNCHANGED result \/ result' = [result EXCEPT ![w] = "none"]
    BY <1>7 DEF Disturb, ApplyUnheard, Fail, ChannelLost, Crash, apiVars, workerVars,
                Label, Working
  <2> QED
    BY <1>0, <1>1, <2>1
<1>8. CASE UNCHANGED vars
  BY <1>8 DEF vars, apiVars, workerVars, processingVars
<1> QED
  BY <1>2, <1>3, <1>4, <1>5, <1>6, <1>7, <1>8 DEF PipelineNext, Advance

\* Each worker goes on holding a job and what is true of it.
LEMMA WorkerStep ==
  ASSUME WorkersOK, QueueP!QueueInv, [PipelineNext]_vars, NEW u \in Worker
  PROVE  WorkerOK(u)'
<1> USE DEF WorkersOK, LocalTypeOK, Goto
<1>0. WorkerOK(u) /\ Queue!QueueTypeOK
  BY QueueFacts
<1>1. ASSUME pc'[u] = pc[u], hand'[u] = hand[u], result'[u] = result[u]
      PROVE  WorkerOK(u)'
  <2>1. pc[u] = "answer" => outcome'[hand[u]] # "none"
    BY <1>0, DecidedOnce DEF WorkerOK, Working
  <2>2. pc[u] = "apply" => Stands(result[u], outcome'[hand[u]], hand[u] \in limited')
    <3> SUFFICES ASSUME pc[u] = "apply"
                 PROVE  Stands(result[u], outcome'[hand[u]], hand[u] \in limited')
      OBVIOUS
    <3>1. /\ hand[u] \in Payment /\ result[u] \in ResultStatus
          /\ Stands(result[u], outcome[hand[u]], hand[u] \in limited)
      BY <1>0 DEF WorkerOK, Working, Matches
    <3> QED
      BY <3>1, DecidedOnce DEF Stands, ResultStatus
  <2> QED
    BY <1>0, <1>1, <2>1, <2>2 DEF WorkerOK, Matches
<1>2. ASSUME UNCHANGED <<pc, hand, result>>
      PROVE  WorkerOK(u)'
  BY <1>1, <1>2
<1>3. ASSUME NEW p \in Payment, ApiNext(p)
      PROVE  WorkerOK(u)'
  <2>1. UNCHANGED <<pc, hand, result>>
    BY <1>3 DEF ApiNext, Commit, CommitUnheard, Publish, PublishVanishes, PublishFails,
                queueVars, workerVars, Queue!Publish
  <2> QED
    BY <1>2, <2>1
<1>4. ASSUME PublisherLost \/ ApiRestart
      PROVE  WorkerOK(u)'
  BY <1>2, <1>4 DEF PublisherLost, ApiRestart, queueVars, workerVars
<1>5. ASSUME NEW p \in Payment, NEW b \in Banker, NEW st \in Decision, Decide(p, b, st)
      PROVE  WorkerOK(u)'
  BY <1>2, <1>5 DEF Decide, queueVars, workerVars
<1>6. ASSUME NEW w \in Worker, w # u,
             Start(w) \/ Deliver(w) \/ Advance(w) \/ Disturb(w) \/ Stop(w)
      PROVE  WorkerOK(u)'
  BY <1>0, <1>1, <1>6, OthersKeep
<1>7. ASSUME pc'[u] \in {"idle", "down"}
      PROVE  WorkerOK(u)'
  BY <1>7 DEF WorkerOK, Working
<1>8. ASSUME hand'[u] = hand[u], pc[u] \in Working, pc'[u] \in {"load", "score", "ack", "backoff"}
      PROVE  WorkerOK(u)'
  BY <1>0, <1>8 DEF WorkerOK, Working
<1>9. ASSUME Start(u) \/ Ack(u) \/ Requeue(u) \/ Crash(u) \/ Stop(u)
      PROVE  WorkerOK(u)'
  BY <1>7, <1>9 DEF Start, Ack, Requeue, Crash, Stop
<1>10. ASSUME Deliver(u) \/ ChannelLost(u)
       PROVE  WorkerOK(u)'
  BY <1>2, <1>10
  DEF Deliver, ChannelLost, workerVars, Queue!Deliver, Queue!ChannelLost
<1>11. ASSUME Take(u)
       PROVE  WorkerOK(u)'
  <2>1. hand'[u] = Head(unacked[u]) /\ unacked[u] # <<>> /\ pc'[u] = "load"
    BY <1>0, <1>11 DEF Take, Queue!Take, Queue!Receives, Queue!QueueTypeOK
  <2>2. hand'[u] \in Payment
    BY <1>0, <2>1, HeadTailProperties DEF Queue!QueueTypeOK
  <2> QED
    BY <2>1, <2>2 DEF WorkerOK
<1>12. ASSUME Load(u) \/ Apply(u) \/ ApplyUnheard(u) \/ Fail(u)
       PROVE  WorkerOK(u)'
  <2>1. hand' = hand /\ pc[u] \in Working /\ pc'[u] \in {"score", "ack", "backoff"}
    BY <1>12 DEF Load, Apply, ApplyUnheard, Fail, queueVars, Working
  <2> QED
    BY <1>8, <2>1
<1>13. ASSUME Submit(u)
       PROVE  WorkerOK(u)'
  <2>1. hand' = hand /\ pc'[u] = "answer" /\ hand[u] \in Payment
    BY <1>0, <1>13 DEF Submit, queueVars, WorkerOK, Working
  <2>2. outcome'[hand[u]] # "none"
    <3>1. "none" \notin Verdict
      BY PipelineAssumption DEF PipelineAssumption
    <3> QED
      BY <1>13, <2>1, <3>1 DEF Submit
  <2> QED
    BY <2>1, <2>2 DEF WorkerOK
<1>14. ASSUME Scored(u)
       PROVE  WorkerOK(u)'
  <2>1. hand[u] \in Payment /\ outcome[hand[u]] \in Verdict
    BY <1>0, <1>14 DEF Scored, WorkerOK, Working
  <2>2. /\ hand' = hand /\ pc'[u] = "apply" /\ UNCHANGED <<outcome, limited>>
        /\ result'[u] = mapProcessingStatus(outcome[hand[u]])
    BY <1>14 DEF Scored, queueVars, processingVars
  <2>3. result'[u] \in ResultStatus /\ Matches(result'[u], hand[u])
    BY <2>1, <2>2, MappedStatus
  <2> QED
    BY <2>1, <2>2, <2>3 DEF WorkerOK, Matches
<1>15. ASSUME RateLimited(u)
       PROVE  WorkerOK(u)'
  <2>1. /\ hand' = hand /\ hand[u] \in Payment /\ pc'[u] = "apply"
        /\ result'[u] = "REJECTED" /\ hand[u] \in limited'
    BY <1>0, <1>15 DEF RateLimited, queueVars, WorkerOK, Working
  <2> QED
    BY <2>1 DEF WorkerOK, Matches, Stands, ResultStatus
<1>16. CASE UNCHANGED vars
  BY <1>2, <1>16 DEF vars, queueVars, workerVars
<1> QED
  BY <1>3, <1>4, <1>5, <1>6, <1>9, <1>10, <1>11, <1>12, <1>13, <1>14, <1>15, <1>16
  DEF PipelineNext, Advance, Disturb

\* What a worker is about to write stands for the outcome in every state.
LEMMA WorkersAlwaysOK == PipelineSpec => []WorkersOK
<1>1. PipelineInit => WorkersOK
  <2> SUFFICES ASSUME PipelineInit PROVE WorkersOK
    OBVIOUS
  <2>1. LocalTypeOK
    BY PipelineAssumption
    DEF PipelineInit, LocalTypeOK, PipelineAssumption, Label, Working
  <2>2. \A w \in Worker : WorkerOK(w)
    BY DEF PipelineInit, WorkerOK, Working
  <2> QED
    BY <2>1, <2>2 DEF WorkersOK
<1>2. WorkersOK /\ QueueP!QueueInv /\ [PipelineNext]_vars => WorkersOK'
  BY LocalTypeStep, WorkerStep DEF WorkersOK
<1> QED
  BY <1>1, <1>2, PipelineQueueInv, PTL DEF PipelineSpec

-----------------------------------------------------------------------------
\* Whatever the pipeline does, the tables take a step of store.go or none.
LEMMA PipelineStepsStore ==
  ASSUME WorkersOK, [PipelineNext]_vars
  PROVE  [StoreNext]_storeVars
<1>1. ASSUME NEW p \in Payment, ApiNext(p)
      PROVE  [StoreNext]_storeVars
  <2>1. ASSUME NEW s \in User, NEW r \in User, NEW a \in Amount,
               Commit(p, s, r, a) \/ CommitUnheard(p, s, r, a)
        PROVE  StoreNext
    BY <2>1 DEF Commit, CommitUnheard, StoreNext
  <2>2. Publish(p) \/ PublishVanishes(p) \/ PublishFails(p) => UNCHANGED storeVars
    BY DEF Publish, PublishVanishes, PublishFails
  <2> QED
    BY <1>1, <2>1, <2>2 DEF ApiNext
<1>2. PublisherLost \/ ApiRestart => UNCHANGED storeVars
  BY DEF PublisherLost, ApiRestart
<1>3. ASSUME NEW p \in Payment, NEW b \in Banker, NEW st \in Decision, Decide(p, b, st)
      PROVE  StoreNext
  BY <1>3 DEF Decide, StoreNext
<1>4. ASSUME NEW w \in Worker, Apply(w) \/ ApplyUnheard(w)
      PROVE  StoreNext
  <2>1. hand[w] \in Payment /\ result[w] \in ResultStatus
    BY <1>4 DEF Apply, ApplyUnheard, WorkersOK, WorkerOK, Working
  <2> QED
    BY <1>4, <2>1 DEF Apply, ApplyUnheard, StoreNext
<1>5. ASSUME NEW w \in Worker,
             Start(w) \/ Deliver(w) \/ Advance(w) \/ Disturb(w) \/ Stop(w)
      PROVE  [StoreNext]_storeVars
  BY <1>4, <1>5
  DEF Advance, Disturb, Start, Deliver, Stop, Take, Load, Submit, Scored, RateLimited,
      Ack, Requeue, Fail, ChannelLost, Crash
<1>6. CASE UNCHANGED vars
  BY <1>6 DEF vars
<1> QED
  BY <1>1, <1>2, <1>3, <1>5, <1>6 DEF PipelineNext

\* The whole system writes its tables only as store.go describes it: everything
\* proved of PaymentStore holds of the pipeline.
THEOREM PipelineImplementsStore == PipelineSpec => StoreSpec
<1>1. PipelineInit => StoreInit
  BY DEF PipelineInit
<1> QED
  BY <1>1, PipelineStepsStore, WorkersAlwaysOK, PTL DEF PipelineSpec, StoreSpec

\* No answer of processing that comes late, and no second decision of a banker,
\* changes a settled payment, through whatever worker and retry it comes.
THEOREM PipelineSettles == PipelineSpec => FinalIsFinal
BY PipelineImplementsStore, SettledIsSettled, PTL

\* The types of the whole pipeline.
THEOREM PipelineTypeCorrect == PipelineSpec => []PipelineTypeOK
<1>1. StoreTypeOK /\ QueueP!QueueInv /\ WorkersOK => PipelineTypeOK
  BY QueueFacts DEF PipelineTypeOK, WorkersOK, LocalTypeOK, Label, Working
<1> QED
  BY <1>1, PipelineImplementsStore, StoreTypeCorrect, PipelineQueueInv, WorkersAlwaysOK, PTL

-----------------------------------------------------------------------------
\* The rest relates rows, jobs and workers.  Steady collects what is known of
\* every state so far.
Steady == WorkersOK /\ QueueP!QueueInv /\ StoreTypeOK /\ RowsOK

\* What the parts of the pipeline promise each for itself holds in every state.
LEMMA AlwaysSteady == PipelineSpec => []Steady
<1>1. StoreTypeOK /\ RowsOK /\ QueueP!QueueInv /\ WorkersOK => Steady
  BY DEF Steady
<1> QED
  BY <1>1, PipelineImplementsStore, RowsAlwaysOK, PipelineQueueInv, WorkersAlwaysOK, PTL

\* The fate of a job changes in two ways: the API sends it, or the worker that
\* has it in hand acknowledges it.
LEMMA FateChanges ==
  ASSUME Steady, [PipelineNext]_vars, NEW q \in Payment
  PROVE  \/ fate'[q] = fate[q]
         \/ fate'[q] = "queued" /\ request[q] = "publish" /\ request'[q] = "201"
         \/ /\ fate'[q] = "acked"
            /\ \E w \in Worker : pc[w] = "ack" /\ hand[w] = q
<1> DEFINE Goal == \/ fate'[q] = fate[q]
                   \/ fate'[q] = "queued" /\ request[q] = "publish" /\ request'[q] = "201"
                   \/ /\ fate'[q] = "acked"
                      /\ \E w \in Worker : pc[w] = "ack" /\ hand[w] = q
<1>0. /\ fate \in [Payment -> {"unsent", "queued", "acked", "dropped"}]
      /\ request \in [Payment -> {"none", "publish", "201", "202", "400", "cut"}]
  BY QueueFacts DEF Steady, WorkersOK, LocalTypeOK, Queue!QueueTypeOK
<1>1. fate' = fate => Goal
  OBVIOUS
<1>2. ASSUME NEW p \in Payment, ApiNext(p)
      PROVE  Goal
  <2>1. Publish(p) => Goal
    BY <1>0 DEF Publish, Queue!Publish
  <2>2. ASSUME NEW s \in User, NEW r \in User, NEW a \in Amount,
               Commit(p, s, r, a) \/ CommitUnheard(p, s, r, a)
        PROVE  fate' = fate
    BY <2>2 DEF Commit, CommitUnheard, queueVars
  <2>3. PublishVanishes(p) \/ PublishFails(p) => fate' = fate
    BY DEF PublishVanishes, PublishFails, queueVars
  <2> QED
    BY <1>1, <1>2, <2>1, <2>2, <2>3 DEF ApiNext
<1>3. PublisherLost \/ ApiRestart => fate' = fate
  BY DEF PublisherLost, ApiRestart, queueVars
<1>4. ASSUME NEW p \in Payment, NEW b \in Banker, NEW st \in Decision, Decide(p, b, st)
      PROVE  fate' = fate
  BY <1>4 DEF Decide, queueVars
<1>5. ASSUME NEW w \in Worker, Ack(w)
      PROVE  Goal
  BY <1>0, <1>5 DEF Ack, Queue!Ack, Queue!Stale
<1>6. ASSUME NEW w \in Worker, Start(w) \/ Deliver(w) \/ Take(w) \/ Requeue(w) \/ Stop(w)
      PROVE  fate' = fate
  BY <1>6 DEF Start, Deliver, Take, Requeue, Stop, Queue!Subscribe, Queue!Deliver,
              Queue!Take, Queue!Requeue, Queue!Stale, Queue!Exit, Queue!Return
<1>7. ASSUME NEW w \in Worker,
             Load(w) \/ Submit(w) \/ Scored(w) \/ RateLimited(w) \/ Apply(w) \/ Disturb(w)
      PROVE  fate' = fate
  BY <1>7 DEF Load, Submit, Scored, RateLimited, Apply, Disturb, ApplyUnheard, Fail,
              ChannelLost, Crash, queueVars, Queue!ChannelLost, Queue!Exit, Queue!Return
<1>8. CASE UNCHANGED vars
  BY <1>8 DEF vars, queueVars
<1> QED
  BY <1>1, <1>2, <1>3, <1>4, <1>5, <1>6, <1>7, <1>8 DEF PipelineNext, Advance

\* What a worker has in hand it had before, or took from the queue; and it comes
\* to acknowledge a job only by writing the result.
LEMMA HandChanges ==
  ASSUME Steady, [PipelineNext]_vars, NEW u \in Worker
  PROVE  /\ \/ hand'[u] \in {hand[u], NoPayment}
            \/ hand'[u] \in Payment /\ fate[hand'[u]] = "queued"
         /\ pc'[u] = "ack" => hand'[u] = hand[u] /\ (pc[u] = "ack" \/ Apply(u))
<1> DEFINE Goal == /\ \/ hand'[u] \in {hand[u], NoPayment}
                      \/ hand'[u] \in Payment /\ fate[hand'[u]] = "queued"
                   /\ pc'[u] = "ack" => hand'[u] = hand[u] /\ (pc[u] = "ack" \/ Apply(u))
<1>0. /\ LocalTypeOK /\ Queue!QueueTypeOK
      /\ \A p \in Payment : Queued(p) <=> fate[p] = "queued"
  BY QueueFacts DEF Steady, WorkersOK
<1>1. pc'[u] = pc[u] /\ hand'[u] = hand[u] => Goal
  OBVIOUS
<1>2. ASSUME NEW p \in Payment, ApiNext(p)
      PROVE  Goal
  <2>1. UNCHANGED <<pc, hand>>
    BY <1>2 DEF ApiNext, Commit, CommitUnheard, Publish, PublishVanishes, PublishFails,
                queueVars, workerVars, Queue!Publish
  <2> QED
    BY <1>1, <2>1
<1>3. PublisherLost \/ ApiRestart => Goal
  BY <1>1 DEF PublisherLost, ApiRestart, queueVars, workerVars
<1>4. ASSUME NEW p \in Payment, NEW b \in Banker, NEW st \in Decision, Decide(p, b, st)
      PROVE  Goal
  BY <1>1, <1>4 DEF Decide, queueVars, workerVars
<1>5. ASSUME NEW w \in Worker, w # u,
             Start(w) \/ Deliver(w) \/ Advance(w) \/ Disturb(w) \/ Stop(w)
      PROVE  Goal
  BY <1>0, <1>1, <1>5, OthersKeep
<1>6. ASSUME Take(u)
      PROVE  Goal
  <2>1. /\ unacked[u] \in Seq(Payment) /\ unacked[u] # <<>>
        /\ hand'[u] = Head(unacked[u]) /\ pc'[u] = "load"
    BY <1>0, <1>6 DEF Take, Goto, Queue!Take, Queue!Receives, Queue!QueueTypeOK, LocalTypeOK
  <2>2. hand'[u] \in Payment /\ hand'[u] \in Queue!Owed(u)
    BY <2>1, HeadTailProperties DEF Queue!Owed, Queue!Range
  <2> QED
    BY <1>0, <2>1, <2>2 DEF Queued
<1>7. ASSUME Start(u) \/ Ack(u) \/ Requeue(u) \/ Crash(u) \/ Stop(u)
      PROVE  Goal
  <2>1. pc'[u] \in {"idle", "down"}
    BY <1>0, <1>7 DEF Start, Ack, Requeue, Crash, Stop, Goto, LocalTypeOK
  <2>2. hand'[u] \in {hand[u], NoPayment}
    BY <1>0, <1>7 DEF Start, Ack, Requeue, Crash, Stop, Queue!Subscribe, Queue!Ack,
                      Queue!Requeue, Queue!Exit, Queue!QueueTypeOK
  <2> QED
    BY <2>1, <2>2
<1>8. ASSUME Load(u) \/ Submit(u) \/ Scored(u) \/ RateLimited(u)
               \/ ApplyUnheard(u) \/ Fail(u)
      PROVE  Goal
  <2>1. hand' = hand /\ pc'[u] # "ack"
    BY <1>0, <1>8 DEF Load, Submit, Scored, RateLimited, ApplyUnheard, Fail, Goto,
                      queueVars, LocalTypeOK
  <2> QED
    BY <2>1
<1>9. Apply(u) => Goal
  BY DEF Apply, queueVars
<1>10. Deliver(u) \/ ChannelLost(u) => Goal
  BY DEF Deliver, ChannelLost, workerVars, Queue!Deliver, Queue!ChannelLost
<1>11. CASE UNCHANGED vars
  BY <1>1, <1>11 DEF vars, queueVars, workerVars
<1> QED
  BY <1>2, <1>3, <1>4, <1>5, <1>6, <1>7, <1>8, <1>9, <1>10, <1>11
  DEF PipelineNext, Advance, Disturb

\* A request leaves "none" only by the commit of its payment, and none returns
\* there; 201 is the answer to a message written, or thought to be written.
LEMMA RequestChanges ==
  ASSUME Steady, [PipelineNext]_vars, NEW q \in Payment
  PROVE  /\ request[q] # "none" => request'[q] # "none"
         /\ request[q] = "none" /\ request'[q] # "none" => payments'[q].status = "PENDING"
         /\ request[q] # "201" /\ request'[q] = "201" =>
              request[q] = "publish" /\ (fate'[q] = "queued" \/ PublishMayVanish)
<1> DEFINE Goal == /\ request[q] # "none" => request'[q] # "none"
                   /\ request[q] = "none" /\ request'[q] # "none" =>
                        payments'[q].status = "PENDING"
                   /\ request[q] # "201" /\ request'[q] = "201" =>
                        request[q] = "publish" /\ (fate'[q] = "queued" \/ PublishMayVanish)
<1>0. /\ request \in [Payment -> {"none", "publish", "201", "202", "400", "cut"}]
      /\ payments \in [Payment -> Row]
      /\ fate \in [Payment -> {"unsent", "queued", "acked", "dropped"}]
  BY QueueFacts DEF Steady, WorkersOK, LocalTypeOK, StoreTypeOK, Queue!QueueTypeOK
<1>1. request' = request => Goal
  OBVIOUS
<1>2. ASSUME NEW p \in Payment, NEW s \in User, NEW r \in User, NEW a \in Amount,
             Commit(p, s, r, a) \/ CommitUnheard(p, s, r, a)
      PROVE  Goal
  BY <1>0, <1>2 DEF Commit, CommitUnheard, CreatePayment, NewRow
<1>3. ASSUME NEW p \in Payment, Publish(p) \/ PublishVanishes(p) \/ PublishFails(p)
      PROVE  Goal
  BY <1>0, <1>3 DEF Publish, PublishVanishes, PublishFails, Queue!Publish
<1>4. PublisherLost \/ ApiRestart => Goal
  BY <1>0 DEF PublisherLost, ApiRestart
<1>5. ASSUME NEW p \in Payment, NEW b \in Banker, NEW st \in Decision, Decide(p, b, st)
      PROVE  request' = request
  BY <1>5 DEF Decide, apiVars
<1>6. ASSUME NEW w \in Worker,
             Start(w) \/ Deliver(w) \/ Advance(w) \/ Disturb(w) \/ Stop(w)
      PROVE  request' = request
  BY <1>6 DEF Start, Deliver, Advance, Disturb, Stop, Take, Load, Submit, Scored,
              RateLimited, Apply, Ack, Requeue, ApplyUnheard, Fail, ChannelLost, Crash, apiVars
<1>7. CASE UNCHANGED vars
  BY <1>7 DEF vars, apiVars
<1> QED
  BY <1>1, <1>2, <1>3, <1>4, <1>5, <1>6, <1>7 DEF PipelineNext, ApiNext

\* Who writes a row: the API that inserts it, a banker, or the worker that has
\* the answer of processing.
LEMMA RowChanges ==
  ASSUME Steady, [PipelineNext]_vars, NEW q \in Payment
  PROVE  \/ payments'[q] = payments[q]
         \/ ~ payments'[q].processed
         \/ payments'[q].approved_by # NoUser
         \/ \E w \in Worker : /\ pc[w] = "apply" /\ hand[w] = q
                              /\ payments'[q].status = result[w]
<1> DEFINE Goal == \/ payments'[q] = payments[q]
                   \/ ~ payments'[q].processed
                   \/ payments'[q].approved_by # NoUser
                   \/ \E w \in Worker : /\ pc[w] = "apply" /\ hand[w] = q
                                        /\ payments'[q].status = result[w]
<1>0. payments \in [Payment -> Row]
  BY DEF Steady, StoreTypeOK
<1>1. payments' = payments => Goal
  OBVIOUS
<1>2. ASSUME NEW p \in Payment, NEW s \in User, NEW r \in User, NEW a \in Amount,
             CreatePayment(p, s, r, a)
      PROVE  Goal
  BY <1>0, <1>2 DEF CreatePayment, NewRow
<1>3. ASSUME NEW p \in Payment, NEW b \in Banker, NEW st \in Decision, Decide(p, b, st)
      PROVE  Goal
  <2>1. CASE p = q
    <3>1. payments'[q] = Decided(payments[q], b, st)
      BY <1>0, <1>3, <2>1 DEF Decide, DecidePayment
    <3>2. payments'[q].approved_by = b
      BY <1>0, <3>1 DEF Decided, Row
    <3> QED
      BY <3>2, StoreAssumption DEF StoreAssumption
  <2>2. CASE p # q
    BY <1>0, <1>3, <2>2 DEF Decide, DecidePayment
  <2> QED
    BY <2>1, <2>2
<1>4. ASSUME NEW w \in Worker, Apply(w) \/ ApplyUnheard(w)
      PROVE  Goal
  <2>1. /\ pc[w] = "apply" /\ ApplyProcessingResult(hand[w], result[w])
        /\ hand[w] \in Payment
    BY <1>4 DEF Apply, ApplyUnheard, Steady, WorkersOK, WorkerOK, Working
  <2>2. CASE hand[w] = q /\ payments[q].status = "PENDING"
    <3>1. payments'[q] = Processed(payments[q], result[w])
      BY <1>0, <2>1, <2>2 DEF ApplyProcessingResult
    <3>2. payments'[q].status = result[w]
      BY <1>0, <3>1 DEF Processed, Row
    <3> QED
      BY <2>1, <2>2, <3>2
  <2>3. CASE hand[w] # q \/ payments[q].status # "PENDING"
    BY <1>0, <2>1, <2>3 DEF ApplyProcessingResult
  <2> QED
    BY <2>2, <2>3
<1>5. ASSUME NEW p \in Payment, ApiNext(p)
      PROVE  Goal
  <2>1. Publish(p) \/ PublishVanishes(p) \/ PublishFails(p) => payments' = payments
    BY DEF Publish, PublishVanishes, PublishFails, storeVars
  <2> QED
    BY <1>1, <1>2, <1>5, <2>1 DEF ApiNext, Commit, CommitUnheard
<1>6. PublisherLost \/ ApiRestart => payments' = payments
  BY DEF PublisherLost, ApiRestart, storeVars
<1>7. ASSUME NEW w \in Worker,
             Start(w) \/ Deliver(w) \/ Advance(w) \/ Disturb(w) \/ Stop(w)
      PROVE  Goal
  BY <1>1, <1>4, <1>7
  DEF Advance, Disturb, Start, Deliver, Stop, Take, Load, Submit, Scored, RateLimited,
      Ack, Requeue, Fail, ChannelLost, Crash, storeVars
<1>8. CASE UNCHANGED vars
  BY <1>8 DEF vars, storeVars
<1> QED
  BY <1>1, <1>3, <1>5, <1>6, <1>7, <1>8 DEF PipelineNext

-----------------------------------------------------------------------------
\* The invariant behind the properties of the pipeline.  A job exists only for a
\* committed payment; it is forgotten only after the row has been processed; a
\* worker about to acknowledge has seen to that; and the status that a worker
\* wrote stands for what processing decided.
SentOK(p) ==
  /\ request[p] # "none" => payments[p].status # "ABSENT"
  /\ request[p] = "none" => fate[p] = "unsent"
  /\ fate[p] # "dropped"
  /\ fate[p] = "acked" => payments[p].processed
  /\ request[p] = "201" /\ ~ PublishMayVanish => fate[p] # "unsent"
  /\ ByWorker(p) => Matches(payments[p].status, p)

HeldOK(w) ==
  /\ hand[w] # NoPayment => fate[hand[w]] # "unsent"
  /\ pc[w] = "ack" => payments[hand[w]].processed

LinkOK == /\ \A p \in Payment : SentOK(p)
          /\ \A w \in Worker : HeldOK(w)

\* A step keeps what ties the job of a payment to its request and its row.
LEMMA SentStep ==
  ASSUME Steady, LinkOK, [PipelineNext]_vars, NEW q \in Payment
  PROVE  SentOK(q)'
<1>0. /\ SentOK(q) /\ payments[q] \in Row /\ fate[q] \in {"unsent", "queued", "acked", "dropped"}
      /\ payments[q].status = "ABSENT" => payments[q] = Absent
      /\ request[q] \in {"none", "publish", "201", "202", "400", "cut"}
  BY QueueFacts
  DEF LinkOK, Steady, WorkersOK, LocalTypeOK, StoreTypeOK, RowsOK, Queue!QueueTypeOK
<1>1. /\ payments[q].processed => payments'[q].processed
      /\ payments[q].status # "ABSENT" => payments'[q].status # "ABSENT"
      /\ payments'[q].status = "ABSENT" => payments'[q] = Absent
      /\ payments'[q] \in Row
  BY PipelineStepsStore, RowsStep, StoreTypeStep DEF Steady, StoreTypeOK
<1>2. request'[q] # "none" => payments'[q].status # "ABSENT"
  BY <1>0, <1>1, RequestChanges DEF SentOK
<1>3. request'[q] = "none" => fate'[q] = "unsent"
  <2> SUFFICES ASSUME request'[q] = "none" PROVE fate'[q] = "unsent"
    OBVIOUS
  <2>1. request[q] = "none" /\ fate[q] = "unsent"
    BY <1>0, RequestChanges DEF SentOK
  <2>2. ~ \E w \in Worker : pc[w] = "ack" /\ hand[w] = q
    BY <2>1, PipelineAssumption DEF LinkOK, HeldOK, PipelineAssumption
  <2> QED
    BY <2>1, <2>2, FateChanges
<1>4. fate'[q] # "dropped"
  BY <1>0, FateChanges DEF SentOK
<1>5. fate'[q] = "acked" => payments'[q].processed
  <2>1. fate[q] = "acked" => payments[q].processed
    BY <1>0 DEF SentOK
  <2>2. \A w \in Worker : pc[w] = "ack" /\ hand[w] = q => payments[q].processed
    BY DEF LinkOK, HeldOK
  <2> QED
    BY <1>1, <2>1, <2>2, FateChanges
<1>6. request'[q] = "201" /\ ~ PublishMayVanish => fate'[q] # "unsent"
  BY <1>0, RequestChanges, FateChanges DEF SentOK
<1>7. ASSUME payments'[q].processed, payments'[q].approved_by = NoUser
      PROVE  Stands(payments'[q].status, outcome'[q], q \in limited')
  <2>1. payments'[q].status \in ResultStatus
    BY <1>1, <1>7 DEF Row, Absent
  <2>2. Stands(payments'[q].status, outcome[q], q \in limited)
    <3>1. CASE payments'[q] = payments[q]
      BY <1>0, <1>7, <3>1 DEF SentOK, ByWorker, Matches
    <3>2. CASE payments'[q] # payments[q]
      <4>1. PICK w \in Worker : /\ pc[w] = "apply" /\ hand[w] = q
                                /\ payments'[q].status = result[w]
        BY <1>7, <3>2, RowChanges
      <4> QED
        BY <4>1 DEF Steady, WorkersOK, WorkerOK, Matches
    <3> QED
      BY <3>1, <3>2
  <2> QED
    BY <2>1, <2>2, DecidedOnce DEF Steady, Stands, ResultStatus
<1> QED
  BY <1>2, <1>3, <1>4, <1>5, <1>6, <1>7 DEF SentOK, ByWorker, Matches

\* A step keeps what ties the job in a hand to its fate and its row.
LEMMA HeldStep ==
  ASSUME Steady, LinkOK, [PipelineNext]_vars, NEW u \in Worker
  PROVE  HeldOK(u)'
<1>0. /\ HeldOK(u) /\ WorkerOK(u) /\ hand[u] \in Payment \cup {NoPayment}
      /\ \A p \in Payment : fate[p] # "unsent" => fate'[p] # "unsent"
  <2>1. hand[u] \in Payment \cup {NoPayment}
    BY QueueFacts DEF Steady, Queue!QueueTypeOK
  <2> QED
    BY <2>1, FateChanges DEF LinkOK, Steady, WorkersOK
<1>1. hand'[u] # NoPayment => fate'[hand'[u]] # "unsent"
  BY <1>0, HandChanges DEF HeldOK
<1>2. ASSUME pc'[u] = "ack"
      PROVE  payments'[hand'[u]].processed
  <2>1. hand'[u] = hand[u] /\ (pc[u] = "ack" \/ Apply(u)) /\ hand[u] \in Payment
    BY <1>0, <1>2, HandChanges DEF WorkerOK, Working, Apply
  <2>2. CASE pc[u] = "ack"
    <3>1. payments[hand[u]].processed
      BY <1>0, <2>2 DEF HeldOK
    <3> QED
      BY <2>1, <3>1, PipelineStepsStore, RowsStep DEF Steady
  <2>3. CASE Apply(u)
    <3> DEFINE p == hand[u]
    <3>1. /\ payments \in [Payment -> Row] /\ p \in Payment /\ payments[p] \in Row
          /\ ApplyProcessingResult(p, result[u])
      BY <2>1, <2>3 DEF Apply, Steady, StoreTypeOK
    <3>2. payments[p].status # "ABSENT"
      BY <1>0, <2>1, PipelineAssumption DEF HeldOK, LinkOK, SentOK, PipelineAssumption
    <3>3. CASE payments[p].status = "PENDING"
      <4>1. payments'[p] = Processed(payments[p], result[u])
        BY <3>1, <3>3 DEF ApplyProcessingResult
      <4>2. payments'[p].processed = TRUE
        BY <3>1, <4>1 DEF Processed, Row
      <4> QED
        BY <2>1, <4>2
    <3>4. CASE payments[p].status # "PENDING"
      <4>1. payments[p].status \in Final
        BY <3>1, <3>2, <3>4 DEF Row, ResultStatus, Final
      <4>2. payments[p].processed /\ payments' = payments
        BY <3>1, <3>4, <4>1 DEF Steady, RowsOK, ApplyProcessingResult
      <4> QED
        BY <2>1, <4>2
    <3> QED
      BY <3>3, <3>4
  <2> QED
    BY <2>1, <2>2, <2>3
<1> QED
  BY <1>1, <1>2 DEF HeldOK

\* Requests, jobs, workers and rows fit together in every state.
LEMMA AlwaysLinked == PipelineSpec => [](Steady /\ LinkOK)
<1>1. PipelineInit => LinkOK
  BY DEF PipelineInit, StoreInit, Queue!QueueInit, LinkOK, SentOK, HeldOK, ByWorker, Absent
<1>2. Steady /\ LinkOK /\ [PipelineNext]_vars => LinkOK'
  BY SentStep, HeldStep DEF LinkOK
<1> QED
  BY <1>1, <1>2, AlwaysSteady, PTL DEF PipelineSpec

\* A worker never meets a job without a row, in whatever order requests,
\* failures and workers come.
THEOREM JobsHavePayments == PipelineSpec => []JobHasPayment
<1>1. Steady /\ LinkOK => JobHasPayment
  <2> SUFFICES ASSUME Steady, LinkOK, NEW p \in Payment,
                      Queued(p) \/ \E w \in Worker : hand[w] = p
               PROVE  payments[p].status # "ABSENT"
    BY DEF JobHasPayment
  <2>1. fate[p] # "unsent"
    <3>1. Queued(p) => fate[p] = "queued"
      BY QueueFacts DEF Steady
    <3>2. (\E w \in Worker : hand[w] = p) => fate[p] # "unsent"
      BY PipelineAssumption DEF LinkOK, HeldOK, PipelineAssumption
    <3> QED
      BY <3>1, <3>2
  <2> QED
    BY <2>1 DEF LinkOK, SentOK
<1> QED
  BY <1>1, AlwaysLinked, PTL

\* The broker forgets a job only when its payment has been processed, however
\* many workers and failures there are.
THEOREM ForgottenIsProcessed == PipelineSpec => []AckedIsProcessed
<1>1. LinkOK => AckedIsProcessed
  BY DEF LinkOK, SentOK, AckedIsProcessed
<1> QED
  BY <1>1, AlwaysLinked, PTL

\* A payment answered with 201 is in the queue until it is processed, unless the
\* broker may lose what the API sends it.
THEOREM CreatedIsNeverForgotten ==
  ASSUME ~ PublishMayVanish
  PROVE  PipelineSpec => []CreatedIsQueuedOrProcessed
<1>1. Steady /\ LinkOK => CreatedIsQueuedOrProcessed
  <2> SUFFICES ASSUME Steady, LinkOK, NEW p \in Payment, request[p] = "201"
               PROVE  Queued(p) \/ payments[p].processed
    BY DEF CreatedIsQueuedOrProcessed
  <2>1. /\ fate[p] \in {"unsent", "queued", "acked", "dropped"}
        /\ Queued(p) <=> fate[p] = "queued"
    BY QueueFacts DEF Steady, Queue!QueueTypeOK
  <2> QED
    BY <2>1 DEF LinkOK, SentOK
<1> QED
  BY <1>1, AlwaysLinked, PTL

\* What the workers write is what processing decided, or a refusal after 429.
THEOREM WrittenIsOutcome == PipelineSpec => []VerdictIsOutcome
<1>1. Steady /\ LinkOK => VerdictIsOutcome
  <2> SUFFICES ASSUME Steady, LinkOK PROVE VerdictIsOutcome
    OBVIOUS
  <2>1. \A p \in Payment : ByWorker(p) => Stands(payments[p].status, outcome[p], p \in limited)
    BY DEF LinkOK, SentOK, Matches
  <2>2. \A p \in Payment : ByWorker(p) => payments[p].status \in ResultStatus
    BY DEF Steady, StoreTypeOK, RowsOK, ByWorker, Row, Absent
  <2> QED
    BY <2>1, <2>2 DEF VerdictIsOutcome, Stands, ResultStatus
<1> QED
  BY <1>1, AlwaysLinked, PTL
=============================================================================
