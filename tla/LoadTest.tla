------------------------------- MODULE LoadTest -------------------------------
(***************************************************************************)
(* cmd/loadtest/main.go against the API: goroutines that share a channel   *)
(* of jobs and a slice of results create payments and then poll them until *)
(* they are processed, while the overall timeout may pass at any moment.   *)
(* Each request passes through the handler and through metricsMiddleware,  *)
(* and its small answer leaves the server after both.                      *)
(*                                                                         *)
(* Abstracted: the goroutines are the number of jobs under way; handlers,  *)
(* workers and bankers are what they do to a payment; a registration is  *)
(* one step.  Only the counters of POST requests are kept.                 *)
(***************************************************************************)
EXTENDS Metrics

CONSTANTS
  Users,            \* pairs of a sender and a recipient
  Job,              \* payments to create
  Concurrency,      \* goroutines that create payments
  WaitConcurrency,  \* goroutines that wait for them
  WaitProcessing,   \* the flag wait-processing
  MaxFaults         \* failed requests in a behaviour

ASSUME LoadAssumption ==
  /\ {Users, Concurrency, WaitConcurrency} \subseteq Nat \ {0} /\ IsFiniteSet(Job)
  /\ WaitProcessing \in BOOLEAN
  /\ Label = {"register", "Post201", "Post202", "Post400"}

VARIABLES
  registered,   \* users registered so far
  phase,        \* what main is doing
  late,         \* the context has timed out
  at,           \* where the loop body of each job is
  server,       \* where its request is in the API
  answer,       \* what the handler answered
  row,          \* the payment in the tables
  posted,       \* results of createPayments
  waited,       \* results of waitPaymentsProcessed
  faults        \* the failures so far

loadVars == <<registered, phase, late, at, server, answer, row, posted, waited, faults>>
vars == <<metricsVars, loadVars>>

NoResult == "none"
PostAnswer == {"201", "202", "400"}

\* Answers to GET are counted as well; their counters, which grow with every
\* poll, are left out.
LabelOf(a) ==
  CASE a = "201" -> "Post201" [] a = "202" -> "Post202" [] a = "400" -> "Post400"
    [] OTHER -> "GET"

LoadInit ==
  /\ MetricsInit
  /\ registered = 0 /\ phase = "start" /\ late = FALSE
  /\ at = [j \in Job |-> "queued"]
  /\ server = [j \in Job |-> "none"]
  /\ answer = [j \in Job |-> NoResult]
  /\ row = [j \in Job |-> "ABSENT"]
  /\ posted = [j \in Job |-> NoResult]
  /\ waited = [j \in Job |-> NoResult]
  /\ faults = 0

Broken == faults < MaxFaults /\ faults' = faults + 1
LateOrBroken == (late /\ UNCHANGED faults) \/ Broken
created == {j \in Job : posted[j] = "201"}
Current == IF phase = "create" THEN Job ELSE created
Limit == IF phase = "create" THEN Concurrency ELSE WaitConcurrency
UnderWay == {j \in Current : at[j] \in {"calling", "ticking"}}
-----------------------------------------------------------------------------
\* The API has answered waitForAPI; createUserPairs registers a recipient and a
\* sender for each pair, one after the other.
Register ==
  /\ phase = "start" /\ ~late
  /\ observe("register")
  /\ registered' = registered + 1
  /\ phase' = IF registered' = 2 * Users THEN "create" ELSE phase
  /\ UNCHANGED <<late, at, server, answer, row, posted, waited, faults>>

\* main ends at the first failure of either.
NotReady ==
  /\ phase = "start"
  /\ LateOrBroken
  /\ phase' = "fatal"
  /\ UNCHANGED <<metricsVars, registered, late, at, server, answer, row, posted, waited>>

\* A mutant: each goroutine receives one job and returns.
HandOnce(j) ==
  /\ phase \in {"create", "wait"} /\ j \in Current /\ at[j] = "queued"
  /\ Cardinality({i \in Current : at[i] # "queued"}) < Limit
  /\ at' = [at EXCEPT ![j] = "calling"]
  /\ UNCHANGED <<metricsVars, registered, phase, late, server, answer, row, posted, waited, faults>>

\* The unbuffered channel gives a job to a goroutine that is free.
Hand(j) ==
  /\ phase \in {"create", "wait"} /\ j \in Current /\ at[j] = "queued"
  /\ Cardinality(UnderWay) < Limit
  /\ at' = [at EXCEPT ![j] = "calling"]
  /\ UNCHANGED <<metricsVars, registered, phase, late, server, answer, row, posted, waited, faults>>

\* doJSON under a context that is still alive.
Send(j) ==
  /\ at[j] = "calling" /\ ~late /\ server[j] = "none"
  /\ server' = [server EXCEPT ![j] = "handling"]
  /\ UNCHANGED <<metricsVars, registered, phase, late, at, answer, row, posted, waited, faults>>

\* createPayment: 202 is a payment whose job could not be published.
HandlePost(j, a) ==
  /\ server[j] = "handling" /\ posted[j] # "201"
  /\ row' = [row EXCEPT ![j] = IF a = "400" THEN @ ELSE "PENDING"]
  /\ answer' = [answer EXCEPT ![j] = a]
  /\ server' = [server EXCEPT ![j] = "handled"]
  /\ IF a = "201" THEN UNCHANGED faults ELSE Broken
  /\ UNCHANGED <<metricsVars, registered, phase, late, at, posted, waited>>

\* getPayment.
HandleGet(j) ==
  /\ server[j] = "handling" /\ posted[j] = "201"
  /\ \/ /\ answer' = [answer EXCEPT ![j] = row[j]]
        /\ UNCHANGED faults
     \/ /\ answer' = [answer EXCEPT ![j] = "500"]
        /\ Broken
  /\ server' = [server EXCEPT ![j] = "handled"]
  /\ UNCHANGED <<metricsVars, registered, phase, late, at, row, posted, waited>>

\* A mutant: requests that fail are not counted.
CountSuccess(j) ==
  /\ server[j] = "handled"
  /\ IF answer[j] \in {"400", "500"} THEN UNCHANGED metricsVars
                                    ELSE observe(LabelOf(answer[j]))
  /\ server' = [server EXCEPT ![j] = "counted"]
  /\ UNCHANGED <<registered, phase, late, at, answer, row, posted, waited, faults>>

\* metricsMiddleware, once the handler has returned.
Count(j) ==
  /\ server[j] = "handled"
  /\ observe(LabelOf(answer[j]))
  /\ server' = [server EXCEPT ![j] = "counted"]
  /\ UNCHANGED <<registered, phase, late, at, answer, row, posted, waited, faults>>

\* A worker or a banker.
Process(j) ==
  /\ row[j] = "PENDING"
  /\ row' = [row EXCEPT ![j] = "PROCESSED"]
  /\ UNCHANGED <<metricsVars, registered, phase, late, at, server, answer, posted, waited, faults>>
-----------------------------------------------------------------------------
\* The goroutine appends the result to the slice under the mutex.
Record(j, result) ==
  /\ at' = [at EXCEPT ![j] = "recorded"]
  /\ IF phase = "create"
       THEN posted' = [posted EXCEPT ![j] = result] /\ UNCHANGED waited
       ELSE waited' = [waited EXCEPT ![j] = result] /\ UNCHANGED posted

\* The answer leaves the server.
Leaves(j) ==
  /\ server[j] = "counted"
  /\ server' = [server EXCEPT ![j] = "none"]
  /\ answer' = [answer EXCEPT ![j] = NoResult]
  /\ UNCHANGED <<metricsVars, registered, phase, late, row, faults>>

\* A mutant: a poll that is answered with 200 ends the wait.
HearAnything(j) == at[j] = "calling" /\ Leaves(j) /\ Record(j, answer[j])

\* A payment seen PENDING is polled again; any other answer is the result.
Hear(j) ==
  /\ at[j] = "calling" /\ Leaves(j)
  /\ \/ /\ answer[j] = "PENDING"
        /\ at' = [at EXCEPT ![j] = "ticking"]
        /\ UNCHANGED <<posted, waited>>
     \/ /\ answer[j] # "PENDING"
        /\ Record(j, answer[j])

\* A mutant: a job whose request failed is left out of the results.
CallFailsUnrecorded(j) ==
  /\ at[j] = "calling"
  /\ LateOrBroken
  /\ at' = [at EXCEPT ![j] = "recorded"]
  /\ UNCHANGED <<metricsVars, registered, phase, late, server, answer, row, posted, waited>>

\* The request or its answer is lost, the client's own timeout passes, or the
\* context ends the call.  The API may be handling the request still.
CallFails(j) ==
  /\ at[j] = "calling"
  /\ LateOrBroken
  /\ Record(j, "error")
  /\ UNCHANGED <<metricsVars, registered, phase, late, server, answer, row>>

\* An answer that nobody waits for any more.
Discard(j) == at[j] # "calling" /\ Leaves(j) /\ UNCHANGED <<at, posted, waited>>

Tick(j) ==
  /\ at[j] = "ticking"
  /\ at' = [at EXCEPT ![j] = "calling"]
  /\ UNCHANGED <<metricsVars, registered, phase, late, server, answer, row, posted, waited, faults>>

\* The context is looked at before a poll and while waiting for the next.
TimeOut(j) ==
  /\ phase = "wait" /\ late
  /\ at[j] = "ticking" \/ (at[j] = "calling" /\ server[j] = "none")
  /\ Record(j, "408")
  /\ UNCHANGED <<metricsVars, registered, phase, late, server, answer, row, faults>>

Expire ==
  /\ ~late /\ late' = TRUE
  /\ UNCHANGED <<metricsVars, registered, phase, at, server, answer, row, posted, waited, faults>>

\* Wait returns when the goroutines of a phase have recorded all their jobs.
EndPhase ==
  /\ phase \in {"create", "wait"}
  /\ \A j \in Current : at[j] = "recorded"
  /\ IF phase = "create" /\ WaitProcessing
       THEN phase' = "wait" /\ at' = [j \in Job |-> IF j \in created THEN "queued" ELSE at[j]]
       ELSE phase' = "done" /\ UNCHANGED at
  /\ UNCHANGED <<metricsVars, registered, late, server, answer, row, posted, waited, faults>>
-----------------------------------------------------------------------------
Serve(j) == (\E a \in PostAnswer : HandlePost(j, a)) \/ HandleGet(j) \/ Count(j)
Goroutine(j) == Hand(j) \/ Send(j) \/ Hear(j) \/ CallFails(j) \/ Tick(j) \/ TimeOut(j)

LoadNext ==
  \/ Register \/ NotReady \/ Expire \/ EndPhase
  \/ \E j \in Job : Serve(j) \/ Goroutine(j) \/ Process(j) \/ Discard(j)
  \/ (\E s \in Scrape : ScrapeStep(s)) /\ UNCHANGED loadVars

LoadSpec == LoadInit /\ [][LoadNext]_vars

\* The context times out, the program runs, the API's threads run, and it cuts
\* off scrapes.  Nobody has to read a page or process a payment.
FairLoadSpec ==
  /\ LoadSpec
  /\ WF_vars(Register \/ NotReady) /\ WF_vars(Expire) /\ WF_vars(EndPhase)
  /\ \A j \in Job : WF_vars(Serve(j)) /\ WF_vars(Goroutine(j))
  /\ \A s \in Scrape : WF_vars(Cut(s) /\ UNCHANGED loadVars)
-----------------------------------------------------------------------------
Failed(result) == result \in {"400", "500", "408", "error"}
Succeeds == phase = "done" /\ \A j \in Job : ~Failed(posted[j]) /\ ~Failed(waited[j])

LoadTypeOK ==
  /\ requests \in [Label -> Nat] /\ page \in [Scrape -> [Label -> Nat]]
  /\ holder \in Scrape \cup {NoScrape}
  /\ \A s \in Scrape : stage[s] = "writing" <=> holder = s
  /\ phase \in {"start", "create", "wait", "done", "fatal"}
  /\ at \in [Job -> {"queued", "calling", "ticking", "recorded"}]
  /\ server \in [Job -> {"none", "handling", "handled", "counted"}]
  /\ \A j \in Job : posted[j] \in PostAnswer \cup {NoResult, "error"}
  /\ \A j \in Job : waited[j] \in {NoResult, "PROCESSED", "500", "408", "error"}
  /\ registered \in 0 .. 2 * Users /\ Cardinality(UnderWay) <= Limit

\* The counters and the client agree: every answer the load test has recorded
\* was counted before it left the API, and no creation is counted whose payment is
\* not in the tables.
AnsweredIsCounted ==
  /\ requests["Post201"] + requests["Post202"] <=
       Cardinality({j \in Job : row[j] # "ABSENT"})
  /\ \A a \in PostAnswer :
       Cardinality({j \in Job : posted[j] = a}) <= requests[LabelOf(a)]

\* No job gets lost between the goroutines: when main counts the failures there
\* is a result for every payment to create, and for every created one that was
\* waited for, whatever failed and whenever the context timed out.
ResultsComplete ==
  /\ phase \in {"wait", "done"} => \A j \in Job : posted[j] # NoResult
  /\ phase = "done" /\ WaitProcessing => \A j \in created : waited[j] # NoResult

\* A load test that waits and reports no failure has seen all its payments
\* processed, except those answered with 202, which count as successes and are
\* not waited for.
CleanRunIsProcessed ==
  Succeeds /\ WaitProcessing =>
    \A j \in Job : row[j] = "PROCESSED" \/ posted[j] = "202"

\* The load test ends, whatever is never processed and however long a scrape
\* stalls the API.
LoadEnds == <>(phase \in {"done", "fatal"})

\* A request that has been handled is counted in the end, so that its answer
\* can leave: a scrape that nobody reads delays it, and no more.
HandledIsCounted == \A j \in Job : server[j] = "handled" ~> server[j] = "counted"
=============================================================================
