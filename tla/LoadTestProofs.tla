----------------------------- MODULE LoadTestProofs -----------------------------
(***************************************************************************)
(* Theorems about Metrics and LoadTest, for any number of users, payments, *)
(* goroutines and scrapes: pages of counters are moments of one history,   *)
(* and the counters, the client's results and the tables agree.            *)
(*                                                                         *)
(* The load test implements Metrics, so what is proved of the counters     *)
(* there holds under its traffic.  Its own inductive invariant says where  *)
(* a job can be in each phase, what its request in the API has been        *)
(* answered, and which jobs the counters have counted.                     *)
(***************************************************************************)
EXTENDS LoadTest, FiniteSetTheorems, TLAPS

-----------------------------------------------------------------------------
\* Lines of a page that is being written are those of this moment, since no
\* request is counted meanwhile; a full page is one that has been.
MetricsInv ==
  /\ requests \in [Label -> Nat] /\ page \in [Scrape -> [Label -> Nat]]
  /\ holder \in Scrape \cup {NoScrape}
  /\ stage \in [Scrape -> {"waiting", "writing", "full", "cut"}]
  /\ \A s \in Scrape :
       /\ stage[s] = "writing" <=> holder = s
       /\ stage[s] = "waiting" => page[s] = NoPage
       /\ stage[s] = "writing" => \A l \in Label : page[s][l] \in {0, requests[l]}
       /\ stage[s] = "full" => \A l \in Label : page[s][l] <= requests[l]
  /\ ScrapesAgree

\* A request is counted only while no scrape holds the mutex.
LEMMA ObserveStep ==
  ASSUME MetricsInv, NEW l, observe(l)
  PROVE  MetricsInv'
<1>0. /\ requests \in [Label -> Nat] /\ page \in [Scrape -> [Label -> Nat]]
      /\ holder = NoScrape /\ UNCHANGED <<holder, stage, page>>
  BY DEF MetricsInv, observe
<1>1. requests' \in [Label -> Nat] /\ \A k \in Label : requests[k] <= requests'[k]
  <2>1. requests' = [requests EXCEPT ![l] = @ + 1]
    BY DEF observe
  <2>2. \A k \in Label : requests'[k] = IF k = l THEN requests[k] + 1 ELSE requests[k]
    BY <1>0, <2>1
  <2>3. DOMAIN requests' = Label /\ requests' = [k \in Label |-> requests'[k]]
    BY <1>0, <2>1
  <2>4. \A k \in Label : requests'[k] \in Nat /\ requests[k] <= requests'[k]
    BY <1>0, <2>2
  <2> QED
    BY <2>3, <2>4
<1>2. \A s \in Scrape : stage[s] # "writing"
  BY <1>0, MetricsAssumption DEF MetricsInv, MetricsAssumption
<1>3. \A s \in Scrape : stage[s] = "full" => \A k \in Label : page[s][k] <= requests'[k]
  <2> SUFFICES ASSUME NEW s \in Scrape, stage[s] = "full", NEW k \in Label
               PROVE  page[s][k] <= requests'[k]
    OBVIOUS
  <2>1. page[s][k] \in Nat /\ requests[k] \in Nat /\ requests'[k] \in Nat
    BY <1>0, <1>1
  <2>2. page[s][k] <= requests[k] /\ requests[k] <= requests'[k]
    BY <1>1 DEF MetricsInv
  <2> QED
    BY <2>1, <2>2
<1>4. ScrapesAgree'
  BY <1>0 DEF MetricsInv, ScrapesAgree
<1> QED
  BY <1>0, <1>1, <1>2, <1>3, <1>4 DEF MetricsInv, NoPage

\* The page that ends shows every counter as it is, and so is at least as high
\* in every line as the pages that ended before.
LEMMA ScrapeInvStep ==
  ASSUME MetricsInv, NEW s \in Scrape, ScrapeStep(s)
  PROVE  MetricsInv'
<1>0. /\ requests \in [Label -> Nat] /\ page \in [Scrape -> [Label -> Nat]]
      /\ stage \in [Scrape -> {"waiting", "writing", "full", "cut"}]
      /\ NoPage \in [Label -> Nat] /\ NoScrape \notin Scrape
      /\ holder \in Scrape \cup {NoScrape}
      /\ \A t \in Scrape : stage[t] = "writing" <=> holder = t
  BY MetricsAssumption DEF MetricsInv, NoPage, MetricsAssumption
<1>1. CASE Lock(s)
  <2>1. /\ UNCHANGED <<requests, page>> /\ holder' = s /\ holder = NoScrape
        /\ stage' = [stage EXCEPT ![s] = "writing"] /\ page[s] = NoPage
    BY <1>1 DEF Lock, MetricsInv
  <2>2. \A t \in Scrape : stage'[t] = "full" <=> stage[t] = "full"
    BY <1>0, <1>1 DEF Lock
  <2>3. ScrapesAgree'
    BY <2>1, <2>2 DEF MetricsInv, ScrapesAgree
  <2>4. \A l \in Label : page[s][l] = 0
    BY <2>1 DEF NoPage
  <2>5. ASSUME NEW t \in Scrape
        PROVE  /\ stage'[t] = "writing" <=> holder' = t
               /\ stage'[t] = "waiting" => page'[t] = NoPage
               /\ stage'[t] = "writing" => \A l \in Label : page'[t][l] \in {0, requests'[l]}
               /\ stage'[t] = "full" => \A l \in Label : page'[t][l] <= requests'[l]
    BY <1>0, <2>1, <2>2, <2>4 DEF MetricsInv
  <2> QED
    BY <1>0, <2>1, <2>3, <2>5 DEF MetricsInv, NoPage
<1>2. CASE \E l \in Label : WriteLine(s, l)
  <2>1. PICK l \in Label : WriteLine(s, l)
    BY <1>2
  <2>2. /\ UNCHANGED <<requests, holder, stage>> /\ stage[s] = "writing"
        /\ page' \in [Scrape -> [Label -> Nat]]
        /\ \A t \in Scrape : t # s => page'[t] = page[t]
        /\ \A k \in Label : page'[s][k] = IF k = l THEN requests[l] ELSE page[s][k]
    BY <1>0, <2>1 DEF WriteLine
  <2>3. ScrapesAgree'
    BY <2>2 DEF MetricsInv, ScrapesAgree
  <2>4. ASSUME NEW t \in Scrape
        PROVE  /\ stage'[t] = "waiting" => page'[t] = NoPage
               /\ stage'[t] = "writing" => \A k \in Label : page'[t][k] \in {0, requests'[k]}
               /\ stage'[t] = "full" => \A k \in Label : page'[t][k] <= requests'[k]
    BY <1>0, <2>2 DEF MetricsInv
  <2> QED
    BY <1>0, <2>2, <2>3, <2>4 DEF MetricsInv, NoPage
<1>3. CASE EndPage(s)
  <2>1. /\ UNCHANGED <<requests, page>> /\ stage[s] = "writing" /\ holder = s
        /\ stage' = [stage EXCEPT ![s] = "full"] /\ holder' = NoScrape
    BY <1>0, <1>3 DEF EndPage, Unlock
  <2>2. \A l \in Label : page[s][l] = requests[l]
    <3> SUFFICES ASSUME NEW l \in Label
                 PROVE  page[s][l] = requests[l]
      OBVIOUS
    <3>1. page[s][l] \in {0, requests[l]} /\ requests[l] \in Nat
      BY <1>0, <2>1 DEF MetricsInv
    <3>2. ~ (requests[l] > 0 /\ page[s][l] = 0)
      BY <1>3 DEF EndPage, Unwritten
    <3> QED
      BY <3>1, <3>2
  <2>3. ASSUME NEW t \in Scrape
        PROVE  /\ stage'[t] = "writing" <=> holder' = t
               /\ stage'[t] = "waiting" => page'[t] = NoPage
               /\ stage'[t] = "writing" => \A k \in Label : page'[t][k] \in {0, requests'[k]}
               /\ stage'[t] = "full" => \A k \in Label : page'[t][k] <= requests'[k]
    <3>1. CASE t = s
      BY <1>0, <2>1, <2>2, <3>1
    <3>2. CASE t # s
      BY <1>0, <2>1, <3>2 DEF MetricsInv
    <3> QED
      BY <3>1, <3>2
  <2>4. ScrapesAgree'
    <3>1. \A t \in Scrape : stage'[t] = "full" => t = s \/ stage[t] = "full"
      BY <1>0, <2>1
    <3>2. \A t \in Scrape : stage'[t] = "full" => \A l \in Label : page[t][l] <= page[s][l]
      BY <2>1, <2>2, <2>3
    <3>3. \A t, u \in Scrape : stage[t] = "full" /\ stage[u] = "full" =>
            \/ \A l \in Label : page[t][l] <= page[u][l]
            \/ \A l \in Label : page[u][l] <= page[t][l]
      BY DEF MetricsInv, ScrapesAgree
    <3> QED
      BY <2>1, <3>1, <3>2, <3>3 DEF ScrapesAgree
  <2> QED
    BY <1>0, <2>1, <2>3, <2>4 DEF MetricsInv
<1>4. CASE Cut(s)
  <2>1. /\ UNCHANGED requests /\ stage[s] = "writing" /\ holder' = NoScrape
        /\ stage' = [stage EXCEPT ![s] = "cut"]
        /\ page' = [page EXCEPT ![s] = NoPage]
    BY <1>0, <1>4 DEF Cut, Unlock
  <2>2. \A t \in Scrape : t # s => stage'[t] = stage[t] /\ page'[t] = page[t]
    BY <1>0, <2>1
  <2>3. stage'[s] = "cut" /\ page' \in [Scrape -> [Label -> Nat]]
    BY <1>0, <2>1
  <2>4. ScrapesAgree'
    BY <2>2, <2>3 DEF MetricsInv, ScrapesAgree
  <2>5. ASSUME NEW t \in Scrape
        PROVE  /\ stage'[t] = "writing" <=> holder' = t
               /\ stage'[t] = "waiting" => page'[t] = NoPage
               /\ stage'[t] = "writing" => \A k \in Label : page'[t][k] \in {0, requests'[k]}
               /\ stage'[t] = "full" => \A k \in Label : page'[t][k] <= requests'[k]
    <3>1. CASE t = s
      BY <1>0, <2>1, <2>3, <3>1
    <3>2. CASE t # s
      BY <1>0, <1>4, <2>1, <2>2, <3>2 DEF MetricsInv, Cut
    <3> QED
      BY <3>1, <3>2
  <2> QED
    BY <1>0, <2>1, <2>3, <2>4, <2>5 DEF MetricsInv, NoPage
<1> QED
  BY <1>1, <1>2, <1>3, <1>4 DEF ScrapeStep

\* The counters under any traffic.
LEMMA MetricsInvAlways == MetricsSpec => []MetricsInv
<1>1. MetricsInit => MetricsInv
  BY MetricsAssumption
  DEF MetricsInit, MetricsInv, ScrapesAgree, NoPage, MetricsAssumption
<1>2. MetricsInv /\ [MetricsNext]_metricsVars => MetricsInv'
  <2> SUFFICES ASSUME MetricsInv, [MetricsNext]_metricsVars
               PROVE  MetricsInv'
    OBVIOUS
  <2>1. CASE MetricsNext
    BY <2>1, ObserveStep, ScrapeInvStep DEF MetricsNext
  <2>2. CASE UNCHANGED metricsVars
    BY <2>2 DEF metricsVars, MetricsInv, ScrapesAgree, NoPage
  <2> QED
    BY <2>1, <2>2
<1> QED
  BY <1>1, <1>2, PTL DEF MetricsSpec

-----------------------------------------------------------------------------
\* Where jobs are in each phase, and which have results.
PhaseOK ==
  /\ phase = "start" => registered < 2 * Users
  /\ phase \in {"start", "create", "fatal"} => \A j \in Job : waited[j] = NoResult
  /\ phase \in {"start", "fatal"} =>
       \A j \in Job : at[j] = "queued" /\ posted[j] = NoResult
  /\ phase = "create" => \A j \in Job : at[j] = "recorded" <=> posted[j] # NoResult
  /\ phase = "wait" => \A j \in Job :
       /\ posted[j] # NoResult
       /\ posted[j] # "201" => at[j] = "recorded"
       /\ posted[j] = "201" => (at[j] = "recorded" <=> waited[j] # NoResult)
  /\ phase = "done" => \A j \in Job :
       /\ posted[j] # NoResult /\ at[j] = "recorded"
       /\ WaitProcessing /\ posted[j] = "201" => waited[j] # NoResult

\* What has become of the requests for a payment.
RequestOK(j) ==
  /\ server[j] \in {"none", "handling"} => answer[j] = NoResult
  /\ server[j] \in {"handled", "counted"} =>
       answer[j] \in IF posted[j] = "201" THEN {"PENDING", "PROCESSED", "500"}
                                          ELSE PostAnswer
  /\ posted[j] = NoResult /\ server[j] # "none" => at[j] = "calling"
  /\ posted[j] = NoResult /\ server[j] = "none" => row[j] = "ABSENT"
  /\ posted[j] # "201" /\ server[j] = "handling" => row[j] = "ABSENT"
  /\ "201" \in {posted[j], answer[j]} \/ answer[j] = "202" => row[j] # "ABSENT"
  /\ "PROCESSED" \in {waited[j], answer[j]} => row[j] = "PROCESSED"

LoadTypes ==
  /\ phase \in {"start", "create", "wait", "done", "fatal"}
  /\ registered \in 0 .. 2 * Users
  /\ at \in [Job -> {"queued", "calling", "ticking", "recorded"}]
  /\ server \in [Job -> {"none", "handling", "handled", "counted"}]
  /\ row \in [Job -> {"ABSENT", "PENDING", "PROCESSED"}]
  /\ answer \in [Job -> PostAnswer \cup {NoResult, "PENDING", "PROCESSED", "500"}]
  /\ posted \in [Job -> PostAnswer \cup {NoResult, "error"}]
  /\ waited \in [Job -> {NoResult, "PROCESSED", "500", "408", "error"}]

\* Payments whose creation has been counted, and jobs whose answer has.
Counted ==
  {j \in Job : row[j] # "ABSENT" /\ ~(server[j] = "handled" /\ answer[j] \in {"201", "202"})}
Heard(a) == {j \in Job : posted[j] = a \/ (server[j] = "counted" /\ answer[j] = a)}

CountsOK ==
  /\ requests["Post201"] + requests["Post202"] = Cardinality(Counted)
  /\ \A a \in PostAnswer : Cardinality(Heard(a)) <= requests[LabelOf(a)]

LimitOK == Cardinality(UnderWay) <= Limit

JobsInv == LoadTypes /\ PhaseOK /\ (\A j \in Job : RequestOK(j))
LoadInv == JobsInv /\ LimitOK /\ CountsOK

\* What the assumptions give.
LEMMA LoadFacts ==
  /\ {Users, Concurrency, WaitConcurrency} \subseteq Nat \ {0} /\ IsFiniteSet(Job)
  /\ {"register", "Post201", "Post202", "Post400"} = Label /\ "GET" \notin Label
BY LoadAssumption DEF LoadAssumption

-----------------------------------------------------------------------------
\* The counters see the load test as requests that are counted, each a step or,
\* where the model does not look, none.
LEMMA LoadStepIsMetricsStep ==
  ASSUME MetricsInv, [LoadNext]_vars
  PROVE  [MetricsNext]_metricsVars
<1>1. ASSUME NEW l, observe(l)
      PROVE  [MetricsNext]_metricsVars
  <2>1. CASE l \in Label
    BY <1>1, <2>1 DEF MetricsNext
  <2>2. CASE l \notin Label
    <3>1. requests' = requests
      BY <1>1, <2>2 DEF observe, MetricsInv
    <3> QED
      BY <1>1, <3>1 DEF observe, metricsVars
  <2> QED
    BY <2>1, <2>2
<1>2. CASE Register \/ NotReady \/ Expire \/ EndPhase
  BY <1>1, <1>2 DEF Register, NotReady, Expire, EndPhase
<1>3. ASSUME NEW j \in Job, Serve(j) \/ Goroutine(j) \/ Process(j) \/ Discard(j)
      PROVE  [MetricsNext]_metricsVars
  <2>1. CASE Count(j)
    BY <1>1, <2>1 DEF Count
  <2>2. CASE UNCHANGED metricsVars
    BY <2>2
  <2> QED
    BY <1>3, <2>1, <2>2
    DEF Serve, HandlePost, HandleGet, Goroutine, Hand, Send, Hear, CallFails, Tick,
        TimeOut, Process, Discard, Leaves
<1>4. CASE \E s \in Scrape : ScrapeStep(s)
  BY <1>4 DEF MetricsNext
<1>5. CASE UNCHANGED vars
  BY <1>5 DEF vars
<1> QED
  BY <1>2, <1>3, <1>4, <1>5 DEF LoadNext

\* The load test implements Metrics.
LEMMA MetricsUnderLoad == LoadSpec => MetricsSpec /\ []MetricsInv
<1>1. LoadInit => MetricsInit /\ MetricsInv
  BY MetricsAssumption
  DEF LoadInit, MetricsInit, MetricsInv, ScrapesAgree, NoPage, MetricsAssumption
<1>2. MetricsInv /\ [LoadNext]_vars => MetricsInv' /\ [MetricsNext]_metricsVars
  <2> SUFFICES ASSUME MetricsInv, [LoadNext]_vars
               PROVE  MetricsInv' /\ [MetricsNext]_metricsVars
    OBVIOUS
  <2>1. [MetricsNext]_metricsVars
    BY LoadStepIsMetricsStep
  <2>2. CASE UNCHANGED metricsVars
    BY <2>1, <2>2 DEF metricsVars, MetricsInv, ScrapesAgree, NoPage
  <2> QED
    BY <2>1, <2>2, ObserveStep, ScrapeInvStep DEF MetricsNext
<1> QED
  BY <1>1, <1>2, PTL DEF LoadSpec, MetricsSpec

-----------------------------------------------------------------------------
\* The handlers and the middleware answer requests and count the answers; no
\* other part of a job moves, but its payment.
LEMMA ServerStep ==
  ASSUME JobsInv, NEW j \in Job, Serve(j) \/ Process(j)
  PROVE  JobsInv'
<1>0. LoadTypes /\ PhaseOK /\ RequestOK(j) /\ \A q \in Job : RequestOK(q)
  BY DEF JobsInv
<1>1. UNCHANGED <<registered, phase, late, at, posted, waited>>
  BY DEF Serve, HandlePost, HandleGet, Count, Process
<1>2. PhaseOK'
  BY <1>0, <1>1 DEF PhaseOK
<1>3. \A q \in Job : q # j =>
        server'[q] = server[q] /\ answer'[q] = answer[q] /\ row'[q] = row[q]
  BY <1>0 DEF LoadTypes, Serve, HandlePost, HandleGet, Count, Process
<1>4. LoadTypes' /\ RequestOK(j)'
  <2>1. CASE \E a \in PostAnswer : HandlePost(j, a)
    BY <1>0, <1>1, <2>1 DEF LoadTypes, RequestOK, HandlePost, PostAnswer, NoResult
  <2>2. CASE HandleGet(j)
    BY <1>0, <1>1, <2>2 DEF LoadTypes, RequestOK, HandleGet, PostAnswer, NoResult
  <2>3. CASE Count(j)
    BY <1>0, <1>1, <2>3 DEF LoadTypes, RequestOK, Count
  <2>4. CASE Process(j)
    BY <1>0, <1>1, <2>4 DEF LoadTypes, RequestOK, Process
  <2> QED
    BY <2>1, <2>2, <2>3, <2>4 DEF Serve
<1>5. \A q \in Job : q # j => RequestOK(q)'
  BY <1>0, <1>1, <1>3 DEF RequestOK
<1> QED
  BY <1>2, <1>4, <1>5 DEF JobsInv

\* The goroutines take jobs on, call the API and record what comes back.
LEMMA GoroutineStep ==
  ASSUME JobsInv, NEW j \in Job, Goroutine(j) \/ Discard(j)
  PROVE  JobsInv'
<1>0. LoadTypes /\ PhaseOK /\ RequestOK(j) /\ \A q \in Job : RequestOK(q)
  BY DEF JobsInv
<1>1. UNCHANGED <<registered, phase, late, row>>
  BY DEF Goroutine, Hand, Send, Hear, CallFails, Tick, TimeOut, Discard, Leaves
<1>2. \A q \in Job : q # j =>
        /\ at'[q] = at[q] /\ server'[q] = server[q] /\ answer'[q] = answer[q]
        /\ posted'[q] = posted[q] /\ waited'[q] = waited[q]
  BY <1>0
  DEF LoadTypes, Goroutine, Hand, Send, Hear, CallFails, Tick, TimeOut, Discard,
      Leaves, Record
<1>3. \A q \in Job : q # j => RequestOK(q)'
  BY <1>0, <1>1, <1>2 DEF RequestOK
<1>4. at[j] \in {"calling", "ticking"} =>
        /\ phase \in {"create", "wait"} /\ waited[j] = NoResult
        /\ phase = "create" => posted[j] = NoResult
        /\ phase = "wait" => posted[j] = "201"
  BY <1>0 DEF LoadTypes, PhaseOK
<1>5. LoadTypes' /\ RequestOK(j)' /\ PhaseOK'
  <2>1. CASE Hand(j)
    BY <1>0, <1>1, <1>2, <2>1 DEF LoadTypes, RequestOK, PhaseOK, Hand, Current, created
  <2>2. CASE Send(j)
    BY <1>0, <1>1, <1>2, <1>4, <2>2 DEF LoadTypes, RequestOK, PhaseOK, Send, NoResult
  <2>3. CASE Hear(j)
    BY <1>0, <1>1, <1>2, <1>4, <2>3
    DEF LoadTypes, RequestOK, PhaseOK, Hear, Leaves, Record, PostAnswer, NoResult
  <2>4. CASE CallFails(j)
    BY <1>0, <1>1, <1>2, <1>4, <2>4
    DEF LoadTypes, RequestOK, PhaseOK, CallFails, Record, PostAnswer, NoResult
  <2>5. CASE Tick(j)
    BY <1>0, <1>1, <1>2, <1>4, <2>5 DEF LoadTypes, RequestOK, PhaseOK, Tick
  <2>6. CASE TimeOut(j)
    BY <1>0, <1>1, <1>2, <1>4, <2>6
    DEF LoadTypes, RequestOK, PhaseOK, TimeOut, Record, PostAnswer, NoResult
  <2>7. CASE Discard(j)
    BY <1>0, <1>1, <1>2, <2>7
    DEF LoadTypes, RequestOK, PhaseOK, Discard, Leaves, PostAnswer, NoResult
  <2> QED
    BY <2>1, <2>2, <2>3, <2>4, <2>5, <2>6, <2>7 DEF Goroutine
<1> QED
  BY <1>3, <1>5 DEF JobsInv

\* main goes on, when nothing is left of a phase.
LEMMA MainStep ==
  ASSUME JobsInv, Register \/ NotReady \/ Expire \/ EndPhase
  PROVE  JobsInv'
<1>0. LoadTypes /\ PhaseOK /\ \A q \in Job : RequestOK(q)
  BY DEF JobsInv
<1>1. CASE Register
  <2>1. registered' \in 0 .. 2 * Users /\ (registered' = 2 * Users \/ registered' < 2 * Users)
    <3>1. registered \in Nat /\ Users \in Nat
      <4>1. Users \in Nat
        BY LoadFacts
      <4> QED
        BY <1>0, <4>1 DEF LoadTypes
    <3>2. registered < 2 * Users /\ registered' = registered + 1
      BY <1>0, <1>1 DEF PhaseOK, Register
    <3> QED
      BY <3>1, <3>2
  <2> QED
    BY <1>0, <1>1, <2>1 DEF JobsInv, LoadTypes, RequestOK, PhaseOK, Register
<1>2. CASE NotReady
  BY <1>0, <1>2 DEF JobsInv, LoadTypes, RequestOK, PhaseOK, NotReady
<1>3. CASE Expire
  BY <1>0, <1>3 DEF JobsInv, LoadTypes, RequestOK, PhaseOK, Expire
<1>4. CASE EndPhase
  <2>1. UNCHANGED <<registered, server, answer, row, posted, waited>>
    BY <1>4 DEF EndPhase
  <2>2. phase \in {"create", "wait"} /\ \A j \in Current : at[j] = "recorded"
    BY <1>4 DEF EndPhase
  <2>3. \A j \in Job : posted[j] # NoResult /\ at[j] = "recorded"
    BY <1>0, <2>2 DEF PhaseOK, Current, created
  <2>4. LoadTypes'
    BY <1>0, <1>4, <2>1 DEF LoadTypes, EndPhase
  <2>5. PhaseOK'
    <3>1. CASE phase' = "wait"
      BY <1>0, <1>4, <2>1, <2>3, <3>1 DEF PhaseOK, EndPhase, created, LoadTypes
    <3>2. CASE phase' = "done" /\ UNCHANGED at
      BY <1>0, <1>4, <2>1, <2>2, <2>3, <3>2 DEF PhaseOK, EndPhase, LoadTypes
    <3> QED
      BY <1>4, <3>1, <3>2 DEF EndPhase
  <2>6. \A q \in Job : RequestOK(q)'
    BY <1>0, <2>1, <2>3 DEF RequestOK
  <2> QED
    BY <2>4, <2>5, <2>6 DEF JobsInv
<1> QED
  BY <1>1, <1>2, <1>3, <1>4

\* No step makes more calls at once than there are goroutines in the phase.
LEMMA LimitStep ==
  ASSUME JobsInv, LimitOK, LoadNext
  PROVE  LimitOK'
<1>0. LoadTypes /\ PhaseOK /\ IsFiniteSet(Job) /\ Limit \in Nat
  BY LoadFacts DEF JobsInv, Limit
<1>1. IsFiniteSet(UnderWay) /\ Cardinality(UnderWay) \in Nat
  BY <1>0, FS_Subset, FS_CardinalityType DEF UnderWay, Current, created
<1>2. ASSUME UnderWay' \subseteq UnderWay, Limit' = Limit
      PROVE  LimitOK'
  <2>1. Cardinality(UnderWay') <= Cardinality(UnderWay) /\ Cardinality(UnderWay') \in Nat
    BY <1>1, <1>2, FS_Subset, FS_CardinalityType
  <2> QED
    BY <1>0, <1>1, <1>2, <2>1 DEF LimitOK
<1>3. ASSUME UnderWay' = {}, Limit' \in Nat
      PROVE  LimitOK'
  BY <1>3, FS_EmptySet DEF LimitOK
<1>4. CASE Register \/ NotReady
  <2>1. \A j \in Job : at'[j] = "queued"
    BY <1>0, <1>4 DEF PhaseOK, Register, NotReady
  <2>2. UnderWay' = {}
    BY <2>1 DEF UnderWay, Current, created
  <2>3. Limit' \in Nat
    BY LoadFacts DEF Limit
  <2> QED
    BY <1>3, <2>2, <2>3
<1>5. CASE EndPhase
  <2>1. \A j \in Job : at[j] = "recorded"
    BY <1>0, <1>5 DEF PhaseOK, EndPhase, Current, created
  <2>2. UnderWay' = {}
    BY <1>5, <2>1 DEF EndPhase, UnderWay, Current, created
  <2>3. Limit' \in Nat
    BY LoadFacts DEF Limit
  <2> QED
    BY <1>3, <2>2, <2>3
<1>6. CASE Expire \/ ((\E s \in Scrape : ScrapeStep(s)) /\ UNCHANGED loadVars)
  <2>1. UnderWay' = UnderWay /\ Limit' = Limit
    BY <1>6 DEF Expire, loadVars, UnderWay, Current, created, Limit
  <2> QED
    BY <1>2, <2>1
<1>7. ASSUME NEW j \in Job, Hand(j)
      PROVE  LimitOK'
  <2>1. j \in Current /\ j \notin UnderWay /\ Cardinality(UnderWay) < Limit
    BY <1>7 DEF Hand, UnderWay
  <2>2. UnderWay' = UnderWay \cup {j} /\ Limit' = Limit
    BY <1>0, <1>7, <2>1 DEF LoadTypes, Hand, UnderWay, Current, created, Limit
  <2>3. Cardinality(UnderWay') = Cardinality(UnderWay) + 1
    BY <1>1, <2>1, <2>2, FS_AddElement
  <2> QED
    BY <1>0, <1>1, <2>1, <2>2, <2>3 DEF LimitOK
<1>8. ASSUME NEW j \in Job, Serve(j) \/ Process(j) \/ Discard(j) \/ Send(j)
      PROVE  LimitOK'
  <2>1. UNCHANGED <<phase, at, posted>>
    BY <1>8 DEF Serve, HandlePost, HandleGet, Count, Process, Discard, Leaves, Send
  <2>2. UnderWay' = UnderWay /\ Limit' = Limit
    BY <2>1 DEF UnderWay, Current, created, Limit
  <2> QED
    BY <1>2, <2>2
<1>9. ASSUME NEW j \in Job, Hear(j) \/ CallFails(j) \/ Tick(j) \/ TimeOut(j)
      PROVE  LimitOK'
  <2>1. /\ UNCHANGED phase /\ at[j] \in {"calling", "ticking"}
        /\ phase # "create" => UNCHANGED posted
        /\ \A q \in Job : q # j => at'[q] = at[q]
    BY <1>0, <1>9 DEF LoadTypes, Hear, Leaves, CallFails, Tick, TimeOut, Record
  <2>2. UnderWay' \subseteq UnderWay /\ Limit' = Limit
    <3>1. Current' = Current /\ Limit' = Limit
      BY <2>1 DEF Current, created, Limit
    <3> QED
      BY <2>1, <3>1 DEF UnderWay, Current, created
  <2> QED
    BY <1>2, <2>2
<1> QED
  BY <1>4, <1>5, <1>6, <1>7, <1>8, <1>9 DEF LoadNext, Goroutine

\* Every answer to a POST is counted once, before the client has it.
LEMMA CountsStep ==
  ASSUME JobsInv, MetricsInv, CountsOK, LoadNext
  PROVE  CountsOK'
<1>0. LoadTypes /\ PhaseOK /\ IsFiniteSet(Job) /\ requests \in [Label -> Nat]
  BY LoadFacts DEF JobsInv, MetricsInv
<1>1. /\ \A l \in Label : requests[l] \in Nat
      /\ \A a \in PostAnswer : LabelOf(a) \in Label
      /\ {"Post201", "Post202"} \subseteq Label
  BY <1>0, LoadFacts DEF PostAnswer, LabelOf
<1>2. /\ IsFiniteSet(Counted) /\ Cardinality(Counted) \in Nat
      /\ \A a : IsFiniteSet(Heard(a)) /\ Cardinality(Heard(a)) \in Nat
  BY <1>0, FS_Subset, FS_CardinalityType DEF Counted, Heard
<1>3. ASSUME Counted' = Counted, \A a \in PostAnswer : Heard(a)' \subseteq Heard(a),
             requests'["Post201"] = requests["Post201"],
             requests'["Post202"] = requests["Post202"],
             requests'["Post400"] = requests["Post400"]
      PROVE  CountsOK'
  <2>1. \A a \in PostAnswer : Cardinality(Heard(a)') <= requests'[LabelOf(a)]
    <3> SUFFICES ASSUME NEW a \in PostAnswer
                 PROVE  Cardinality(Heard(a)') <= requests'[LabelOf(a)]
      OBVIOUS
    <3>1. Cardinality(Heard(a)') <= Cardinality(Heard(a)) /\ Cardinality(Heard(a)') \in Nat
      BY <1>2, <1>3, FS_Subset, FS_CardinalityType
    <3>2. requests'[LabelOf(a)] = requests[LabelOf(a)]
      BY <1>3 DEF PostAnswer, LabelOf
    <3>3. Cardinality(Heard(a)) <= requests[LabelOf(a)]
      BY DEF CountsOK
    <3>4. requests[LabelOf(a)] \in Nat /\ Cardinality(Heard(a)) \in Nat
      BY <1>1, <1>2
    <3> QED
      BY <3>1, <3>2, <3>3, <3>4
  <2> QED
    BY <1>3, <2>1 DEF CountsOK
<1>4. CASE Register
  <2>1. requests' = [requests EXCEPT !["register"] = @ + 1]
    BY <1>4 DEF Register, observe
  <2>2. /\ requests'["Post201"] = requests["Post201"]
        /\ requests'["Post202"] = requests["Post202"]
        /\ requests'["Post400"] = requests["Post400"]
    BY <1>0, <2>1, LoadFacts
  <2>3. Counted' = Counted /\ \A a \in PostAnswer : Heard(a)' = Heard(a)
    BY <1>4 DEF Register, Counted, Heard
  <2> QED
    BY <1>3, <2>2, <2>3
<1>5. CASE NotReady \/ Expire \/ EndPhase
  <2>1. UNCHANGED <<requests, row, server, answer, posted>>
    BY <1>5 DEF NotReady, Expire, EndPhase, metricsVars
  <2>2. Counted' = Counted /\ \A a \in PostAnswer : Heard(a)' = Heard(a)
    BY <2>1 DEF Counted, Heard
  <2> QED
    BY <1>3, <2>1, <2>2
<1>6. CASE (\E s \in Scrape : ScrapeStep(s)) /\ UNCHANGED loadVars
  <2>1. UNCHANGED <<requests, row, server, answer, posted>>
    BY <1>6 DEF ScrapeStep, Lock, EndPage, Cut, WriteLine, loadVars
  <2>2. Counted' = Counted /\ \A a \in PostAnswer : Heard(a)' = Heard(a)
    BY <2>1 DEF Counted, Heard
  <2> QED
    BY <1>3, <2>1, <2>2
<1>7. ASSUME NEW j \in Job, Goroutine(j) \/ Discard(j) \/ Process(j) \/ HandleGet(j)
                              \/ \E a \in PostAnswer : HandlePost(j, a)
      PROVE  CountsOK'
  <2>0. RequestOK(j)
    BY DEF JobsInv
  <2>1. UNCHANGED requests
    BY <1>7
    DEF Goroutine, Hand, Send, Hear, CallFails, Tick, TimeOut, Discard, Leaves, Process,
        HandleGet, HandlePost, metricsVars
  <2>2. \A q \in Job : q # j =>
          /\ row'[q] = row[q] /\ server'[q] = server[q] /\ answer'[q] = answer[q]
          /\ posted'[q] = posted[q]
    BY <1>0, <1>7
    DEF LoadTypes, Goroutine, Hand, Send, Hear, CallFails, Tick, TimeOut, Discard, Leaves,
        Record, Process, HandleGet, HandlePost
  <2>3. j \in Counted' <=> j \in Counted
    BY <1>0, <1>7, <2>0
    DEF LoadTypes, RequestOK, Counted, Goroutine, Hand, Send, Hear, CallFails, Tick,
        TimeOut, Discard, Leaves, Record, Process, HandleGet, HandlePost, PostAnswer, NoResult
  <2>4. \A a \in PostAnswer : j \in Heard(a)' => j \in Heard(a)
    BY <1>0, <1>7, <2>0
    DEF LoadTypes, RequestOK, Heard, Goroutine, Hand, Send, Hear, CallFails, Tick,
        TimeOut, Discard, Leaves, Record, Process, HandleGet, HandlePost, PostAnswer, NoResult
  <2>5. Counted' = Counted /\ \A a \in PostAnswer : Heard(a)' \subseteq Heard(a)
    BY <2>2, <2>3, <2>4 DEF Counted, Heard
  <2> QED
    BY <1>3, <2>1, <2>5
<1>8. ASSUME NEW j \in Job, Count(j)
      PROVE  CountsOK'
  <2>0. /\ RequestOK(j) /\ server[j] = "handled" /\ server'[j] = "counted"
        /\ \A q \in Job : q # j => server'[q] = server[q]
        /\ UNCHANGED <<row, answer, posted>>
        /\ requests' = [requests EXCEPT ![LabelOf(answer[j])] = @ + 1]
    BY <1>0, <1>8 DEF JobsInv, LoadTypes, Count, observe
  <2>1. CASE answer[j] \in PostAnswer
    <3>1. /\ posted[j] # "201"
          /\ answer[j] \in {"201", "202"} => row[j] # "ABSENT"
      BY <2>0, <2>1 DEF RequestOK, PostAnswer
    <3>2. \A l \in Label : requests'[l] = IF l = LabelOf(answer[j]) THEN requests[l] + 1
                                                                   ELSE requests[l]
      BY <1>0, <2>0
    <3>3. \A a \in PostAnswer : LabelOf(a) = LabelOf(answer[j]) => a = answer[j]
      BY <2>1 DEF PostAnswer, LabelOf
    <3>4. \A a \in PostAnswer : Cardinality(Heard(a)') <= requests'[LabelOf(a)]
      <4> SUFFICES ASSUME NEW a \in PostAnswer
                   PROVE  Cardinality(Heard(a)') <= requests'[LabelOf(a)]
        OBVIOUS
      <4>1. Cardinality(Heard(a)) <= requests[LabelOf(a)] /\ requests[LabelOf(a)] \in Nat
        BY <1>1 DEF CountsOK
      <4>2. CASE a = answer[j]
        <5>1. Heard(a)' = Heard(a) \cup {j}
          BY <2>0, <4>2 DEF Heard
        <5>2. Cardinality(Heard(a)') \in {Cardinality(Heard(a)), Cardinality(Heard(a)) + 1}
          BY <1>2, <5>1, FS_AddElement
        <5>3. requests'[LabelOf(a)] = requests[LabelOf(a)] + 1
          BY <1>1, <3>2, <4>2
        <5> QED
          BY <1>2, <4>1, <5>2, <5>3
      <4>3. CASE a # answer[j]
        <5>1. Heard(a)' = Heard(a)
          BY <2>0, <4>3 DEF Heard
        <5>2. requests'[LabelOf(a)] = requests[LabelOf(a)]
          BY <1>1, <3>2, <3>3, <4>3
        <5> QED
          BY <4>1, <5>1, <5>2
      <4> QED
        BY <4>2, <4>3
    <3>5. requests'["Post201"] + requests'["Post202"] = Cardinality(Counted')
      <4>1. CASE answer[j] \in {"201", "202"}
        <5>1. j \notin Counted /\ Counted' = Counted \cup {j}
          BY <2>0, <3>1, <4>1 DEF Counted
        <5>2. Cardinality(Counted') = Cardinality(Counted) + 1
          BY <1>2, <5>1, FS_AddElement
        <5>3. requests'["Post201"] + requests'["Post202"] =
                requests["Post201"] + requests["Post202"] + 1
          <6>1. requests["Post201"] \in Nat /\ requests["Post202"] \in Nat
            BY <1>1
          <6>2. CASE answer[j] = "201"
            <7>1. /\ requests'["Post201"] = requests["Post201"] + 1
                  /\ requests'["Post202"] = requests["Post202"]
              BY <1>1, <3>2, <6>2 DEF LabelOf
            <7> QED
              BY <6>1, <7>1
          <6>3. CASE answer[j] = "202"
            <7>1. /\ requests'["Post201"] = requests["Post201"]
                  /\ requests'["Post202"] = requests["Post202"] + 1
              BY <1>1, <3>2, <6>3 DEF LabelOf
            <7> QED
              BY <6>1, <7>1
          <6> QED
            BY <4>1, <6>2, <6>3
        <5> QED
          BY <5>2, <5>3 DEF CountsOK
      <4>2. CASE answer[j] = "400"
        <5>1. Counted' = Counted
          BY <2>0, <4>2 DEF Counted
        <5>2. /\ requests'["Post201"] = requests["Post201"]
              /\ requests'["Post202"] = requests["Post202"]
          BY <1>1, <3>2, <4>2 DEF LabelOf
        <5> QED
          BY <5>1, <5>2 DEF CountsOK
      <4> QED
        BY <2>1, <4>1, <4>2 DEF PostAnswer
    <3> QED
      BY <3>4, <3>5 DEF CountsOK
  <2>2. CASE answer[j] \notin PostAnswer
    <3>1. LabelOf(answer[j]) = "GET"
      BY <2>2 DEF LabelOf, PostAnswer
    <3>2. requests' = requests
      BY <1>0, <2>0, <3>1, LoadFacts
    <3>3. Counted' = Counted /\ \A a \in PostAnswer : Heard(a)' = Heard(a)
      BY <2>0, <2>2 DEF Counted, Heard, PostAnswer
    <3> QED
      BY <1>3, <3>2, <3>3
  <2> QED
    BY <2>1, <2>2
<1> QED
  BY <1>4, <1>5, <1>6, <1>7, <1>8 DEF LoadNext, Serve

\* The invariant that the theorems below rest on.
LEMMA LoadInvAlways == LoadSpec => []LoadInv
<1>1. LoadInit => LoadInv
  <2> SUFFICES ASSUME LoadInit
               PROVE  LoadInv
    OBVIOUS
  <2>1. LoadTypes /\ PhaseOK
    <3>1. Users \in Nat \ {0}
      BY LoadFacts
    <3>2. 0 \in 0 .. 2 * Users /\ 0 < 2 * Users
      BY <3>1
    <3>3. LoadTypes
      BY <3>2 DEF LoadInit, LoadTypes
    <3> QED
      BY <3>2, <3>3 DEF LoadInit, PhaseOK
  <2>2. \A j \in Job : RequestOK(j)
    BY DEF LoadInit, RequestOK, NoResult
  <2>3. UnderWay = {} /\ Counted = {} /\ \A a \in PostAnswer : Heard(a) = {}
    BY DEF LoadInit, UnderWay, Current, created, Counted, Heard, PostAnswer, NoResult
  <2>4. LimitOK
    <3>1. Limit \in Nat
      BY LoadFacts DEF Limit
    <3> QED
      BY <2>3, <3>1, FS_EmptySet DEF LimitOK
  <2>5. CountsOK
    <3>1. \A l \in Label : requests[l] = 0
      BY DEF LoadInit, MetricsInit
    <3>2. /\ requests["Post201"] = 0 /\ requests["Post202"] = 0
          /\ \A a \in PostAnswer : requests[LabelOf(a)] = 0
      BY <3>1, LoadFacts DEF PostAnswer, LabelOf
    <3> QED
      <4>1. Cardinality(Counted) = 0 /\ \A a \in PostAnswer : Cardinality(Heard(a)) = 0
        BY <2>3, FS_EmptySet
      <4> QED
        BY <3>2, <4>1 DEF CountsOK
  <2> QED
    BY <2>1, <2>2, <2>4, <2>5 DEF LoadInv, JobsInv
<1>2. LoadInv /\ MetricsInv /\ [LoadNext]_vars => LoadInv'
  <2> SUFFICES ASSUME LoadInv, MetricsInv, [LoadNext]_vars
               PROVE  LoadInv'
    OBVIOUS
  <2>0. JobsInv /\ LimitOK /\ CountsOK
    BY DEF LoadInv
  <2>1. CASE LoadNext
    <3>1. JobsInv'
      <4>1. CASE (\E s \in Scrape : ScrapeStep(s)) /\ UNCHANGED loadVars
        BY <2>0, <4>1 DEF loadVars, JobsInv, LoadTypes, PhaseOK, RequestOK
      <4> QED
        BY <2>0, <2>1, <4>1, MainStep, ServerStep, GoroutineStep DEF LoadNext
    <3> QED
      BY <2>0, <2>1, <3>1, LimitStep, CountsStep DEF LoadInv
  <2>2. CASE UNCHANGED vars
    <3>1. JobsInv'
      BY <2>0, <2>2 DEF vars, loadVars, JobsInv, LoadTypes, PhaseOK, RequestOK
    <3>2. UNCHANGED <<UnderWay, Limit, Counted, requests>> /\ \A a : Heard(a)' = Heard(a)
      BY <2>2
      DEF vars, loadVars, metricsVars, UnderWay, Current, created, Limit, Counted, Heard
    <3> QED
      BY <2>0, <3>1, <3>2 DEF LoadInv, LimitOK, CountsOK
  <2> QED
    BY <2>1, <2>2
<1> QED
  BY <1>1, <1>2, MetricsUnderLoad, PTL DEF LoadSpec

-----------------------------------------------------------------------------
\* The requests of a load test are traffic that the specification of the metrics
\* registry allows: each is counted once, and never while a scrape writes.
THEOREM LoadImplementsMetrics == LoadSpec => MetricsSpec
BY MetricsUnderLoad, PTL

\* Whatever is requested, and whichever scrapes stall or are cut off, of two full
\* pages one is the earlier in every line.
THEOREM ScrapesAlwaysAgree == MetricsSpec => []ScrapesAgree
<1>1. MetricsInv => ScrapesAgree
  BY DEF MetricsInv
<1> QED
  BY <1>1, MetricsInvAlways, PTL

\* Also under the load test.
THEOREM ScrapesAgreeUnderLoad == LoadSpec => []ScrapesAgree
BY LoadImplementsMetrics, ScrapesAlwaysAgree, PTL

\* The counters and the jobs have their types, and no more calls are under way
\* than there are goroutines in the phase.
THEOREM LoadTypeCorrect == LoadSpec => []LoadTypeOK
<1>1. LoadInv /\ MetricsInv => LoadTypeOK
  BY DEF LoadInv, JobsInv, LoadTypes, LimitOK, MetricsInv, LoadTypeOK
<1> QED
  BY <1>1, LoadInvAlways, MetricsUnderLoad, PTL

\* Every answer that the load test has recorded was counted before, and no
\* creation is counted without its payment.
THEOREM AnswersAreCounted == LoadSpec => []AnsweredIsCounted
<1>1. LoadInv /\ MetricsInv => AnsweredIsCounted
  <2> SUFFICES ASSUME LoadInv, MetricsInv
               PROVE  AnsweredIsCounted
    OBVIOUS
  <2>0. CountsOK /\ LoadTypes /\ IsFiniteSet(Job) /\ \A l \in Label : requests[l] \in Nat
    BY LoadFacts DEF LoadInv, JobsInv, MetricsInv
  <2>1. Cardinality(Counted) <= Cardinality({j \in Job : row[j] # "ABSENT"})
    <3>1. /\ IsFiniteSet({j \in Job : row[j] # "ABSENT"})
          /\ Counted \subseteq {j \in Job : row[j] # "ABSENT"}
      BY <2>0, FS_Subset DEF Counted
    <3> QED
      BY <3>1, FS_Subset
  <2>2. ASSUME NEW a \in PostAnswer
        PROVE  Cardinality({j \in Job : posted[j] = a}) <= requests[LabelOf(a)]
    <3>1. IsFiniteSet(Heard(a)) /\ {j \in Job : posted[j] = a} \subseteq Heard(a)
      BY <2>0, FS_Subset DEF Heard
    <3>2. /\ Cardinality({j \in Job : posted[j] = a}) <= Cardinality(Heard(a))
          /\ Cardinality({j \in Job : posted[j] = a}) \in Nat
          /\ Cardinality(Heard(a)) \in Nat
      BY <3>1, FS_Subset, FS_CardinalityType
    <3>3. LabelOf(a) \in Label
      BY LoadFacts DEF PostAnswer, LabelOf
    <3>4. Cardinality(Heard(a)) <= requests[LabelOf(a)] /\ requests[LabelOf(a)] \in Nat
      BY <2>0, <3>3 DEF CountsOK
    <3> QED
      BY <3>2, <3>4
  <2> QED
    BY <2>0, <2>1, <2>2 DEF CountsOK, AnsweredIsCounted
<1> QED
  BY <1>1, LoadInvAlways, MetricsUnderLoad, PTL

\* Whatever fails, and whenever the context times out, main finds a result for
\* every payment it set out to create, and for every one it waited for.
THEOREM NoJobIsLost == LoadSpec => []ResultsComplete
<1>1. LoadInv => ResultsComplete
  BY DEF LoadInv, JobsInv, PhaseOK, ResultsComplete, created
<1> QED
  BY <1>1, LoadInvAlways, PTL

\* A load test without failures has seen its payments processed, but for those
\* whose job was not published.
THEOREM CleanRunsAreProcessed == LoadSpec => []CleanRunIsProcessed
<1>1. LoadInv => CleanRunIsProcessed
  <2> SUFFICES ASSUME LoadInv, Succeeds, WaitProcessing, NEW j \in Job
               PROVE  row[j] = "PROCESSED" \/ posted[j] = "202"
    BY DEF CleanRunIsProcessed
  <2>1. posted[j] # NoResult /\ (posted[j] = "201" => waited[j] # NoResult)
    BY DEF LoadInv, JobsInv, PhaseOK, Succeeds
  <2>2. posted[j] \in {"201", "202"}
    BY <2>1 DEF LoadInv, JobsInv, LoadTypes, Succeeds, Failed, PostAnswer
  <2>3. posted[j] = "201" => waited[j] = "PROCESSED"
    BY <2>1 DEF LoadInv, JobsInv, LoadTypes, Succeeds, Failed
  <2>4. waited[j] = "PROCESSED" => row[j] = "PROCESSED"
    BY DEF LoadInv, JobsInv, RequestOK
  <2> QED
    BY <2>2, <2>3, <2>4
<1> QED
  BY <1>1, LoadInvAlways, PTL
=============================================================================
