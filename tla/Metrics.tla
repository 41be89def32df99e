------------------------------- MODULE Metrics -------------------------------
(***************************************************************************)
(* internal/httpapi/metrics.go: the counters of finished requests and the  *)
(* scrapes that read them.  A scrape writes to its client while it holds   *)
(* the mutex that every finished request needs, and a client that does not *)
(* read is cut off by the WriteTimeout of cmd/api/main.go only.            *)
(*                                                                         *)
(* Abstracted: a label is the key of the map; the header lines of a page   *)
(* and the uptime are left out.                                            *)
(***************************************************************************)
EXTENDS Naturals, FiniteSets

CONSTANTS
  Label,        \* method, sanitised path and status: the counters looked at
  Scrape,       \* requests of /metrics, which are not counted themselves
  NoScrape

ASSUME MetricsAssumption == NoScrape \notin Scrape

VARIABLES
  requests,     \* the map of counters
  holder,       \* the scrape that holds the mutex
  stage,        \* where each scrape is: waiting, writing, full or cut
  page          \* the lines it has written: a value per label, 0 for none

metricsVars == <<requests, holder, stage, page>>

NoPage == [l \in Label |-> 0]

MetricsInit ==
  /\ requests = [l \in Label |-> 0]
  /\ holder = NoScrape
  /\ stage = [s \in Scrape |-> "waiting"]
  /\ page = [s \in Scrape |-> NoPage]
-----------------------------------------------------------------------------
\* Lock, increment and unlock, with nothing in between that waits.  A label
\* outside Label is counted too, where the model does not look.
observe(l) ==
  /\ holder = NoScrape
  /\ requests' = [requests EXCEPT ![l] = @ + 1]
  /\ UNCHANGED <<holder, stage, page>>

\* A mutant: the mutex is released before the lines are written.
LockBriefly(s) ==
  /\ stage[s] = "waiting" /\ holder = NoScrape
  /\ stage' = [stage EXCEPT ![s] = "writing"]
  /\ UNCHANGED <<holder, requests, page>>

Lock(s) ==
  /\ stage[s] = "waiting" /\ holder = NoScrape
  /\ holder' = s
  /\ stage' = [stage EXCEPT ![s] = "writing"]
  /\ UNCHANGED <<requests, page>>

\* The map is ranged over in no particular order.
Unwritten(s) == {l \in Label : requests[l] > 0 /\ page[s][l] = 0}

WriteLine(s, l) ==
  /\ stage[s] = "writing" /\ l \in Unwritten(s)
  /\ page' = [page EXCEPT ![s][l] = requests[l]]
  /\ UNCHANGED <<requests, holder, stage>>

Unlock(s) == holder' = IF holder = s THEN NoScrape ELSE holder

EndPage(s) ==
  /\ stage[s] = "writing" /\ Unwritten(s) = {}
  /\ stage' = [stage EXCEPT ![s] = "full"]
  /\ Unlock(s)
  /\ UNCHANGED <<requests, page>>

\* A mutant: a server without WriteTimeout, whose writes block.
NeverCut(s) ==
  /\ stage[s] = "writing" /\ Unwritten(s) = {}
  /\ stage' = [stage EXCEPT ![s] = "cut"]
  /\ Unlock(s)
  /\ UNCHANGED <<requests, page>>

\* The deadline of the connection passes: what is left to write fails without
\* waiting, and the errors are ignored.  Nobody has the page.
Cut(s) ==
  /\ stage[s] = "writing"
  /\ stage' = [stage EXCEPT ![s] = "cut"]
  /\ page' = [page EXCEPT ![s] = NoPage]
  /\ Unlock(s)
  /\ UNCHANGED requests

ScrapeStep(s) ==
  \/ Lock(s) \/ EndPage(s) \/ Cut(s)
  \/ \E l \in Label : WriteLine(s, l)

MetricsNext ==
  \/ \E l \in Label : observe(l)
  \/ \E s \in Scrape : ScrapeStep(s)

MetricsSpec == MetricsInit /\ [][MetricsNext]_metricsVars
-----------------------------------------------------------------------------
\* Two full pages show the counters at two moments: one of them is the earlier
\* in every line, so that no rate computed from them is negative and no request
\* is on one page without those counted before it.
ScrapesAgree ==
  \A s, t \in {u \in Scrape : stage[u] = "full"} :
    \/ \A l \in Label : page[s][l] <= page[t][l]
    \/ \A l \in Label : page[t][l] <= page[s][l]
=============================================================================
