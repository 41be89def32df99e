--------------------------- MODULE ConnectionPool ---------------------------
(***************************************************************************)
(* The pool of database connections that all handlers of the API share     *)
(* (pgxpool in store.Store), and the order in which the handlers borrow    *)
(* from it.  What the statements read and write is in the other modules:   *)
(* here a request is the list of its store calls, each of which takes a    *)
(* connection, waits if there is none, and gives it back.  One call does   *)
(* not: for a banker or an admin, ListPayments runs the query of clients,  *)
(* drops its rows without closing them and runs a second query.            *)
(*                                                                         *)
(* The pool is a library, modelled as the code uses it: rows keep their    *)
(* connection until they are closed, also when their context has ended.    *)
(***************************************************************************)
EXTENDS Integers, Sequences, FiniteSets

CONSTANTS
  Request,      \* requests to the API
  Route,        \* the handler each request asks for
  Staff,        \* requests whose token belongs to a banker or an admin
  MaxConns,     \* the limit of the pool (pgxpool: the cores, at least four)
  MaxFaults     \* bound on failed statements and clients that give up

\* The store calls of the handlers.  "query" stands for a call that returns its
\* connection (QueryRow, Exec, a transaction, rows with a deferred Close),
\* "dropped" for one whose rows are never closed.
OneCallHandler ==
  {"createPayment", "getPayment", "bankerQueue", "searchClients", "bankerStats",
   "bankerHistory", "decide", "adminUsers", "adminCreateUser", "adminAudit",
   "adminBankerHistory"}
Public == {"register", "login"}
Handler == OneCallHandler \cup Public \cup
  {"me", "listPayments", "clientProfile", "adminStats", "adminClientHistory"}

ASSUME PoolAssumption ==
  /\ Route \in [Request -> Handler]
  /\ Staff \subseteq Request
  /\ MaxConns \in Nat \ {0}
  /\ MaxFaults \in Nat

Query == <<"query">>

\* A mutant: the first query of ListPayments is dropped whoever asks.
ListForEveryone(staff) == <<"dropped", "query">>

ListPayments(staff) == IF staff THEN <<"dropped", "query">> ELSE Query

\* UserByID, the counts, and PaymentsForUser.
ClientProfile == Query \o Query \o Query

\* The calls of a handler, after the middleware has let it through.
HandlerCalls(handler, staff) ==
  CASE handler = "me" -> <<>>
    [] handler = "listPayments" -> ListPayments(staff)
    [] handler = "clientProfile" -> ClientProfile
    [] handler = "adminStats" -> Query \o Query
    [] handler = "adminClientHistory" -> ClientProfile \o Query
    [] handler \in OneCallHandler -> Query

\* A public handler starts at once, the others after UserByID in authenticated;
\* register counts the admins first when it is asked for one.
Plans(r) ==
  IF Route[r] \in Public
  THEN {Query} \cup (IF Route[r] = "register" THEN {Query \o Query} ELSE {})
  ELSE {Query \o HandlerCalls(Route[r], r \in Staff)}

VARIABLES
  idle,         \* connections that the pool can hand out
  held,         \* how many connections each request has taken and not returned
  todo,         \* the store calls each request has still to finish
  pc,           \* where each request is
  faults        \* failures so far

vars == <<idle, held, todo, pc, faults>>

PoolInit ==
  /\ idle = MaxConns
  /\ held = [r \in Request |-> 0]
  /\ todo = [r \in Request |-> <<>>]
  /\ pc = [r \in Request |-> "new"]
  /\ faults = 0

Fault == faults < MaxFaults /\ faults' = faults + 1

\* On to the next store call, or to the end of the handler.
Proceed(r, calls) ==
  /\ todo' = [todo EXCEPT ![r] = calls]
  /\ pc' = [pc EXCEPT ![r] = IF calls = <<>> THEN "answered" ELSE "wait"]

Fail(r) ==
  /\ todo' = [todo EXCEPT ![r] = <<>>]
  /\ pc' = [pc EXCEPT ![r] = "failed"]

GiveBack(r) ==
  /\ held' = [held EXCEPT ![r] = @ - 1]
  /\ idle' = idle + 1

Runs(r, call) == pc[r] = "run" /\ Head(todo[r]) = call
-----------------------------------------------------------------------------
Arrive(r) ==
  /\ pc[r] = "new"
  /\ \E plan \in Plans(r) : Proceed(r, plan)
  /\ UNCHANGED <<idle, held, faults>>

\* The pool hands out an idle connection, or opens one below its limit.
Acquire(r) ==
  /\ pc[r] = "wait" /\ idle > 0
  /\ idle' = idle - 1
  /\ held' = [held EXCEPT ![r] = @ + 1]
  /\ pc' = [pc EXCEPT ![r] = "run"]
  /\ UNCHANGED <<todo, faults>>

\* A call has its result.  The handler may end with it: no such user or
\* payment, a role that does not suffice, an email that is taken.
Return(r) ==
  /\ Runs(r, "query")
  /\ GiveBack(r)
  /\ Proceed(r, Tail(todo[r])) \/ Proceed(r, <<>>)
  /\ UNCHANGED faults

\* The rows of the first query are overwritten by those of the second.
Overwrite(r) ==
  /\ Runs(r, "dropped")
  /\ Proceed(r, Tail(todo[r]))
  /\ UNCHANGED <<idle, held, faults>>

\* A mutant: a statement that fails keeps its connection.
KeepOnError(r) ==
  /\ Fault
  /\ pc[r] = "run" /\ Fail(r)
  /\ UNCHANGED <<idle, held>>

\* A statement fails: its connection goes back, or is replaced, and the handler
\* answers 500.  The error of a dropped query is overwritten like its rows.
CallFails(r) ==
  /\ Fault
  /\ GiveBack(r)
  /\ \/ Runs(r, "query") /\ Fail(r)
     \/ Runs(r, "dropped") /\ Proceed(r, Tail(todo[r]))

\* A mutant: a request that stops waiting returns a connection it never got.
GiveUpReturning(r) ==
  /\ Fault
  /\ pc[r] \in {"wait", "run"} /\ GiveBack(r)
  /\ Fail(r)

\* The context of the request ends, because its client has gone: every call it
\* waits in or makes from then on fails.
GiveUp(r) ==
  /\ Fault
  /\ \/ pc[r] = "run" /\ GiveBack(r)
     \/ pc[r] = "wait" /\ UNCHANGED <<idle, held>>
  /\ Fail(r)

PoolNext ==
  \E r \in Request : \/ Arrive(r) \/ Acquire(r) \/ Return(r) \/ Overwrite(r)
                     \/ CallFails(r) \/ GiveUp(r)

PoolSpec == PoolInit /\ [][PoolNext]_vars

\* The database answers, and a request at the head of the pool's queue gets the
\* connection that comes free.
FairPoolSpec ==
  PoolSpec /\ \A r \in Request : WF_vars(Acquire(r)) /\ WF_vars(Return(r) \/ Overwrite(r))
-----------------------------------------------------------------------------
StaffListings == {r \in Staff : Route[r] = "listPayments"}
Ended(r) == pc[r] \in {"answered", "failed"}

\* The connections that are not idle: the i-th one of each request.
Lent == UNION {{r} \X (1 .. held[r]) : r \in Request}

PoolTypeOK ==
  /\ idle \in 0 .. MaxConns
  /\ held \in [Request -> 0 .. MaxConns]
  /\ todo \in [Request -> Seq({"query", "dropped"})]
  /\ pc \in [Request -> {"new", "wait", "run", "answered", "failed"}]
  /\ faults \in 0 .. MaxFaults

\* A request has a connection exactly while it runs a statement: none waits for
\* one while it has another, so requests cannot block each other for good, and a
\* request that ends by an error or because its client has gone leaves nothing
\* behind.  The exception are the listings of bankers and admins: each takes at
\* most one connection out of the pool for good.  No connection is returned
\* twice, which would let more than MaxConns statements run: each is either idle
\* or with one request.
HoldsOneWhileRunning ==
  /\ \A r \in Request :
       LET running == IF pc[r] = "run" THEN 1 ELSE 0
       IN \/ held[r] = running
          \/ held[r] = running + 1 /\ r \in StaffListings
  /\ idle + Cardinality(Lent) = MaxConns

\* As long as fewer such listings have been served than the pool has
\* connections, every request comes to its end.
RequestsEnd == \A r \in Request : pc[r] = "wait" ~> Ended(r)

\* openapi.go:206-220: GET /api/payments is answered with the list, or with 401.
ListIsAnswered ==
  \A r \in Request : Route[r] = "listPayments" /\ pc[r] = "wait" ~> pc[r] = "answered"
=============================================================================
