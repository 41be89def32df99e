--------------------------- MODULE ProcessingClient ---------------------------
(***************************************************************************)
(* internal/processing/client.go in the workers that use it: where a       *)
(* worker's bearer token comes from, what becomes of it when processing no *)
(* longer accepts it, and how a saved payment is written into a request.   *)
(*                                                                         *)
(* Abstracted: tokens are numbered as processing issues them; what a score *)
(* does to the tables, and crashes between the calls of the worker's       *)
(* handler, are PaymentPipeline's.  A word of Word values stands for the   *)
(* 16 bits of a group of a UUID.                                           *)
(***************************************************************************)
EXTENDS Naturals, Sequences, FiniteSets

CONSTANTS
  Worker,       \* worker processes; each has one Client and one call at a time
  Configured,   \* those whose environment has a PROCESSING_AUTH_TOKEN
  Payment,      \* ids of payments with a job
  Saved,        \* their rows: sender, recipient, amount, payment_type
  ToUpper,      \* strings.ToUpper on the texts of payment_type
  Word,         \* values of sixteen bits
  NoPayment, NoRequest,
  MaxFaults     \* failures, crashes and expiries in a behaviour

ASSUME ClientAssumption ==
  /\ IsFiniteSet(Worker) /\ Configured \subseteq Worker
  /\ NoPayment \notin Payment /\ MaxFaults \in Nat
  /\ Word \in Nat \ {0}
  /\ \A p \in Payment :
       /\ {Saved[p].sender, Saved[p].recipient}
            \subseteq 0 .. Word * Word * Word * Word - 1
       /\ Saved[p].amount \in Nat
       /\ Saved[p].payment_type \in DOMAIN ToUpper

VARIABLES
  ready,        \* jobs in the queue
  job,          \* the job each worker has in hand
  pc,           \* where its call of Score is
  token,        \* authToken or cachedToken of its client; 0 is the empty string
  issued,       \* how many tokens processing has issued
  expired,      \* those it no longer accepts
  ledger,       \* what processing has executed, by idempotency key
  faults

vars == <<ready, job, pc, token, issued, expired, ledger, faults>>
calls == <<job, pc, ready>>
-----------------------------------------------------------------------------
\* The value of a hexadecimal group of fixed width, and the groups of an id:
\* 32, 16 and 16 bits.
idToUUID(id) ==
  <<(id \div (Word * Word)) % (Word * Word), (id \div Word) % Word, id % Word>>

IdOf(uuid) == uuid[1] * Word * Word + uuid[2] * Word + uuid[3]

\* A mutant: "%d.%d", which leaves out the leading zero of the fraction.
BareDecimal(cents) ==
  [units |-> cents \div 100,
   fraction |-> IF cents % 100 < 10 THEN <<cents % 10>>
                ELSE <<(cents % 100) \div 10, cents % 10>>]

\* "%d.%02d": the digits after the point are a sequence.
centsToDecimal(cents) ==
  [units |-> cents \div 100,
   fraction |-> <<(cents % 100) \div 10, cents % 10>>]

\* What a decimal number means to whoever reads it.
Tenths(fraction) == IF Len(fraction) > 0 THEN fraction[1] ELSE 0
Hundredths(fraction) == IF Len(fraction) > 1 THEN fraction[2] ELSE 0
CentsOf(decimal) ==
  decimal.units * 100 + Tenths(decimal.fraction) * 10 + Hundredths(decimal.fraction)

\* payment_type is free text in requests to the API; its case does not matter.
mapPaymentType(type) ==
  CASE ToUpper[type] \in {"MASS_PAYOUT", "PAYMENT"} -> "PAYMENT"
    [] ToUpper[type] = "WITHDRAWAL" -> "WITHDRAWAL"
    [] OTHER -> "TRANSFER"

IdempotencyKey(p) == <<"local-payment", p>>

RequestOf(p) ==
  [sender |-> idToUUID(Saved[p].sender),
   recipient |-> idToUUID(Saved[p].recipient),
   amount |-> centsToDecimal(Saved[p].amount),
   paymentType |-> mapPaymentType(Saved[p].payment_type)]
-----------------------------------------------------------------------------
Key == {IdempotencyKey(p) : p \in Payment}
Alive(t) == t \in (1 .. issued) \ expired
Broken == faults < MaxFaults /\ faults' = faults + 1

\* PROCESSING_AUTH_TOKEN is one token, issued beforehand, for every worker whose
\* environment has it.
ConfiguredToken == 1

\* What a new client has: the token of the environment, or an empty cache.
NewClient(w) == IF w \in Configured THEN ConfiguredToken ELSE 0

ClientInit ==
  /\ ready = Payment
  /\ job = [w \in Worker |-> NoPayment]
  /\ pc = [w \in Worker |-> "idle"]
  /\ token = [w \in Worker |-> NewClient(w)]
  /\ issued = IF Configured = {} THEN 0 ELSE ConfiguredToken
  /\ expired = {}
  /\ ledger = [k \in Key |-> NoRequest]
  /\ faults = 0

\* Score returned: the job is acknowledged, or goes back to the queue.
Ends(w, again) ==
  /\ pc' = [pc EXCEPT ![w] = "idle"]
  /\ job' = [job EXCEPT ![w] = NoPayment]
  /\ ready' = IF again THEN ready \cup {job[w]} ELSE ready

\* A mutant: the request is sent with an empty token.
TakeTokenless(w, p) ==
  /\ pc[w] = "idle"
  /\ p \in ready
  /\ ready' = ready \ {p}
  /\ job' = [job EXCEPT ![w] = p]
  /\ pc' = [pc EXCEPT ![w] = "post"]
  /\ UNCHANGED <<token, issued, expired, ledger, faults>>

\* A worker is given a job and calls Score, which asks for a token first.
Take(w, p) ==
  /\ pc[w] = "idle"
  /\ p \in ready
  /\ ready' = ready \ {p}
  /\ job' = [job EXCEPT ![w] = p]
  /\ pc' = [pc EXCEPT ![w] = IF token[w] = 0 THEN "login" ELSE "post"]
  /\ UNCHANGED <<token, issued, expired, ledger, faults>>

\* The mutex of token protects nothing here: a worker scores one job at a time.
Login(w) ==
  /\ pc[w] = "login"
  /\ issued' = issued + 1
  /\ token' = [token EXCEPT ![w] = issued + 1]
  /\ pc' = [pc EXCEPT ![w] = "post"]
  /\ UNCHANGED <<ready, job, expired, ledger, faults>>

\* No answer, an error status, or a body without a token; processing may have
\* issued one.
LoginFails(w) ==
  /\ pc[w] = "login" /\ Broken
  /\ issued' \in {issued, issued + 1}
  /\ Ends(w, TRUE)
  /\ UNCHANGED <<token, expired, ledger>>

\* Processing executes each key once and answers a repeated one as before.
Execute(w) ==
  /\ pc[w] = "post" /\ Alive(token[w])
  /\ pc' = [pc EXCEPT ![w] = "answer"]
  /\ LET k == IdempotencyKey(job[w])
     IN ledger' = [ledger EXCEPT ![k] = IF @ = NoRequest THEN RequestOf(job[w]) ELSE @]
  /\ UNCHANGED <<ready, job, token, issued, expired, faults>>

\* The answer is an error like any other: the token stays in the cache.
Unauthorised(w) ==
  /\ pc[w] = "post" /\ ~Alive(token[w])
  /\ Ends(w, TRUE)
  /\ UNCHANGED <<token, issued, expired, ledger, faults>>

\* 429 is a result, not an error: the payment is rejected.
RateLimited(w) ==
  /\ pc[w] = "post" /\ Broken
  /\ Ends(w, FALSE)
  /\ UNCHANGED <<token, issued, expired, ledger>>

\* A mutant: the token is not cached, and every call logs in.
AnsweredUncached(w) ==
  /\ pc[w] = "answer"
  /\ token' = [token EXCEPT ![w] = 0]
  /\ Ends(w, FALSE)
  /\ UNCHANGED <<issued, expired, ledger, faults>>

Answered(w) ==
  /\ pc[w] = "answer"
  /\ Ends(w, FALSE)
  /\ UNCHANGED <<token, issued, expired, ledger, faults>>

\* The request or its answer is lost, or the answer is an error or unreadable.
PostFails(w) ==
  /\ pc[w] \in {"post", "answer"} /\ Broken
  /\ Ends(w, TRUE)
  /\ UNCHANGED <<token, issued, expired, ledger>>

\* Processing stops accepting a token, at its own time.
Expire(t) ==
  /\ Alive(t) /\ Broken
  /\ expired' = expired \cup {t}
  /\ UNCHANGED <<calls, token, issued, ledger>>

\* A mutant: the cached token outlives the process.
RestartKeeping(w) ==
  /\ Ends(w, job[w] # NoPayment)
  /\ UNCHANGED <<token, issued, expired, ledger>>

\* A new process makes its client from the same environment.
Restart(w) ==
  /\ Ends(w, job[w] # NoPayment)
  /\ token' = [token EXCEPT ![w] = NewClient(w)]
  /\ UNCHANGED <<issued, expired, ledger>>

\* A process dies; or the operator restarts one that processing refuses.
Crash(w) == Broken /\ Restart(w)
Replace(w) == token[w] \in expired /\ Restart(w) /\ UNCHANGED faults

Step(w) ==
  \/ \E p \in Payment : Take(w, p)
  \/ Login(w) \/ Execute(w) \/ Unauthorised(w) \/ Answered(w)

ClientNext ==
  \/ \E w \in Worker :
       \/ Step(w)
       \/ LoginFails(w) \/ RateLimited(w) \/ PostFails(w)
       \/ Crash(w) \/ Replace(w)
  \/ \E t \in 1 .. issued : Expire(t)

ClientSpec == ClientInit /\ [][ClientNext]_vars

\* Workers run, and the operator replaces those that processing refuses.
OperatedClient ==
  /\ ClientSpec
  /\ \A w \in Worker : WF_vars(Step(w)) /\ WF_vars(Replace(w))
-----------------------------------------------------------------------------
ClientTypeOK ==
  /\ ready \subseteq Payment
  /\ job \in [Worker -> Payment \cup {NoPayment}]
  /\ pc \in [Worker -> {"idle", "login", "post", "answer"}]
  /\ token \in [Worker -> 0 .. issued]
  /\ issued \in Nat /\ expired \subseteq 1 .. issued
  /\ DOMAIN ledger = Key
  /\ faults \in 0 .. MaxFaults
  /\ \A w \in Worker :
       /\ pc[w] = "idle" <=> job[w] = NoPayment
       /\ job[w] \notin ready
       /\ pc[w] \in {"post", "answer"} => token[w] # 0

\* What processing executes under the key of a payment is that payment, whatever
\* was retried, by whichever worker: read back, the request has the parties and
\* the amount of the saved row, so that requests of different parties or amounts
\* never look alike, and a withdrawal, in whatever case it was written, and
\* nothing else is executed as one.
ExecutedAsSaved ==
  \A p \in Payment :
    LET executed == ledger[IdempotencyKey(p)]
    IN executed # NoRequest =>
         /\ IdOf(executed.sender) = Saved[p].sender
         /\ IdOf(executed.recipient) = Saved[p].recipient
         /\ CentsOf(executed.amount) = Saved[p].amount
         /\ executed.paymentType = "WITHDRAWAL" <=>
              ToUpper[Saved[p].payment_type] = "WITHDRAWAL"

\* A worker logs in once and then lives on its token: every token that was
\* issued is in use, or one failure, crash or expiry of its own accounts for it.
InUse == {t \in 1 .. issued : Alive(t) /\ \E w \in Worker : token[w] = t}

LoginsAreBounded == issued <= faults + Cardinality(InUse)

\* Processing has stopped accepting the token of the environment, which neither
\* the program nor a restart replaces.
ConfiguredRefused == Configured # {} /\ ConfiguredToken \in expired

\* The requests of jobs in the queue are answered in the end, although no worker
\* ever gives up a token that processing refuses: replacing the worker is enough,
\* unless it is the environment that has the token.
JobsAreScored ==
  \A p \in Payment :
    p \in ready ~> \/ \A w \in Worker : p \notin ready /\ job[w] # p
                   \/ ConfiguredRefused
=============================================================================
