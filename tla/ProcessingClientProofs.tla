------------------------ MODULE ProcessingClientProofs ------------------------
(***************************************************************************)
(* Theorems about ProcessingClient, for any workers, payments and failures *)
(* and any width of a word: what processing executes is the saved payment, *)
(* and workers log in no more often than failures and expiries explain.    *)
(*                                                                         *)
(* The inductive invariant keeps workers apart: no two have the same job,  *)
(* one that logs in has no token yet, and one that is configured has the   *)
(* token of its environment, so that a login adds a token to those in use, *)
(* and only a failure, a crash or an expiry takes one away.                *)
(***************************************************************************)
EXTENDS ProcessingClient, FiniteSetTheorems, TLAPS

TypesOK ==
  /\ ready \subseteq Payment
  /\ job \in [Worker -> Payment \cup {NoPayment}]
  /\ pc \in [Worker -> {"idle", "login", "post", "answer"}]
  /\ token \in [Worker -> 0 .. issued]
  /\ issued \in Nat /\ expired \subseteq 1 .. issued
  /\ DOMAIN ledger = Key
  /\ faults \in 0 .. MaxFaults

\* A job is in the queue or with one worker, whose call goes on as its token
\* tells.
JobsApart ==
  /\ \A w \in Worker :
       /\ pc[w] = "idle" <=> job[w] = NoPayment
       /\ job[w] \notin ready
       /\ pc[w] = "login" => token[w] = 0
       /\ pc[w] \in {"post", "answer"} => token[w] # 0
  /\ \A w, v \in Worker : w # v /\ job[w] = job[v] => job[w] = NoPayment

\* No new process changes the token of a worker that is configured.
TokensKept == \A w \in Configured : token[w] = ConfiguredToken

Written ==
  \A p \in Payment : ledger[IdempotencyKey(p)] \in {NoRequest, RequestOf(p)}

ClientInv == TypesOK /\ JobsApart /\ TokensKept /\ Written /\ LoginsAreBounded

-----------------------------------------------------------------------------
\* Quotient and remainder belong together, and there is only one such pair.
LEMMA Division ==
  ASSUME NEW n \in Nat, NEW d \in Nat \ {0}
  PROVE  /\ n \div d \in Nat /\ n % d \in 0 .. d - 1
         /\ n = d * (n \div d) + (n % d)
         /\ \A q, r \in Nat : n = d * q + r /\ r < d => q = n \div d /\ r = n % d
<1>1. /\ n \div d \in Nat /\ n % d \in 0 .. d - 1
      /\ n = d * (n \div d) + (n % d)
  <2>1. n \div d \in Nat
    OBVIOUS
  <2>2. n % d \in 0 .. d - 1
    OBVIOUS
  <2>3. n = (n \div d) * d + (n % d)
    OBVIOUS
  <2> QED
    BY <2>1, <2>2, <2>3
<1>2. ASSUME NEW q \in Nat, NEW r \in Nat, n = d * q + r, r < d
      PROVE  q = n \div d /\ r = n % d
  <2> DEFINE e == n \div d
             s == n % d
  <2>0. e \in Nat /\ s \in Nat /\ s < d /\ n = d * e + s
    BY <1>1
  <2> HIDE DEF e, s
  <2>1. ~ (q < e)
    <3> SUFFICES ASSUME q < e
                 PROVE  FALSE
      OBVIOUS
    <3>1. PICK k \in Nat : e = q + 1 + k
      BY <2>0
    <3>2. d * e = d * q + d + d * k /\ d * k >= 0
      BY <3>1
    <3> QED
      BY <1>2, <2>0, <3>2
  <2>2. ~ (e < q)
    <3> SUFFICES ASSUME e < q
                 PROVE  FALSE
      OBVIOUS
    <3>1. PICK k \in Nat : q = e + 1 + k
      BY <2>0
    <3>2. d * q = d * e + d + d * k /\ d * k >= 0
      BY <2>0, <3>1
    <3> QED
      BY <1>2, <2>0, <3>2
  <2>3. q = e
    BY <2>0, <2>1, <2>2
  <2>4. r = s
    BY <1>2, <2>0, <2>3
  <2> QED
    BY <2>3, <2>4 DEF e, s
<1> QED
  BY <1>1, <1>2

\* The groups of a UUID are the digits of an id of up to four words.
LEMMA UUIDHasTheId ==
  ASSUME NEW id \in 0 .. Word * Word * Word * Word - 1
  PROVE  IdOf(idToUUID(id)) = id
<1>0. Word \in Nat \ {0} /\ id \in Nat
  BY ClientAssumption DEF ClientAssumption
<1> DEFINE q == id \div Word
           r == id % Word
           h == q \div Word
           m == q % Word
           long == Word * Word
<1>1. long \in Nat \ {0}
  BY <1>0
<1>2. q \in Nat /\ r \in 0 .. Word - 1 /\ id = Word * q + r
  BY <1>0, Division
<1>3. h \in Nat /\ m \in 0 .. Word - 1 /\ q = Word * h + m
  BY <1>0, <1>2, Division
<1> HIDE DEF q, r, h, m
<1>4. id = long * h + (Word * m + r)
  <2>1. Word * q = Word * (Word * h) + Word * m
    BY <1>0, <1>3
  <2>2. Word * (Word * h) = long * h
    BY <1>0, <1>3
  <2> QED
    BY <1>0, <1>2, <1>3, <2>1, <2>2
<1>5. Word * m + r \in Nat /\ Word * m + r < long
  <2>1. PICK k \in Nat : Word = m + 1 + k
    BY <1>0, <1>3
  <2>2. long = Word * m + Word + Word * k /\ Word * k \in Nat /\ Word * m \in Nat
    BY <1>0, <1>3, <2>1
  <2> QED
    BY <1>0, <1>2, <2>2
<1> HIDE DEF long
<1>6. id \div long = h
  BY <1>0, <1>1, <1>3, <1>4, <1>5, Division
<1>7. h < long
  <2>1. id < long * long
    BY <1>0 DEF long
  <2> SUFFICES ASSUME ~ (h < long)
               PROVE  FALSE
    OBVIOUS
  <2>2. PICK k \in Nat : h = long + k
    BY <1>1, <1>3
  <2>3. long * h = long * long + long * k /\ long * k \in Nat /\ long * long \in Nat
    BY <1>1, <2>2
  <2> QED
    BY <1>4, <1>5, <2>1, <2>3
<1>8. h % long = h
  <2>1. h = long * 0 + h
    BY <1>1, <1>3
  <2> QED
    BY <1>1, <1>3, <1>7, <2>1, Division
<1>9. idToUUID(id) = <<h, m, r>>
  BY <1>6, <1>8 DEF idToUUID, q, r, m, long
<1>10. IdOf(<<h, m, r>>) = h * Word * Word + m * Word + r
  BY DEF IdOf
<1>11. h * Word * Word = long * h /\ m * Word = Word * m
  BY <1>0, <1>3 DEF long
<1> QED
  BY <1>0, <1>1, <1>2, <1>3, <1>4, <1>9, <1>10, <1>11

\* Two digits after the point are the cents, also when the first one is zero.
LEMMA DecimalHasTheCents ==
  ASSUME NEW cents \in Nat
  PROVE  CentsOf(centsToDecimal(cents)) = cents
<1>1. /\ Tenths(centsToDecimal(cents).fraction) = (cents % 100) \div 10
      /\ Hundredths(centsToDecimal(cents).fraction) = cents % 10
      /\ centsToDecimal(cents).units = cents \div 100
  BY DEF centsToDecimal, Tenths, Hundredths
<1>2. (cents \div 100) * 100 + ((cents % 100) \div 10) * 10 + (cents % 10) = cents
  <2> DEFINE h == cents % 100
           f == cents \div 100
  <2>1. h \in 0 .. 99 /\ f \in Nat /\ cents = 100 * f + h
    OBVIOUS
  <2>2. cents % 10 = h % 10
    OBVIOUS
  <2> HIDE DEF h, f
  <2>3. h \div 10 \in Nat /\ h % 10 \in Nat /\ h = 10 * (h \div 10) + (h % 10)
    BY <2>1
  <2>4. f * 100 + (h \div 10) * 10 + (cents % 10) = cents
    BY <2>1, <2>2, <2>3
  <2> QED
    BY <2>4 DEF f, h
<1> QED
  BY <1>1, <1>2 DEF CentsOf

\* Processing reads the saved payment in the request.
LEMMA RequestIsThePayment ==
  ASSUME NEW p \in Payment
  PROVE  /\ IdOf(RequestOf(p).sender) = Saved[p].sender
         /\ IdOf(RequestOf(p).recipient) = Saved[p].recipient
         /\ CentsOf(RequestOf(p).amount) = Saved[p].amount
         /\ RequestOf(p).paymentType = "WITHDRAWAL" <=>
              ToUpper[Saved[p].payment_type] = "WITHDRAWAL"
<1>1. /\ Saved[p].sender \in 0 .. Word * Word * Word * Word - 1
      /\ Saved[p].recipient \in 0 .. Word * Word * Word * Word - 1
      /\ Saved[p].amount \in Nat
  BY ClientAssumption DEF ClientAssumption
<1>2. RequestOf(p).paymentType = "WITHDRAWAL" <=>
        ToUpper[Saved[p].payment_type] = "WITHDRAWAL"
  BY DEF RequestOf, mapPaymentType
<1> QED
  BY <1>1, <1>2, UUIDHasTheId, DecimalHasTheCents DEF RequestOf

-----------------------------------------------------------------------------
\* What the assumptions give, and the fields of ClientTypeOK that are apart here.
LEMMA ClientTypes ==
  /\ IsFiniteSet(Worker) /\ Configured \subseteq Worker
  /\ NoPayment \notin Payment /\ MaxFaults \in Nat
  /\ TypesOK /\ JobsApart => ClientTypeOK
BY ClientAssumption DEF ClientAssumption, TypesOK, JobsApart, ClientTypeOK

\* Tokens in use are finitely many, in the next state as well; a set of tokens
\* with one more has one more.
LEMMA TokensInUse ==
  ASSUME TypesOK
  PROVE  /\ IsFiniteSet(InUse) /\ Cardinality(InUse) \in Nat
         /\ \A t : t \notin InUse => Cardinality(InUse \cup {t}) = Cardinality(InUse) + 1
         /\ \A S, t : IsFiniteSet(S) /\ InUse \subseteq S \cup {t} =>
              Cardinality(InUse) <= Cardinality(S) + 1
<1>1. IsFiniteSet(InUse) /\ Cardinality(InUse) \in Nat
  <2>1. IsFiniteSet(1 .. issued) /\ InUse \subseteq 1 .. issued
    BY FS_Interval DEF TypesOK, InUse
  <2> QED
    BY <2>1, FS_Subset, FS_CardinalityType
<1>2. ASSUME NEW t, t \notin InUse
      PROVE  Cardinality(InUse \cup {t}) = Cardinality(InUse) + 1
  BY <1>1, <1>2, FS_AddElement
<1>3. ASSUME NEW S, NEW t, IsFiniteSet(S), InUse \subseteq S \cup {t}
      PROVE  Cardinality(InUse) <= Cardinality(S) + 1
  <2>1. /\ IsFiniteSet(S \cup {t}) /\ Cardinality(S) \in Nat
        /\ Cardinality(S \cup {t}) \in {Cardinality(S), Cardinality(S) + 1}
    BY <1>3, FS_AddElement, FS_CardinalityType
  <2>2. Cardinality(InUse) <= Cardinality(S \cup {t})
    BY <1>3, <2>1, FS_Subset
  <2> QED
    BY <1>1, <2>1, <2>2
<1> QED
  BY <1>1, <1>2, <1>3

\* The steps of a call that leave tokens alone.
LEMMA CallStep ==
  ASSUME ClientInv, NEW w \in Worker,
         \/ \E p \in Payment : Take(w, p)
         \/ Execute(w) \/ Unauthorised(w) \/ RateLimited(w) \/ Answered(w) \/ PostFails(w)
  PROVE  ClientInv'
<1>0. TypesOK /\ JobsApart /\ TokensKept /\ Written /\ LoginsAreBounded
  BY DEF ClientInv
<1>1. TypesOK'
  <2>1. CASE \E p \in Payment : Take(w, p)
    BY <1>0, <2>1 DEF TypesOK, Take
  <2>2. CASE Execute(w)
    BY <1>0, <2>2 DEF TypesOK, Execute
  <2>3. CASE Unauthorised(w) \/ RateLimited(w) \/ Answered(w) \/ PostFails(w)
    <3>1. job[w] \in Payment
      BY <1>0, <2>3 DEF TypesOK, JobsApart, Unauthorised, RateLimited, Answered, PostFails
    <3>2. \E again \in BOOLEAN : Ends(w, again)
      BY <2>3 DEF Unauthorised, RateLimited, Answered, PostFails
    <3>3. /\ ready' \subseteq Payment /\ job' \in [Worker -> Payment \cup {NoPayment}]
          /\ pc' \in [Worker -> {"idle", "login", "post", "answer"}]
      BY <1>0, <3>1, <3>2 DEF TypesOK, Ends
    <3>4. UNCHANGED <<token, issued, expired, ledger>> /\ (UNCHANGED faults \/ Broken)
      BY <2>3 DEF Unauthorised, RateLimited, Answered, PostFails
    <3> QED
      BY <1>0, <3>3, <3>4, ClientTypes DEF TypesOK, Broken
  <2> QED
    BY <2>1, <2>2, <2>3
<1>2. JobsApart'
  <2>1. CASE \E p \in Payment : Take(w, p)
    BY <1>0, <2>1, ClientTypes DEF TypesOK, JobsApart, Take
  <2>2. CASE Execute(w)
    BY <1>0, <2>2 DEF TypesOK, JobsApart, Execute
  <2>3. CASE Unauthorised(w) \/ RateLimited(w) \/ Answered(w) \/ PostFails(w)
    <3>1. /\ pc[w] \in {"post", "answer"} /\ UNCHANGED token
          /\ \E again \in BOOLEAN : Ends(w, again)
      BY <2>3 DEF Unauthorised, RateLimited, Answered, PostFails
    <3> QED
      BY <1>0, <3>1, ClientTypes DEF TypesOK, JobsApart, Ends
  <2> QED
    BY <2>1, <2>2, <2>3
<1>3. /\ UNCHANGED <<token, issued, expired>>
      /\ faults' = faults \/ faults' = faults + 1
  BY DEF Take, Execute, Unauthorised, RateLimited, Answered, PostFails, Broken
<1>4. TokensKept'
  BY <1>0, <1>3 DEF TokensKept
<1>5. LoginsAreBounded'
  <2>1. InUse' = InUse
    BY <1>3 DEF InUse, Alive
  <2> QED
    BY <1>0, <1>3, <2>1, TokensInUse DEF TypesOK, LoginsAreBounded
<1>6. Written'
  <2>1. CASE Execute(w)
    <3>1. job[w] \in Payment
      BY <1>0, <2>1 DEF Execute, JobsApart, TypesOK
    <3>2. \A p \in Payment : IdempotencyKey(p) \in DOMAIN ledger
      BY <1>0 DEF TypesOK, Key
    <3>3. \A p \in Payment : IdempotencyKey(p) = IdempotencyKey(job[w]) => p = job[w]
      BY DEF IdempotencyKey
    <3> QED
      BY <1>0, <2>1, <3>1, <3>2, <3>3 DEF Execute, Written
  <2>2. CASE UNCHANGED ledger
    BY <1>0, <2>2 DEF Written
  <2> QED
    BY <2>1, <2>2 DEF Take, Unauthorised, RateLimited, Answered, PostFails
<1> QED
  BY <1>1, <1>2, <1>4, <1>5, <1>6 DEF ClientInv

\* A worker that logs in had no token, and gets one that nobody has had.
LEMMA LoginStep ==
  ASSUME ClientInv, NEW w \in Worker, Login(w) \/ LoginFails(w)
  PROVE  ClientInv'
<1>0. TypesOK /\ JobsApart /\ TokensKept /\ Written /\ LoginsAreBounded
  BY DEF ClientInv
<1>1. TypesOK'
  <2>1. CASE Login(w)
    BY <1>0, <2>1 DEF TypesOK, Login
  <2>2. CASE LoginFails(w)
    <3>1. job[w] # NoPayment
      BY <1>0, <2>2 DEF JobsApart, LoginFails
    <3> QED
      BY <1>0, <2>2, <3>1, ClientTypes DEF TypesOK, LoginFails, Ends, Broken
  <2> QED
    BY <2>1, <2>2
<1>2. JobsApart'
  <2>1. CASE Login(w)
    BY <1>0, <2>1 DEF TypesOK, JobsApart, Login
  <2>2. CASE LoginFails(w)
    BY <1>0, <2>2, ClientTypes DEF TypesOK, JobsApart, LoginFails, Ends
  <2> QED
    BY <2>1, <2>2
<1>3. TokensKept'
  <2>1. CASE Login(w)
    BY <1>0, <2>1 DEF TypesOK, JobsApart, TokensKept, Login, ConfiguredToken
  <2>2. CASE LoginFails(w)
    BY <1>0, <2>2 DEF TokensKept, LoginFails
  <2> QED
    BY <2>1, <2>2
<1>4. Written'
  BY <1>0 DEF Written, Login, LoginFails
<1>5. LoginsAreBounded'
  <2>1. CASE Login(w)
    <3>1. issued + 1 \notin InUse /\ InUse' = InUse \cup {issued + 1}
      BY <1>0, <2>1 DEF TypesOK, JobsApart, Login, InUse, Alive
    <3>2. Cardinality(InUse') = Cardinality(InUse) + 1
      BY <1>0, <3>1, TokensInUse
    <3> QED
      BY <1>0, <2>1, <3>2, TokensInUse DEF TypesOK, Login, LoginsAreBounded
  <2>2. CASE LoginFails(w)
    <3>1. InUse' = InUse
      BY <1>0, <2>2 DEF TypesOK, LoginFails, InUse, Alive
    <3>2. faults' = faults + 1 /\ issued' <= issued + 1 /\ issued' \in Nat
      BY <1>0, <2>2 DEF TypesOK, LoginFails, Broken
    <3> QED
      BY <1>0, <3>1, <3>2, TokensInUse DEF TypesOK, LoginsAreBounded
  <2> QED
    BY <2>1, <2>2
<1> QED
  BY <1>1, <1>2, <1>3, <1>4, <1>5 DEF ClientInv

\* A token that expires is one token fewer in use.
LEMMA ExpireStep ==
  ASSUME ClientInv, NEW t \in 1 .. issued, Expire(t)
  PROVE  ClientInv'
<1>0. TypesOK /\ JobsApart /\ TokensKept /\ Written /\ LoginsAreBounded
  BY DEF ClientInv
<1>1. /\ UNCHANGED <<job, pc, ready, token, issued, ledger>>
      /\ expired' = expired \cup {t} /\ faults' = faults + 1
      /\ faults < MaxFaults
  BY DEF Expire, Broken, calls
<1>2. TypesOK' /\ JobsApart' /\ TokensKept' /\ Written'
  BY <1>0, <1>1, ClientTypes DEF TypesOK, JobsApart, TokensKept, Written
<1>3. IsFiniteSet(InUse') /\ Cardinality(InUse') \in Nat
  <2>1. InUse' \subseteq InUse
    BY <1>1 DEF InUse, Alive
  <2> QED
    BY <1>0, <2>1, TokensInUse, FS_Subset, FS_CardinalityType
<1>4. InUse \subseteq InUse' \cup {t}
  BY <1>1 DEF InUse, Alive
<1>5. LoginsAreBounded'
  <2>1. Cardinality(InUse) <= Cardinality(InUse') + 1
    BY <1>0, <1>3, <1>4, TokensInUse
  <2> QED
    BY <1>0, <1>1, <1>3, <2>1, TokensInUse DEF TypesOK, LoginsAreBounded
<1> QED
  BY <1>2, <1>5 DEF ClientInv

\* A new process forgets the token that the old one had got by logging in: a
\* failure accounts for it, or processing had stopped accepting it.
LEMMA RestartStep ==
  ASSUME ClientInv, NEW w \in Worker, Crash(w) \/ Replace(w)
  PROVE  ClientInv'
<1>0. TypesOK /\ JobsApart /\ TokensKept /\ Written /\ LoginsAreBounded
  BY DEF ClientInv
<1>1. Restart(w) /\ UNCHANGED <<expired, ledger>>
  BY DEF Crash, Replace, Restart
<1>2. \/ faults' = faults + 1 /\ faults < MaxFaults
      \/ faults' = faults /\ token[w] \in expired
  BY DEF Crash, Replace, Broken
<1>kept. NewClient(w) \in {0, token[w]}
  BY <1>0 DEF NewClient, TokensKept
<1>3. TypesOK'
  <2>1. /\ ready' \subseteq Payment /\ job' \in [Worker -> Payment \cup {NoPayment}]
        /\ pc' \in [Worker -> {"idle", "login", "post", "answer"}]
    BY <1>0, <1>1 DEF TypesOK, Restart, Ends
  <2>2. token' \in [Worker -> 0 .. issued']
    BY <1>0, <1>1, <1>kept DEF TypesOK, Restart
  <2> QED
    BY <1>0, <1>1, <1>2, <2>1, <2>2, ClientTypes DEF TypesOK, Restart
<1>4. JobsApart'
  <2>1. \A v \in Worker : v # w => token'[v] = token[v]
    BY <1>0, <1>1 DEF TypesOK, Restart
  <2>2. \E again \in BOOLEAN : Ends(w, again) /\ (again <=> job[w] # NoPayment)
    BY <1>1 DEF Restart
  <2> QED
    BY <1>0, <2>1, <2>2, ClientTypes DEF TypesOK, JobsApart, Ends
<1>5. TokensKept'
  BY <1>0, <1>1, ClientTypes DEF TypesOK, TokensKept, Restart, NewClient
<1>6. Written'
  BY <1>0, <1>1 DEF Written
<1>7. LoginsAreBounded'
  <2>0. InUse' \subseteq InUse /\ issued' = issued
    BY <1>0, <1>1, <1>kept DEF TypesOK, Restart, InUse, Alive
  <2>1. IsFiniteSet(InUse') /\ Cardinality(InUse') \in Nat
    BY <1>0, <2>0, TokensInUse, FS_Subset, FS_CardinalityType
  <2>2. CASE faults' = faults + 1
    <3>1. InUse \subseteq InUse' \cup {token[w]}
      BY <1>0, <1>1 DEF TypesOK, Restart, InUse, Alive
    <3>2. Cardinality(InUse) <= Cardinality(InUse') + 1
      BY <1>0, <2>1, <3>1, TokensInUse
    <3> QED
      BY <1>0, <2>0, <2>1, <2>2, <3>2, TokensInUse DEF TypesOK, LoginsAreBounded
  <2>3. CASE faults' = faults /\ token[w] \in expired
    <3>1. InUse' = InUse
      BY <1>0, <1>1, <1>kept, <2>3 DEF TypesOK, Restart, InUse, Alive
    <3> QED
      BY <1>0, <2>0, <2>3, <3>1 DEF LoginsAreBounded
  <2> QED
    BY <1>2, <2>2, <2>3
<1> QED
  BY <1>3, <1>4, <1>5, <1>6, <1>7 DEF ClientInv

\* The invariant holds at the start and through every step.
LEMMA ClientInvAlways == ClientSpec => []ClientInv
<1>1. ClientInit => ClientInv
  <2> SUFFICES ASSUME ClientInit
               PROVE  ClientInv
    OBVIOUS
  <2>1. TypesOK
    BY ClientTypes DEF ClientInit, TypesOK, NewClient, ConfiguredToken
  <2>2. JobsApart /\ TokensKept
    BY ClientTypes DEF ClientInit, JobsApart, TokensKept, NewClient
  <2>3. Written
    BY DEF ClientInit, Written, Key
  <2>4. LoginsAreBounded
    <3>1. CASE Configured = {}
      BY <2>1, <3>1, TokensInUse DEF ClientInit, LoginsAreBounded
    <3>2. CASE Configured # {}
      <4>1. PICK w \in Worker : token[w] = ConfiguredToken
        BY <2>2, <3>2, ClientTypes DEF TokensKept
      <4>2. InUse = {1}
        BY <3>2, <4>1 DEF ClientInit, InUse, Alive, ConfiguredToken
      <4> QED
        BY <3>2, <4>2, FS_Singleton DEF ClientInit, LoginsAreBounded, ConfiguredToken
    <3> QED
      BY <3>1, <3>2
  <2> QED
    BY <2>1, <2>2, <2>3, <2>4 DEF ClientInv
<1>2. ClientInv /\ [ClientNext]_vars => ClientInv'
  <2> SUFFICES ASSUME ClientInv, [ClientNext]_vars
               PROVE  ClientInv'
    OBVIOUS
  <2>1. CASE \E w \in Worker :
               Step(w) \/ LoginFails(w) \/ RateLimited(w) \/ PostFails(w) \/ Crash(w) \/ Replace(w)
    BY <2>1, CallStep, LoginStep, RestartStep DEF Step
  <2>2. CASE \E t \in 1 .. issued : Expire(t)
    BY <2>2, ExpireStep
  <2>3. CASE UNCHANGED vars
    BY <2>3
    DEF vars, ClientInv, TypesOK, JobsApart, TokensKept, Written,
        LoginsAreBounded, InUse, Alive
  <2> QED
    BY <2>1, <2>2, <2>3 DEF ClientNext
<1> QED
  BY <1>1, <1>2, PTL DEF ClientSpec

-----------------------------------------------------------------------------
\* A job is in the queue or with the one worker whose call of Score has it, and
\* no request is sent without a token.
THEOREM ClientTypeCorrect == ClientSpec => []ClientTypeOK
<1>1. ClientInv => ClientTypeOK
  BY ClientTypes DEF ClientInv
<1> QED
  BY <1>1, ClientInvAlways, PTL

\* However often a payment is retried, and by whichever worker, processing
\* executes the parties, the amount and the kind of the saved row.
THEOREM AlwaysExecutedAsSaved == ClientSpec => []ExecutedAsSaved
<1>1. ClientInv => ExecutedAsSaved
  <2> SUFFICES ASSUME ClientInv, NEW p \in Payment,
                      ledger[IdempotencyKey(p)] # NoRequest
               PROVE  LET executed == ledger[IdempotencyKey(p)]
                      IN  /\ IdOf(executed.sender) = Saved[p].sender
                          /\ IdOf(executed.recipient) = Saved[p].recipient
                          /\ CentsOf(executed.amount) = Saved[p].amount
                          /\ executed.paymentType = "WITHDRAWAL" <=>
                               ToUpper[Saved[p].payment_type] = "WITHDRAWAL"
    BY DEF ExecutedAsSaved
  <2>1. ledger[IdempotencyKey(p)] = RequestOf(p)
    BY DEF ClientInv, Written
  <2> QED
    BY <2>1, RequestIsThePayment
<1> QED
  BY <1>1, ClientInvAlways, PTL

\* Every token that processing issued is in use, or a failure, a crash or an
\* expiry accounts for it.
THEOREM LoginsAreAccountedFor == ClientSpec => []LoginsAreBounded
<1>1. ClientInv => LoginsAreBounded
  BY DEF ClientInv
<1> QED
  BY <1>1, ClientInvAlways, PTL
=============================================================================
