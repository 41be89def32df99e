-------------------------- MODULE ConnectionPoolProofs --------------------------
(***************************************************************************)
(* Theorems about ConnectionPool, for any set of requests, any routes and  *)
(* any limit of the pool: a request has a connection exactly while it runs *)
(* a statement, but for the one that a listing of bankers loses.           *)
(*                                                                         *)
(* The inductive invariant looks ahead in the calls that a request has to  *)
(* make: there is at most one call left that keeps its connection, only    *)
(* listings of bankers and admins have it, and none has lost one before.   *)
(***************************************************************************)
EXTENDS ConnectionPool, SequenceTheorems, FiniteSetTheorems, TLAPS

Call == {"query", "dropped"}

\* A list of calls that a request may have left.
Sound(r, calls) ==
  /\ calls \in Seq(Call)
  /\ \A i \in 1 .. Len(calls) : calls[i] = "dropped" =>
       /\ r \in StaffListings
       /\ \A j \in 1 .. Len(calls) : calls[j] = "dropped" => i = j

Drops(calls) == \E i \in 1 .. Len(calls) : calls[i] = "dropped"

Running(r) == IF pc[r] = "run" THEN 1 ELSE 0

RequestOK(r) ==
  /\ Sound(r, todo[r])
  /\ pc[r] \in {"wait", "run"} => todo[r] # <<>>
  /\ pc[r] = "new" => held[r] = 0
  /\ \/ held[r] = Running(r)
     \/ held[r] = Running(r) + 1 /\ r \in StaffListings /\ ~ Drops(todo[r])

TypesOK ==
  /\ todo \in [Request -> Seq(Call)]
  /\ pc \in [Request -> {"new", "wait", "run", "answered", "failed"}]
  /\ faults \in 0 .. MaxFaults

CountOK ==
  /\ idle \in Nat /\ held \in [Request -> Nat]
  /\ IsFiniteSet(Lent) /\ idle + Cardinality(Lent) = MaxConns

PoolInv == TypesOK /\ CountOK /\ \A r \in Request : RequestOK(r)

-----------------------------------------------------------------------------
\* Calls that all give their connection back.
Plain(calls) ==
  /\ calls \in Seq(Call) /\ calls # <<>>
  /\ \A i \in 1 .. Len(calls) : calls[i] = "query"

\* One such list after another is one.
LEMMA PlainCalls ==
  /\ Plain(Query)
  /\ \A s, t : Plain(s) /\ Plain(t) => Plain(s \o t)
<1>1. Plain(Query)
  BY DEF Plain, Query, Call
<1>2. ASSUME NEW s, NEW t, Plain(s), Plain(t)
      PROVE  Plain(s \o t)
  <2>0. s \in Seq(Call) /\ t \in Seq(Call)
    BY <1>2 DEF Plain
  <2>1. /\ s \o t \in Seq(Call) /\ Len(s \o t) = Len(s) + Len(t)
        /\ \A i \in 1 .. Len(s) + Len(t) :
             (s \o t)[i] = IF i <= Len(s) THEN s[i] ELSE t[i - Len(s)]
    BY <2>0, ConcatProperties
  <2>2. s \o t # <<>>
    BY <1>2, <2>0, ConcatEqualIffEmpty DEF Plain
  <2>3. Len(s) \in Nat /\ Len(t) \in Nat
    BY <2>0, LenProperties
  <2>4. ASSUME NEW i \in 1 .. Len(s) + Len(t)
        PROVE  (s \o t)[i] = "query"
    <3>1. CASE i <= Len(s)
      <4>1. i \in 1 .. Len(s)
        BY <2>3, <3>1
      <4> QED
        BY <1>2, <2>1, <3>1, <4>1 DEF Plain
    <3>2. CASE ~ (i <= Len(s))
      <4>1. i - Len(s) \in 1 .. Len(t)
        BY <2>3, <3>2
      <4> QED
        BY <1>2, <2>1, <3>2, <4>1 DEF Plain
    <3> QED
      BY <3>1, <3>2
  <2> QED
    BY <2>1, <2>2, <2>4 DEF Plain
<1> QED
  BY <1>1, <1>2

\* Every handler makes at least one call, and only the listings of bankers and
\* admins have a call that keeps its connection, one of them.
LEMMA PlansAreSound ==
  ASSUME NEW r \in Request, NEW plan \in Plans(r)
  PROVE  plan # <<>> /\ Sound(r, plan)
<1>1. Route[r] \in Handler
  BY PoolAssumption DEF PoolAssumption
<1>2. ASSUME Plain(plan)
      PROVE  plan # <<>> /\ Sound(r, plan)
  BY <1>2 DEF Plain, Sound
<1>3. /\ Plain(Query) /\ Plain(Query \o Query) /\ Plain(ClientProfile)
      /\ Plain(ClientProfile \o Query) /\ Plain(Query \o ClientProfile)
      /\ Plain(Query \o (Query \o Query)) /\ Plain(Query \o (ClientProfile \o Query))
  BY PlainCalls DEF ClientProfile
<1>4. /\ Query \in Seq(Call) /\ Len(Query) = 1 /\ Query[1] = "query"
      /\ Query \o <<>> = Query
  <2>1. Query \in Seq(Call) /\ Len(Query) = 1 /\ Query[1] = "query"
    BY DEF Query, Call
  <2> QED
    BY <2>1, ConcatEmptySeq
<1>5. CASE /\ Route[r] = "listPayments" /\ r \in Staff
           /\ plan = Query \o <<"dropped", "query">>
  <2>1. <<"dropped", "query">> \in Seq(Call) /\ Len(<<"dropped", "query">>) = 2
    BY DEF Call
  <2>2. plan \in Seq(Call) /\ Len(plan) = 3
    BY <1>4, <1>5, <2>1, ConcatProperties
  <2>3. \A i \in 1 .. 3 : plan[i] = IF i = 2 THEN "dropped" ELSE "query"
    BY <1>4, <1>5, <2>1, ConcatProperties
  <2> QED
    BY <1>5, <2>2, <2>3 DEF Sound, StaffListings
<1>6. CASE Route[r] \in Public
  BY <1>2, <1>3, <1>6 DEF Plans
<1>7. CASE Route[r] \notin Public
  <2>1. plan = Query \o HandlerCalls(Route[r], r \in Staff)
    BY <1>7 DEF Plans
  <2> QED
    BY <1>1, <1>2, <1>3, <1>4, <1>5, <1>7, <2>1
    DEF HandlerCalls, ListPayments, Handler, OneCallHandler
<1> QED
  BY <1>6, <1>7

\* What is left once the first call has been made.
LEMMA TailIsSound ==
  ASSUME NEW r \in Request, NEW calls, Sound(r, calls), calls # <<>>
  PROVE  /\ Sound(r, Tail(calls))
         /\ Head(calls) \in Call
         /\ Drops(Tail(calls)) => Drops(calls)
         /\ Head(calls) = "dropped" => r \in StaffListings /\ ~ Drops(Tail(calls))
<1>1. /\ calls \in Seq(Call) /\ Len(calls) \in Nat \ {0}
      /\ Tail(calls) \in Seq(Call) /\ Len(Tail(calls)) = Len(calls) - 1
      /\ Head(calls) = calls[1] /\ Head(calls) \in Call
  BY EmptySeq, HeadTailProperties DEF Sound
<1>2. \A i \in 1 .. Len(Tail(calls)) :
        i + 1 \in 1 .. Len(calls) /\ Tail(calls)[i] = calls[i + 1]
  BY <1>1
<1>3. Sound(r, Tail(calls))
  <2>1. \A i, j \in 1 .. Len(Tail(calls)) :
          Tail(calls)[i] = "dropped" /\ Tail(calls)[j] = "dropped" => i = j
    <3> SUFFICES ASSUME NEW i \in 1 .. Len(Tail(calls)), NEW j \in 1 .. Len(Tail(calls)),
                        Tail(calls)[i] = "dropped", Tail(calls)[j] = "dropped"
                 PROVE  i = j
      OBVIOUS
    <3>1. i + 1 = j + 1
      BY <1>2 DEF Sound
    <3> QED
      BY <1>1, <3>1
  <2> QED
    BY <1>1, <1>2, <2>1 DEF Sound
<1>4. Drops(Tail(calls)) => Drops(calls)
  BY <1>2 DEF Drops
<1>5. Head(calls) = "dropped" => r \in StaffListings /\ ~ Drops(Tail(calls))
  <2> SUFFICES ASSUME calls[1] = "dropped"
               PROVE  r \in StaffListings /\ ~ Drops(Tail(calls))
    BY <1>1
  <2>1. 1 \in 1 .. Len(calls)
    BY <1>1
  <2>2. r \in StaffListings /\ \A j \in 1 .. Len(calls) : calls[j] = "dropped" => j = 1
    BY <2>1 DEF Sound
  <2>3. ASSUME NEW i \in 1 .. Len(Tail(calls)), Tail(calls)[i] = "dropped"
        PROVE  FALSE
    BY <1>1, <1>2, <2>2, <2>3
  <2> QED
    BY <2>2, <2>3 DEF Drops
<1> QED
  BY <1>1, <1>3, <1>4, <1>5

\* A connection that is taken is one more of the request's, and one that goes
\* back was its last one.
LEMMA Lending ==
  ASSUME held \in [Request -> Nat], IsFiniteSet(Lent), NEW r \in Request
  PROVE  /\ held' = [held EXCEPT ![r] = @ + 1] =>
              IsFiniteSet(Lent') /\ Cardinality(Lent') = Cardinality(Lent) + 1
         /\ held' = [held EXCEPT ![r] = @ - 1] /\ held[r] > 0 =>
              /\ IsFiniteSet(Lent') /\ Cardinality(Lent') = Cardinality(Lent) - 1
              /\ Cardinality(Lent) > 0
<1>1. ASSUME held' = [held EXCEPT ![r] = @ + 1]
      PROVE  Lent' = Lent \cup {<<r, held[r] + 1>>} /\ <<r, held[r] + 1>> \notin Lent
  <2>1. \A x : x \in Lent <=> \E q \in Request : \E i \in 1 .. held[q] : x = <<q, i>>
    BY DEF Lent
  <2>2. \A x : x \in Lent' <=> \E q \in Request : \E i \in 1 .. held'[q] : x = <<q, i>>
    BY DEF Lent
  <2>3. 1 .. held'[r] = (1 .. held[r]) \cup {held[r] + 1}
    BY <1>1
  <2>4. \A q \in Request : q # r => held'[q] = held[q]
    BY <1>1
  <2>5. <<r, held[r] + 1>> \notin Lent
    BY <2>1
  <2>6. \A x : x \in Lent' <=> x \in Lent \/ x = <<r, held[r] + 1>>
    BY <2>1, <2>2, <2>3, <2>4
  <2> QED
    BY <2>5, <2>6
<1>2. ASSUME held' = [held EXCEPT ![r] = @ - 1], held[r] > 0
      PROVE  Lent' = Lent \ {<<r, held[r]>>} /\ <<r, held[r]>> \in Lent
  <2>1. \A x : x \in Lent <=> \E q \in Request : \E i \in 1 .. held[q] : x = <<q, i>>
    BY DEF Lent
  <2>2. \A x : x \in Lent' <=> \E q \in Request : \E i \in 1 .. held'[q] : x = <<q, i>>
    BY DEF Lent
  <2>3. /\ 1 .. held'[r] = (1 .. held[r]) \ {held[r]}
        /\ held[r] \in 1 .. held[r]
    BY <1>2
  <2>4. \A q \in Request : q # r => held'[q] = held[q]
    BY <1>2
  <2>5. <<r, held[r]>> \in Lent
    BY <2>1, <2>3
  <2>6. \A x : x \in Lent' <=> x \in Lent /\ x # <<r, held[r]>>
    BY <2>1, <2>2, <2>3, <2>4
  <2> QED
    BY <2>5, <2>6
<1>3. Cardinality(Lent) \in Nat
  BY FS_CardinalityType
<1>4. Lent # {} => Cardinality(Lent) # 0
  BY FS_EmptySet
<1> QED
  BY <1>1, <1>2, <1>3, <1>4, FS_AddElement, FS_RemoveElement

\* Idle and lent connections add up to the limit of the pool.
LEMMA CountStep ==
  ASSUME CountOK, NEW r \in Request
  PROVE  /\ held' = [held EXCEPT ![r] = @ + 1] /\ idle' = idle - 1 /\ idle > 0 => CountOK'
         /\ GiveBack(r) /\ held[r] > 0 => CountOK'
         /\ UNCHANGED <<idle, held>> => CountOK'
<1>0. /\ idle \in Nat /\ held \in [Request -> Nat] /\ IsFiniteSet(Lent)
      /\ MaxConns \in Nat /\ idle + Cardinality(Lent) = MaxConns
      /\ Cardinality(Lent) \in Nat
  BY PoolAssumption, FS_CardinalityType DEF PoolAssumption, CountOK
<1>1. ASSUME held' = [held EXCEPT ![r] = @ + 1], idle' = idle - 1, idle > 0
      PROVE  CountOK'
  <2>1. IsFiniteSet(Lent') /\ Cardinality(Lent') = Cardinality(Lent) + 1
    BY <1>0, <1>1, Lending
  <2>2. held' \in [Request -> Nat]
    BY <1>0, <1>1
  <2> QED
    BY <1>0, <1>1, <2>1, <2>2 DEF CountOK
<1>2. ASSUME GiveBack(r), held[r] > 0
      PROVE  CountOK'
  <2>1. IsFiniteSet(Lent') /\ Cardinality(Lent') = Cardinality(Lent) - 1
    BY <1>0, <1>2, Lending DEF GiveBack
  <2>2. held' \in [Request -> Nat]
    BY <1>0, <1>2 DEF GiveBack
  <2> QED
    BY <1>0, <1>2, <2>1, <2>2 DEF CountOK, GiveBack
<1>3. ASSUME UNCHANGED <<idle, held>>
      PROVE  CountOK'
  BY <1>0, <1>3 DEF CountOK, Lent
<1> QED
  BY <1>1, <1>2, <1>3

\* A request that comes to an end by an error has no call left.
LEMMA FailedOK ==
  ASSUME TypesOK, CountOK, NEW r \in Request, RequestOK(r), Fail(r),
         \/ pc[r] = "run" /\ GiveBack(r)
         \/ pc[r] = "wait" /\ UNCHANGED held
  PROVE  RequestOK(r)' /\ todo' \in [Request -> Seq(Call)]
<1>0. /\ held \in [Request -> Nat] /\ todo \in [Request -> Seq(Call)]
      /\ <<>> \in Seq(Call) /\ Len(<<>>) = 0
  BY EmptySeq DEF TypesOK, CountOK
<1>1. todo' = [todo EXCEPT ![r] = <<>>] /\ todo'[r] = <<>> /\ pc'[r] = "failed"
  BY <1>0 DEF Fail, TypesOK
<1>2. Sound(r, <<>>) /\ ~ Drops(<<>>)
  BY <1>0 DEF Sound, Drops
<1>3. held'[r] = held[r] - Running(r)
  BY <1>0 DEF GiveBack, Running
<1>4. held'[r] = 0 \/ (held'[r] = 1 /\ r \in StaffListings)
  BY <1>0, <1>3 DEF RequestOK, Running
<1>5. /\ Sound(r, todo'[r]) /\ ~ Drops(todo'[r])
      /\ Running(r)' = 0 /\ pc'[r] \notin {"new", "wait", "run"}
  BY <1>1, <1>2 DEF Running
<1>6. RequestOK(r)'
  BY <1>4, <1>5 DEF RequestOK, Sound, Drops
<1> QED
  BY <1>0, <1>1, <1>6

\* A request goes on with what is left after its call, or stops there.
LEMMA ProceedOK ==
  ASSUME TypesOK, CountOK, NEW r \in Request, RequestOK(r), pc[r] = "run",
         NEW calls \in {Tail(todo[r]), <<>>}, Proceed(r, calls),
         \/ GiveBack(r)
         \/ /\ UNCHANGED held /\ Head(todo[r]) = "dropped"
  PROVE  RequestOK(r)' /\ todo' \in [Request -> Seq(Call)]
<1>0. /\ held \in [Request -> Nat] /\ todo \in [Request -> Seq(Call)]
      /\ <<>> \in Seq(Call) /\ Len(<<>>) = 0
  BY EmptySeq DEF TypesOK, CountOK
<1>1. /\ Sound(r, todo[r]) /\ todo[r] # <<>>
      /\ held[r] = 1 \/ (held[r] = 2 /\ r \in StaffListings /\ ~ Drops(todo[r]))
  <2>1. Running(r) = 1
    BY DEF Running
  <2> QED
    BY <2>1 DEF RequestOK
<1>2. /\ Sound(r, calls) /\ calls \in Seq(Call)
      /\ Drops(calls) => Drops(todo[r])
      /\ Head(todo[r]) = "dropped" => r \in StaffListings /\ ~ Drops(calls)
  <2>1. Sound(r, <<>>) /\ ~ Drops(<<>>)
    BY <1>0 DEF Sound, Drops
  <2>2. Head(todo[r]) = "dropped" => r \in StaffListings
    BY <1>1, TailIsSound
  <2>3. CASE calls = <<>>
    BY <1>0, <2>1, <2>2, <2>3
  <2>4. CASE calls = Tail(todo[r])
    BY <1>1, <2>4, TailIsSound DEF Sound
  <2> QED
    BY <2>3, <2>4
<1>3. /\ todo' = [todo EXCEPT ![r] = calls] /\ todo'[r] = calls
      /\ pc'[r] = IF calls = <<>> THEN "answered" ELSE "wait"
  BY <1>0 DEF Proceed, TypesOK
<1>4. CASE GiveBack(r)
  <2>1. held'[r] = held[r] - 1
    BY <1>0, <1>4 DEF GiveBack
  <2>2. held'[r] = 0 \/ (held'[r] = 1 /\ r \in StaffListings /\ ~ Drops(calls))
    BY <1>1, <1>2, <2>1
  <2> QED
    BY <1>0, <1>2, <1>3, <2>2 DEF RequestOK, Running
<1>5. CASE UNCHANGED held /\ Head(todo[r]) = "dropped"
  <2>0. ~ (\A i \in 1 .. Len(todo[r]) : todo[r][i] # "dropped")
    BY <1>1, <1>5, EmptySeq, HeadTailProperties DEF Sound
  <2>1. Drops(todo[r])
    BY <2>0 DEF Drops
  <2>2. held'[r] = 1 /\ r \in StaffListings /\ ~ Drops(calls)
    BY <1>1, <1>2, <1>5, <2>1
  <2> QED
    BY <1>0, <1>2, <1>3, <2>2 DEF RequestOK, Running
<1> QED
  BY <1>4, <1>5

\* Every step moves one request and accounts for the connection it takes or
\* gives back.
LEMMA PoolStep ==
  ASSUME PoolInv, NEW r \in Request,
         \/ Arrive(r) \/ Acquire(r) \/ Return(r) \/ Overwrite(r)
         \/ CallFails(r) \/ GiveUp(r)
  PROVE  PoolInv'
<1>0. /\ idle \in Nat /\ held \in [Request -> Nat]
      /\ todo \in [Request -> Seq(Call)]
      /\ pc \in [Request -> {"new", "wait", "run", "answered", "failed"}]
      /\ faults \in 0 .. MaxFaults /\ MaxFaults \in Nat
      /\ TypesOK /\ CountOK /\ RequestOK(r)
  BY PoolAssumption DEF PoolAssumption, PoolInv, TypesOK, CountOK
<1>1. \A q \in Request : q # r =>
        held'[q] = held[q] /\ todo'[q] = todo[q] /\ pc'[q] = pc[q]
  <2>1. CASE Arrive(r)
    BY <1>0, <2>1 DEF Arrive, Proceed
  <2>2. CASE Acquire(r)
    BY <1>0, <2>2 DEF Acquire
  <2>3. CASE Return(r)
    <3>1. PICK calls \in {Tail(todo[r]), <<>>} : Proceed(r, calls)
      BY <2>3 DEF Return
    <3> QED
      BY <1>0, <2>3, <3>1 DEF Return, Proceed, GiveBack
  <2>4. CASE Overwrite(r)
    BY <1>0, <2>4 DEF Overwrite, Proceed
  <2>5. CASE CallFails(r)
    <3>1. CASE GiveBack(r) /\ Fail(r)
      BY <1>0, <3>1 DEF Fail, GiveBack
    <3>2. CASE GiveBack(r) /\ Proceed(r, Tail(todo[r]))
      BY <1>0, <3>2 DEF Proceed, GiveBack
    <3> QED
      BY <2>5, <3>1, <3>2 DEF CallFails
  <2>6. CASE GiveUp(r)
    <3>1. /\ \A q \in Request : q # r => held'[q] = held[q]
          /\ Fail(r)
      BY <1>0, <2>6 DEF GiveUp, GiveBack
    <3> QED
      BY <1>0, <3>1 DEF Fail
  <2> QED
    BY <2>1, <2>2, <2>3, <2>4, <2>5, <2>6
<1>2. \A q \in Request : q # r => RequestOK(q)'
  BY <1>1 DEF PoolInv, RequestOK, Running
<1>3. /\ pc' \in [Request -> {"new", "wait", "run", "answered", "failed"}]
      /\ faults' \in 0 .. MaxFaults
  <2>1. (\E calls : Proceed(r, calls)) \/ Fail(r) \/ pc' = [pc EXCEPT ![r] = "run"]
    <3>1. Arrive(r) => \E calls : Proceed(r, calls)
      BY DEF Arrive
    <3> QED
      BY <3>1 DEF Acquire, Return, Overwrite, CallFails, GiveUp
  <2>2. pc' \in [Request -> {"new", "wait", "run", "answered", "failed"}]
    BY <1>0, <2>1 DEF Proceed, Fail
  <2>3. faults' = faults \/ Fault
    BY DEF Arrive, Acquire, Return, Overwrite, CallFails, GiveUp
  <2> QED
    BY <1>0, <2>2, <2>3 DEF Fault
<1>4. pc[r] = "run" => held[r] > 0
  BY <1>0 DEF RequestOK, Running
<1>5. CountOK'
  BY <1>0, <1>4, CountStep
  DEF Arrive, Acquire, Return, Overwrite, CallFails, GiveUp, Runs
<1>6. RequestOK(r)' /\ todo' \in [Request -> Seq(Call)]
  <2>1. CASE Arrive(r)
    <3>1. PICK plan \in Plans(r) : Proceed(r, plan)
      BY <2>1 DEF Arrive
    <3>2. plan # <<>> /\ Sound(r, plan) /\ plan \in Seq(Call)
      BY PlansAreSound DEF Sound
    <3>3. /\ todo' = [todo EXCEPT ![r] = plan] /\ todo'[r] = plan
          /\ pc'[r] = "wait" /\ held' = held /\ pc[r] = "new"
      BY <1>0, <2>1, <3>1, <3>2 DEF Arrive, Proceed
    <3>4. held[r] = 0
      BY <1>0, <3>3 DEF RequestOK
    <3>5. Running(r)' = 0 /\ held'[r] = 0
      BY <3>3, <3>4 DEF Running
    <3> QED
      BY <1>0, <3>2, <3>3, <3>5 DEF RequestOK
  <2>2. CASE Acquire(r)
    <3>1. /\ todo' = todo /\ held'[r] = held[r] + 1
          /\ pc[r] = "wait" /\ pc'[r] = "run"
      BY <1>0, <2>2 DEF Acquire
    <3> QED
      BY <1>0, <3>1 DEF RequestOK, Running
  <2>3. CASE Return(r) \/ Overwrite(r)
    BY <1>0, <2>3, ProceedOK DEF Return, Overwrite, Runs
  <2>4. CASE CallFails(r)
    BY <1>0, <2>4, ProceedOK, FailedOK DEF CallFails, Runs
  <2>5. CASE GiveUp(r)
    BY <1>0, <2>5, FailedOK DEF GiveUp
  <2> QED
    BY <2>1, <2>2, <2>3, <2>4, <2>5
<1> QED
  BY <1>2, <1>3, <1>5, <1>6 DEF PoolInv, TypesOK

\* The pool is never over-committed, and the calls left to a request are sound.
LEMMA PoolInvAlways == PoolSpec => []PoolInv
<1>1. PoolInit => PoolInv
  <2> SUFFICES ASSUME PoolInit
               PROVE  PoolInv
    OBVIOUS
  <2>1. Lent = {}
    BY DEF PoolInit, Lent
  <2>2. IsFiniteSet(Lent) /\ Cardinality(Lent) = 0
    BY <2>1, FS_EmptySet
  <2>3. CountOK
    BY <2>2, PoolAssumption DEF PoolInit, CountOK, PoolAssumption
  <2>4. <<>> \in Seq(Call) /\ Len(<<>>) = 0
    BY EmptySeq
  <2>5. TypesOK
    BY <2>4, PoolAssumption DEF PoolInit, TypesOK, PoolAssumption
  <2>6. ASSUME NEW r \in Request
        PROVE  RequestOK(r)
    <3>1. /\ todo[r] = <<>> /\ pc[r] = "new" /\ held[r] = 0
      BY DEF PoolInit
    <3> QED
      BY <2>4, <3>1 DEF RequestOK, Sound, Running
  <2> QED
    BY <2>3, <2>5, <2>6 DEF PoolInv
<1>2. PoolInv /\ [PoolNext]_vars => PoolInv'
  <2> SUFFICES ASSUME PoolInv, [PoolNext]_vars
               PROVE  PoolInv'
    OBVIOUS
  <2>1. CASE PoolNext
    BY <2>1, PoolStep DEF PoolNext
  <2>2. CASE UNCHANGED vars
    BY <2>2
    DEF vars, PoolInv, TypesOK, CountOK, Lent, RequestOK, Sound, Drops, Running
  <2> QED
    BY <2>1, <2>2
<1> QED
  BY <1>1, <1>2, PTL DEF PoolSpec

-----------------------------------------------------------------------------
\* The pool hands out no more connections than its limit, to each request no
\* more than to all of them, and a request has only calls it can make left.
THEOREM PoolTypeCorrect == PoolSpec => []PoolTypeOK
<1>1. PoolInv => PoolTypeOK
  <2> SUFFICES ASSUME PoolInv
               PROVE  PoolTypeOK
    OBVIOUS
  <2>0. /\ idle \in Nat /\ held \in [Request -> Nat] /\ IsFiniteSet(Lent)
        /\ idle + Cardinality(Lent) = MaxConns /\ MaxConns \in Nat
    BY PoolAssumption DEF PoolAssumption, PoolInv, CountOK
  <2>1. Cardinality(Lent) \in Nat
    BY <2>0, FS_CardinalityType
  <2>2. ASSUME NEW r \in Request
        PROVE  held[r] \in 0 .. MaxConns
    <3>1. {r} \X (1 .. held[r]) \subseteq Lent
      BY DEF Lent
    <3>2. IsFiniteSet({r}) /\ Cardinality({r}) = 1
      BY FS_Singleton
    <3>3. held[r] \in Nat
      BY <2>0
    <3>4. IsFiniteSet(1 .. held[r]) /\ Cardinality(1 .. held[r]) = held[r]
      BY <3>3, FS_Interval
    <3>5. Cardinality({r} \X (1 .. held[r])) = 1 * held[r]
      BY <3>2, <3>4, FS_Product
    <3>6. Cardinality({r} \X (1 .. held[r])) <= Cardinality(Lent)
      BY <2>0, <3>1, FS_Subset
    <3> QED
      BY <2>0, <2>1, <3>3, <3>5, <3>6
  <2>3. idle \in 0 .. MaxConns /\ held \in [Request -> 0 .. MaxConns]
    BY <2>0, <2>1, <2>2
  <2> QED
    BY <2>3 DEF PoolInv, TypesOK, Call, PoolTypeOK
<1> QED
  BY <1>1, PoolInvAlways, PTL

\* A request has one connection while it runs a statement and none otherwise, but
\* for the one that a listing of bankers and admins loses; and every connection
\* of the pool is idle or with one request.
THEOREM ConnectionsAreAccountedFor == PoolSpec => []HoldsOneWhileRunning
<1>1. PoolInv => HoldsOneWhileRunning
  BY DEF PoolInv, RequestOK, Running, CountOK, HoldsOneWhileRunning
<1> QED
  BY <1>1, PoolInvAlways, PTL
=============================================================================
