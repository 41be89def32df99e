-------------------------- MODULE StoreTransactions --------------------------
(***************************************************************************)
(* The statements that CreatePayment, DecidePayment and                    *)
(* ApplyProcessingResult of internal/store/store.go send to PostgreSQL,    *)
(* one step per statement, with the row locks they wait for and hold.      *)
(* A session is one call of one of them on a connection of its own.        *)
(*                                                                         *)
(* payments and audit_log are the committed tables; what a transaction has *)
(* written and not committed is its draft.  The locks are PostgreSQL's at  *)
(* READ COMMITTED: an UPDATE locks the row it changes and sees the newest  *)
(* committed version once it gets the lock; SELECT ... FOR UPDATE excludes *)
(* every other lock on the row; a foreign key takes FOR KEY SHARE on the   *)
(* user it refers to, which sessions share but FOR UPDATE excludes.        *)
(***************************************************************************)
EXTENDS PaymentStore

CONSTANTS
  Session,      \* calls of the store
  NoSession,    \* the owner of a lock that is free
  Stored,       \* statuses that workers store
  MayFail       \* whether a connection may break or a client may go away

ASSUME SessionAssumption ==
  /\ IsFiniteSet(Session)
  /\ NoSession \notin Session
  /\ Stored \subseteq ResultStatus
  /\ MayFail \in BOOLEAN

VARIABLES
  call,         \* what each session was called with
  stage,        \* its next statement, or its answer
  draft,        \* what its transaction has written
  rowLock,      \* session whose transaction has updated each payment
  userLock,     \* session holding each user FOR UPDATE
  keyShare,     \* sessions holding each user FOR KEY SHARE
  drawn         \* ids taken from the sequence of payments, rolled back or not

lockVars == <<rowLock, userLock, keyShare>>
txVars == <<payments, audit_log, call, stage, draft, lockVars, drawn>>

Creation == [kind : {"create"}, sender : User, recipient : User \cup {NoUser},
             amount : Amount]
Deciding == [kind : {"decide"}, id : Payment, banker : Banker, status : Decision]
Applying == [kind : {"apply"}, id : Payment, status : Stored]
Call == Creation \cup Deciding \cup Applying

Statement == {"begin", "insert", "parties", "banker", "audit", "commit"}
Answer == {"ok", "refused", "error"}

NoCall == [kind |-> "none"]
NoDraft == [id |-> NoUser, row |-> Absent, entry |-> NoCall]

TxInit ==
  /\ StoreInit
  /\ call = [s \in Session |-> NoCall]
  /\ stage = [s \in Session |-> "idle"]
  /\ draft = [s \in Session |-> NoDraft]
  /\ rowLock = [p \in Payment |-> NoSession]
  /\ userLock = [u \in User |-> NoSession]
  /\ keyShare = [u \in User |-> {}]
  /\ drawn = {}
-----------------------------------------------------------------------------
Goto(s, st) == stage' = [stage EXCEPT ![s] = st]

\* The end of a transaction frees its locks, and its draft is gone.
Release(s) ==
  /\ draft' = [draft EXCEPT ![s] = NoDraft]
  /\ rowLock' = [p \in Payment |-> IF rowLock[p] = s THEN NoSession ELSE rowLock[p]]
  /\ userLock' = [u \in User |-> IF userLock[u] = s THEN NoSession ELSE userLock[u]]
  /\ keyShare' = [u \in User |-> keyShare[u] \ {s}]

\* The holders of what the next statement of a session has to lock.
WaitsFor(s) ==
  LET c == call[s]
  IN (CASE stage[s] = "begin" /\ c.kind = "create" ->
             {userLock[c.sender]} \cup keyShare[c.sender]
        [] stage[s] = "begin" /\ c.kind \in {"decide", "apply"} -> {rowLock[c.id]}
        [] stage[s] = "parties" /\ c.recipient \in User -> {userLock[c.recipient]}
        [] stage[s] = "banker" -> {userLock[c.banker]}
        [] OTHER -> {}) \ {s, NoSession}

\* The session is at a statement of a call of this kind, and not blocked.
At(s, kind, statement) ==
  call[s].kind = kind /\ stage[s] = statement /\ WaitsFor(s) = {}

\* Bound: no more creations than the model has ids of payments.
IdLeft == Cardinality({s \in Session : call[s].kind = "create"}) < Cardinality(Payment)

Begin(s, c) ==
  /\ stage[s] = "idle"
  /\ c.kind = "create" => IdLeft
  /\ call' = [call EXCEPT ![s] = c]
  /\ Goto(s, "begin")
  /\ UNCHANGED <<storeVars, draft, lockVars, drawn>>

\* A mutant: an early return without the deferred rollback.
RefuseAndKeep(s) ==
  /\ Goto(s, "refused")
  /\ UNCHANGED <<storeVars, call, draft, lockVars, drawn>>

\* An early return of the function; the deferred Rollback ends the transaction.
Refuse(s) ==
  /\ Goto(s, "refused")
  /\ Release(s)
  /\ UNCHANGED <<storeVars, call, drawn>>
-----------------------------------------------------------------------------
\* CreatePayment.

Solvent(c) == c.sender \notin Blocked /\ Balance[c.sender] >= c.amount

LockSender(s) ==
  /\ At(s, "create", "begin")
  /\ \/ /\ Solvent(call[s])
        /\ userLock' = [userLock EXCEPT ![call[s].sender] = s]
        /\ Goto(s, "insert")
        /\ UNCHANGED <<storeVars, call, draft, rowLock, keyShare, drawn>>
     \/ ~ Solvent(call[s]) /\ Refuse(s)

\* The check on amount_cents fails before anything else does.
Insert(s) ==
  /\ At(s, "create", "insert")
  /\ \/ \E p \in Payment \ drawn :
          /\ call[s].amount > 0
          /\ draft' = [draft EXCEPT ![s].id = p, ![s].row =
                         NewRow(call[s].sender, call[s].recipient, call[s].amount)]
          /\ drawn' = drawn \cup {p}
          /\ Goto(s, "parties")
          /\ UNCHANGED <<storeVars, call, lockVars>>
     \/ ~ (call[s].amount > 0) /\ Refuse(s)

\* The foreign keys of the new row; the sender is locked already.
CheckParties(s) ==
  /\ At(s, "create", "parties")
  /\ \/ /\ call[s].recipient \in User
        /\ keyShare' = [keyShare EXCEPT ![call[s].recipient] = @ \cup {s}]
        /\ Goto(s, "audit")
        /\ UNCHANGED <<storeVars, call, draft, rowLock, userLock, drawn>>
     \/ call[s].recipient \notin User /\ Refuse(s)
-----------------------------------------------------------------------------
\* DecidePayment.

\* A mutant: the status is read, and the row is written at the commit by its
\* id alone, without a lock in between.
UpdateUnlocked(s) ==
  /\ call[s].kind = "decide" /\ stage[s] = "begin"
  /\ \/ /\ payments[call[s].id].status = "PENDING"
        /\ draft' = [draft EXCEPT ![s].id = call[s].id, ![s].row =
             Decided(payments[call[s].id], call[s].banker, call[s].status)]
        /\ Goto(s, "banker")
        /\ UNCHANGED <<storeVars, call, lockVars, drawn>>
     \/ payments[call[s].id].status # "PENDING" /\ Refuse(s)

\* RowsAffected is 0 when the row, as it is once the lock is free, is not
\* pending; a row that is not committed yet is not seen.
Update(s) ==
  /\ At(s, "decide", "begin")
  /\ \/ /\ payments[call[s].id].status = "PENDING"
        /\ rowLock' = [rowLock EXCEPT ![call[s].id] = s]
        /\ draft' = [draft EXCEPT ![s].id = call[s].id, ![s].row =
             Decided(payments[call[s].id], call[s].banker, call[s].status)]
        /\ Goto(s, "banker")
        /\ UNCHANGED <<storeVars, call, userLock, keyShare, drawn>>
     \/ payments[call[s].id].status # "PENDING" /\ Refuse(s)

\* The foreign key of approved_by.
CheckBanker(s) ==
  /\ At(s, "decide", "banker")
  /\ keyShare' = [keyShare EXCEPT ![call[s].banker] = @ \cup {s}]
  /\ Goto(s, "audit")
  /\ UNCHANGED <<storeVars, call, draft, rowLock, userLock, drawn>>
-----------------------------------------------------------------------------
\* The insert into audit_log; the user it refers to is locked already.
EntryOf(c) ==
  IF c.kind = "create" THEN [user |-> c.sender, action |-> "CREATE_PAYMENT"]
  ELSE [user |-> c.banker, action |-> BankerAction(c.status)]

WriteAudit(s) ==
  /\ stage[s] = "audit"
  /\ draft' = [draft EXCEPT ![s].entry = EntryOf(call[s])]
  /\ Goto(s, "commit")
  /\ UNCHANGED <<storeVars, call, lockVars, drawn>>

Install(s) ==
  /\ stage[s] = "commit"
  /\ payments' = [payments EXCEPT ![draft[s].id] = draft[s].row]
  /\ audit_log' = [audit_log EXCEPT ![draft[s].id] = Append(@, draft[s].entry)]
  /\ Release(s)
  /\ UNCHANGED <<call, drawn>>

Commit(s) == Install(s) /\ Goto(s, "ok")

\* The transaction is committed, but the connection dies with the answer.
CommitUnheard(s) == MayFail /\ Install(s) /\ Goto(s, "error")

\* ApplyProcessingResult is one statement that commits by itself.
Apply(s) ==
  /\ At(s, "apply", "begin")
  /\ \/ Goto(s, "ok")
     \/ MayFail /\ Goto(s, "error")
  /\ ApplyProcessingResult(call[s].id, call[s].status)
  /\ UNCHANGED <<call, draft, lockVars, drawn>>
-----------------------------------------------------------------------------
Abort(s) ==
  /\ stage[s] \in Statement
  /\ Goto(s, "error")
  /\ Release(s)
  /\ UNCHANGED <<storeVars, call, drawn>>

\* The connection breaks or the context of the request is cancelled.
Fail(s) == MayFail /\ Abort(s)

\* Every session of S waits for another one of S.
Knot(S) == S # {} /\ \A s \in S : WaitsFor(s) \cap S # {}

\* PostgreSQL finds a cycle of waiting sessions and aborts one of them.
DeadlockVictim(s) ==
  /\ \E S \in SUBSET Session :
       /\ s \in S /\ Knot(S)
       /\ \A T \in SUBSET S : T # S => ~ Knot(T)
  /\ Abort(s)

Step(s) ==
  \/ LockSender(s) \/ Insert(s) \/ CheckParties(s)
  \/ Update(s) \/ CheckBanker(s)
  \/ WriteAudit(s) \/ Commit(s)
  \/ Apply(s)
  \/ DeadlockVictim(s)

TxNext ==
  \E s \in Session :
    \/ \E c \in Call : Begin(s, c)
    \/ Step(s) \/ CommitUnheard(s) \/ Fail(s)

TxSpec == TxInit /\ [][TxNext]_txVars

\* PostgreSQL and the process go on with every session that can go on.
FairTxSpec == TxSpec /\ \A s \in Session : WF_txVars(Step(s))
-----------------------------------------------------------------------------
TxTypeOK ==
  /\ StoreTypeOK
  /\ call \in [Session -> Call \cup {NoCall}]
  /\ stage \in [Session -> Statement \cup Answer \cup {"idle"}]
  /\ draft \in [Session -> [id : Payment \cup {NoUser}, row : Row,
                            entry : Entry \cup {NoCall}]]
  /\ rowLock \in [Payment -> Session \cup {NoSession}]
  /\ userLock \in [User -> Session \cup {NoSession}]
  /\ keyShare \in [User -> SUBSET Session]
  /\ drawn \subseteq Payment

\* An answer of 200 to a banker stays true whatever other sessions do later or
\* did meanwhile: the decision is the one in the row and in the audit log, and
\* no two bankers are told that they decided the same payment.
AnswersStand ==
  \A s \in Session : stage[s] = "ok" /\ call[s].kind = "decide" =>
    LET c == call[s]
    IN /\ payments[c.id].status = c.status
       /\ payments[c.id].approved_by = c.banker
       /\ \E i \in 1 .. Len(audit_log[c.id]) : audit_log[c.id][i] = EntryOf(c)
       /\ \A t \in Session \ {s} :
            stage[t] = "ok" /\ call[t].kind = "decide" => call[t].id # c.id

\* The transactions implement the atomic steps of PaymentStore: StoreSpec,
\* checked as a property of TxSpec.

\* Every call is answered: no session waits for ever, because locks are freed
\* on every path and PostgreSQL breaks the cycles.
CallsEnd == \A s \in Session : stage[s] = "begin" ~> stage[s] \in Answer
=============================================================================
