--------------------------- MODULE StatementProofs ---------------------------
(***************************************************************************)
(* Theorems about what happens between the statements of store.go, for     *)
(* every set of sessions, payments, users and requests.                    *)
(*                                                                         *)
(* The first half is about StoreTransactions: the statements and row locks *)
(* implement the atomic steps of PaymentStore, and an answer to a banker   *)
(* stays true.  The inductive invariant says what a transaction under way  *)
(* may rely on: the id of a creation is drawn by it alone and its row is   *)
(* not there yet, and the row of a decision is pending and locked until it *)
(* commits.                                                                *)
(*                                                                         *)
(* The second half is about Reporting: what several statements have read   *)
(* fits together.  The inductive invariant says what a report that is half *)
(* read may rely on: what it has counted is still in the tables.           *)
(***************************************************************************)
EXTENDS StoreTransactions, Reporting, PaymentStoreProofs


\* Sessions whose transaction has inserted a payment, or updated one.
Drafting(s) ==
  call[s].kind = "create" /\ stage[s] \in {"parties", "audit", "commit"}
Holding(s) ==
  call[s].kind = "decide" /\ stage[s] \in {"banker", "audit", "commit"}

\* Each statement belongs to a function, and the functions to their arguments.
CallOK(s) ==
  /\ stage[s] = "begin" => call[s] \in Call
  /\ stage[s] \in {"insert", "parties"} => call[s] \in Creation
  /\ stage[s] = "banker" => call[s] \in Deciding
  /\ stage[s] \in {"audit", "commit"} => call[s] \in Creation \cup Deciding
  /\ stage[s] = "commit" => draft[s].entry = EntryOf(call[s])
  /\ stage[s] = "ok" => call[s] \in Call

\* A creation has made its checks, its row is the one that was asked for, and
\* nobody sees a row with its id.
CreationOK(s) ==
  /\ call[s].kind = "create" /\ stage[s] \in {"insert", "parties", "audit", "commit"} =>
       Solvent(call[s])
  /\ call[s].kind = "create" /\ stage[s] \in {"audit", "commit"} =>
       call[s].recipient \in User
  /\ Drafting(s) =>
       /\ call[s].amount > 0
       /\ draft[s].id \in drawn
       /\ payments[draft[s].id] = Absent
       /\ draft[s].row =
            NewRow(call[s].sender, call[s].recipient, call[s].amount)

\* A decision holds the lock on its row, which is as it was when it was updated.
DecisionOK(s) ==
  Holding(s) =>
    /\ rowLock[call[s].id] = s
    /\ payments[call[s].id].status = "PENDING"
    /\ draft[s].id = call[s].id
    /\ draft[s].row = Decided(payments[call[s].id], call[s].banker, call[s].status)

IdsApart ==
  \A s, t \in Session :
    Drafting(s) /\ Drafting(t) /\ s # t => draft[s].id # draft[t].id

LocksHeld ==
  \A p \in Payment, s \in Session :
    rowLock[p] = s => Holding(s) /\ call[s].id = p

UndrawnAbsent == \A p \in Payment \ drawn : payments[p] = Absent

TxInv ==
  /\ TxTypeOK
  /\ \A s \in Session : CallOK(s) /\ CreationOK(s) /\ DecisionOK(s)
  /\ IdsApart /\ LocksHeld /\ UndrawnAbsent

SessionStep(s) ==
  \/ \E c \in Call : Begin(s, c)
  \/ Step(s) \/ CommitUnheard(s) \/ Fail(s)
-----------------------------------------------------------------------------
\* What the steps of a session come to: early returns, aborts and deadlocks end
\* its transaction in the same way, and so do both ends of a commit.
GivesUp(s) ==
  /\ \E a \in {"refused", "error"} : Goto(s, a)
  /\ Release(s)
  /\ UNCHANGED <<storeVars, call, drawn>>

SenderLocked(s) ==
  /\ At(s, "create", "begin") /\ Solvent(call[s])
  /\ userLock' = [userLock EXCEPT ![call[s].sender] = s]
  /\ Goto(s, "insert")
  /\ UNCHANGED <<storeVars, call, draft, rowLock, keyShare, drawn>>

Inserted(s, p) ==
  /\ At(s, "create", "insert") /\ call[s].amount > 0
  /\ p \in Payment \ drawn
  /\ draft' = [draft EXCEPT ![s].id = p, ![s].row =
                 NewRow(call[s].sender, call[s].recipient, call[s].amount)]
  /\ drawn' = drawn \cup {p}
  /\ Goto(s, "parties")
  /\ UNCHANGED <<storeVars, call, lockVars>>

PartiesChecked(s) ==
  /\ At(s, "create", "parties") /\ call[s].recipient \in User
  /\ keyShare' = [keyShare EXCEPT ![call[s].recipient] = @ \cup {s}]
  /\ Goto(s, "audit")
  /\ UNCHANGED <<storeVars, call, draft, rowLock, userLock, drawn>>

Updated(s) ==
  /\ At(s, "decide", "begin") /\ payments[call[s].id].status = "PENDING"
  /\ rowLock' = [rowLock EXCEPT ![call[s].id] = s]
  /\ draft' = [draft EXCEPT ![s].id = call[s].id, ![s].row =
       Decided(payments[call[s].id], call[s].banker, call[s].status)]
  /\ Goto(s, "banker")
  /\ UNCHANGED <<storeVars, call, userLock, keyShare, drawn>>

Installed(s) == Install(s) /\ \E a \in {"ok", "error"} : Goto(s, a)

\* Every step of a session is one of these.
LEMMA StepCases ==
  ASSUME NEW s \in Session, SessionStep(s)
  PROVE  \/ \E c \in Call : Begin(s, c)
         \/ GivesUp(s)
         \/ SenderLocked(s)
         \/ \E p \in Payment : Inserted(s, p)
         \/ PartiesChecked(s) \/ Updated(s)
         \/ CheckBanker(s) \/ WriteAudit(s) \/ Installed(s) \/ Apply(s)
<1>1. Refuse(s) \/ Abort(s) => GivesUp(s)
  BY DEF Refuse, Abort, GivesUp
<1>2. CASE LockSender(s)
  BY <1>1, <1>2 DEF LockSender, SenderLocked
<1>3. CASE Insert(s)
  BY <1>1, <1>3 DEF Insert, Inserted
<1>4. CASE CheckParties(s)
  BY <1>1, <1>4 DEF CheckParties, PartiesChecked
<1>5. CASE Update(s)
  BY <1>1, <1>5 DEF Update, Updated
<1>6. CASE DeadlockVictim(s) \/ Fail(s)
  BY <1>1, <1>6 DEF DeadlockVictim, Fail
<1>7. CASE Commit(s) \/ CommitUnheard(s)
  BY <1>7 DEF Commit, CommitUnheard, Installed
<1> QED
  BY <1>2, <1>3, <1>4, <1>5, <1>6, <1>7 DEF SessionStep, Step

\* A step of a session moves that session alone, and never gives back an id.
LEMMA OthersStay ==
  ASSUME TxTypeOK, NEW s \in Session, SessionStep(s), NEW t \in Session, t # s
  PROVE  /\ call'[t] = call[t] /\ stage'[t] = stage[t] /\ draft'[t] = draft[t]
         /\ drawn \subseteq drawn'
<1> USE DEF TxTypeOK, Goto, lockVars
<1>1. CASE \E c \in Call : Begin(s, c)
  BY <1>1 DEF Begin
<1>2. CASE GivesUp(s)
  BY <1>2 DEF GivesUp, Release
<1>3. CASE SenderLocked(s)
  BY <1>3 DEF SenderLocked
<1>4. CASE \E p \in Payment : Inserted(s, p)
  BY <1>4 DEF Inserted
<1>5. CASE PartiesChecked(s)
  BY <1>5 DEF PartiesChecked
<1>6. CASE Updated(s)
  BY <1>6 DEF Updated
<1>7. CASE CheckBanker(s)
  BY <1>7 DEF CheckBanker
<1>8. CASE WriteAudit(s)
  BY <1>8 DEF WriteAudit
<1>9. CASE Installed(s)
  BY <1>9 DEF Installed, Install, Release
<1>10. CASE Apply(s)
  BY <1>10 DEF Apply
<1> QED
  BY StepCases, <1>1, <1>2, <1>3, <1>4, <1>5, <1>6, <1>7, <1>8, <1>9, <1>10

\* A decision and a worker's update wait until nobody else holds the row.
LEMMA RowIsFree ==
  ASSUME NEW s \in Session, stage[s] = "begin", call[s].kind \in {"decide", "apply"},
         WaitsFor(s) = {}
  PROVE  rowLock[call[s].id] \in {s, NoSession}
BY DEF WaitsFor

\* At its commit a session has a draft of the one kind or the other.
LEMMA CommitDraft ==
  ASSUME TxInv, NEW s \in Session, stage[s] = "commit"
  PROVE  \/ Drafting(s) /\ call[s] \in Creation
         \/ Holding(s) /\ call[s] \in Deciding
BY DEF TxInv, CallOK, Drafting, Holding, Creation, Deciding

\* The row a session writes is the one it has drawn, or a pending one that
\* nobody else has locked.
LEMMA RowsTouched ==
  ASSUME TxInv, NEW s \in Session, SessionStep(s), NEW p \in Payment,
         payments'[p] # payments[p] \/ audit_log'[p] # audit_log[p]
  PROVE  \/ Drafting(s) /\ p = draft[s].id
         \/ payments[p].status = "PENDING" /\ rowLock[p] \in {s, NoSession}
<1> USE DEF TxInv, TxTypeOK, StoreTypeOK
<1>1. UNCHANGED storeVars \/ Installed(s) \/ Apply(s)
  BY StepCases
  DEF Begin, GivesUp, SenderLocked, Inserted, PartiesChecked, Updated,
      CheckBanker, WriteAudit, storeVars
<1>2. CASE Installed(s)
  <2>1. stage[s] = "commit" /\ p = draft[s].id
    BY <1>2 DEF Installed, Install
  <2>2. CASE Drafting(s)
    BY <2>1, <2>2
  <2>3. CASE Holding(s)
    BY <2>1, <2>3 DEF DecisionOK
  <2> QED
    BY <2>1, <2>2, <2>3, CommitDraft
<1>3. CASE Apply(s)
  <2>1. stage[s] = "begin" /\ call[s].kind = "apply" /\ WaitsFor(s) = {}
    BY <1>3 DEF Apply, At
  <2>2. p = call[s].id /\ payments[p].status = "PENDING"
    BY <1>3 DEF Apply, ApplyProcessingResult
  <2> QED
    BY <2>1, <2>2, RowIsFree
<1> QED
  BY <1>1, <1>2, <1>3 DEF storeVars

\* A session neither takes the row lock of another one nor gives it one.
LEMMA OthersLocks ==
  ASSUME TxInv, NEW s \in Session, SessionStep(s), NEW t \in Session, t # s,
         NEW p \in Payment
  PROVE  rowLock'[p] = t <=> rowLock[p] = t
<1> USE DEF TxInv, TxTypeOK
<1>0. NoSession \notin Session
  BY SessionAssumption DEF SessionAssumption
<1>1. UNCHANGED rowLock \/ Release(s) \/ Updated(s)
  BY StepCases
  DEF Begin, GivesUp, SenderLocked, Inserted, PartiesChecked,
      CheckBanker, WriteAudit, Installed, Install, Apply, lockVars
<1>2. CASE Release(s)
  BY <1>0, <1>2 DEF Release
<1>3. CASE Updated(s)
  <2>1. stage[s] = "begin" /\ call[s].kind = "decide" /\ WaitsFor(s) = {}
    BY <1>3 DEF Updated, At
  <2>2. rowLock[call[s].id] \in {s, NoSession}
    BY <2>1, RowIsFree
  <2> QED
    BY <1>0, <1>3, <2>2 DEF Updated
<1> QED
  BY <1>1, <1>2, <1>3

\* What other transactions rely on is not disturbed.
LEMMA OthersOK ==
  ASSUME TxInv, NEW s \in Session, SessionStep(s), NEW t \in Session, t # s
  PROVE  CallOK(t)' /\ CreationOK(t)' /\ DecisionOK(t)'
<1> USE DEF TxInv
<1>0. NoSession \notin Session
  BY SessionAssumption DEF SessionAssumption
<1>1. /\ call'[t] = call[t] /\ stage'[t] = stage[t] /\ draft'[t] = draft[t]
      /\ drawn \subseteq drawn'
  BY OthersStay
<1>2. CallOK(t)'
  BY <1>1 DEF CallOK, EntryOf
<1>3. CreationOK(t)'
  <2>1. ASSUME Drafting(t)
        PROVE  payments'[draft[t].id] = Absent /\ draft[t].id \in drawn
    <3>1. draft[t].id \in Payment /\ payments[draft[t].id] = Absent
      BY <2>1 DEF CreationOK, TxTypeOK
    <3>2. draft[t].id \in drawn
      BY <2>1 DEF CreationOK
    <3>3. ~ (Drafting(s) /\ draft[t].id = draft[s].id)
      BY <2>1 DEF IdsApart
    <3>4. payments[draft[t].id].status # "PENDING"
      BY <3>1 DEF Absent
    <3> QED
      BY <3>1, <3>2, <3>3, <3>4, RowsTouched
  <2>2. Drafting(t)' <=> Drafting(t)
    BY <1>1 DEF Drafting
  <2> QED
    BY <1>1, <2>1, <2>2 DEF CreationOK, Solvent
<1>4. DecisionOK(t)'
  <2>1. ASSUME Holding(t)
        PROVE  /\ payments'[call[t].id] = payments[call[t].id]
               /\ rowLock'[call[t].id] = t
    <3>1. call[t].id \in Payment
      BY <2>1 DEF Holding, CallOK, Creation, Deciding
    <3>2. rowLock[call[t].id] = t /\ payments[call[t].id].status = "PENDING"
      BY <2>1 DEF DecisionOK
    <3>3. ~ (Drafting(s) /\ call[t].id = draft[s].id)
      BY <3>2 DEF CreationOK, Absent
    <3>4. rowLock'[call[t].id] = t
      BY <3>1, <3>2, OthersLocks
    <3> QED
      BY <1>0, <3>1, <3>2, <3>3, <3>4, RowsTouched
  <2>2. Holding(t)' <=> Holding(t)
    BY <1>1 DEF Holding
  <2> QED
    BY <1>1, <2>1, <2>2 DEF DecisionOK
<1> QED
  BY <1>2, <1>3, <1>4

\* Each statement leaves its own session with what the next one relies on.
LEMMA OwnOK ==
  ASSUME TxInv, NEW s \in Session, SessionStep(s)
  PROVE  CallOK(s)' /\ CreationOK(s)' /\ DecisionOK(s)'
<1> USE DEF TxInv, Goto, lockVars
<1> DEFINE Goal == CallOK(s)' /\ CreationOK(s)' /\ DecisionOK(s)'
<1>0. /\ call \in [Session -> Call \cup {NoCall}]
      /\ stage \in [Session -> Statement \cup Answer \cup {"idle"}]
      /\ draft \in [Session -> [id : Payment \cup {NoUser}, row : Row,
                                entry : Entry \cup {NoCall}]]
      /\ rowLock \in [Payment -> Session \cup {NoSession}]
  BY DEF TxTypeOK
<1>1. ASSUME NEW c \in Call, Begin(s, c)
      PROVE  Goal
  BY <1>0, <1>1 DEF Begin, CallOK, CreationOK, DecisionOK, Drafting, Holding
<1>2. CASE GivesUp(s)
  BY <1>0, <1>2 DEF GivesUp, CallOK, CreationOK, DecisionOK, Drafting, Holding
<1>3. CASE SenderLocked(s)
  BY <1>0, <1>3
  DEF SenderLocked, At, CallOK, CreationOK, DecisionOK, Drafting, Holding,
      Call, Creation, Deciding, Applying, Solvent
<1>4. ASSUME NEW p \in Payment, Inserted(s, p)
      PROVE  Goal
  <2>1. /\ draft'[s].id = p
        /\ draft'[s].row = NewRow(call[s].sender, call[s].recipient, call[s].amount)
        /\ stage'[s] = "parties" /\ p \in drawn' /\ payments'[p] = Absent
    BY <1>0, <1>4 DEF Inserted, UndrawnAbsent, storeVars
  <2> QED
    BY <1>0, <1>4, <2>1
    DEF Inserted, At, CallOK, CreationOK, DecisionOK, Drafting, Holding, Solvent
<1>5. CASE PartiesChecked(s)
  <2>1. stage'[s] = "audit"
    BY <1>0, <1>5 DEF PartiesChecked
  <2> QED
    BY <1>0, <1>5, <2>1
    DEF PartiesChecked, At, CallOK, CreationOK, DecisionOK, Drafting, Holding,
        Solvent, storeVars
<1>6. CASE Updated(s)
  <2>0. call[s].id \in Payment /\ call[s] \in Deciding
    BY <1>6 DEF Updated, At, CallOK, Call, Creation, Deciding, Applying
  <2>1. /\ draft'[s].id = call[s].id /\ rowLock'[call[s].id] = s
        /\ draft'[s].row = Decided(payments[call[s].id], call[s].banker, call[s].status)
        /\ stage'[s] = "banker"
    BY <1>0, <1>6, <2>0 DEF Updated
  <2> QED
    BY <1>0, <1>6, <2>0, <2>1
    DEF Updated, At, CallOK, CreationOK, DecisionOK, Drafting, Holding, storeVars,
        Deciding
<1>7. CASE CheckBanker(s)
  <2>1. stage'[s] = "audit"
    BY <1>0, <1>7 DEF CheckBanker
  <2> QED
    BY <1>0, <1>7, <2>1
    DEF CheckBanker, At, CallOK, CreationOK, DecisionOK, Drafting, Holding,
        Solvent, storeVars, Creation, Deciding
<1>8. CASE WriteAudit(s)
  <2>1. /\ stage'[s] = "commit" /\ draft'[s].entry = EntryOf(call[s])
        /\ draft'[s].id = draft[s].id /\ draft'[s].row = draft[s].row
    BY <1>0, <1>8 DEF WriteAudit
  <2>2. /\ stage[s] = "audit" /\ call' = call /\ payments' = payments
        /\ rowLock' = rowLock /\ drawn' = drawn
    BY <1>8 DEF WriteAudit, storeVars
  <2>3. CallOK(s)'
    BY <2>1, <2>2 DEF CallOK
  <2>4. CreationOK(s)' /\ DecisionOK(s)'
    BY <2>1, <2>2 DEF CreationOK, DecisionOK, Drafting, Holding, Solvent
  <2> QED
    BY <2>3, <2>4
<1>9. CASE Installed(s)
  <2>1. stage'[s] \in {"ok", "error"} /\ call'[s] = call[s]
    BY <1>0, <1>9 DEF Installed, Install
  <2>2. call[s] \in Call
    BY <1>9 DEF Installed, Install, CallOK, Call
  <2> QED
    BY <2>1, <2>2 DEF CallOK, CreationOK, DecisionOK, Drafting, Holding
<1>10. CASE Apply(s)
  <2>1. stage'[s] \in {"ok", "error"} /\ call'[s] = call[s]
    BY <1>0, <1>10 DEF Apply
  <2>2. call[s] \in Call
    BY <1>10 DEF Apply, At, CallOK
  <2> QED
    BY <2>1, <2>2 DEF CallOK, CreationOK, DecisionOK, Drafting, Holding
<1> QED
  BY StepCases, <1>1, <1>2, <1>3, <1>4, <1>5, <1>6, <1>7, <1>8, <1>9, <1>10

\* Ids stay apart, locks belong to decisions under way, and what is not drawn
\* is not there.
LEMMA TogetherOK ==
  ASSUME TxInv, NEW s \in Session, SessionStep(s)
  PROVE  IdsApart' /\ LocksHeld' /\ UndrawnAbsent'
<1> USE DEF TxInv, Goto, lockVars
<1>0. /\ call \in [Session -> Call \cup {NoCall}]
      /\ stage \in [Session -> Statement \cup Answer \cup {"idle"}]
      /\ draft \in [Session -> [id : Payment \cup {NoUser}, row : Row,
                                entry : Entry \cup {NoCall}]]
      /\ rowLock \in [Payment -> Session \cup {NoSession}]
  BY DEF TxTypeOK
<1>1. IdsApart'
  <2>1. ASSUME NEW t \in Session, t # s, Drafting(s)', Drafting(t)
        PROVE  draft'[s].id # draft[t].id
    <3>1. CASE Drafting(s) /\ draft'[s].id = draft[s].id
      BY <2>1, <3>1 DEF IdsApart
    <3>2. CASE ~ (Drafting(s) /\ draft'[s].id = draft[s].id)
      <4>1. \E p \in Payment : Inserted(s, p)
        <5>1. ~ Installed(s) /\ ~ Apply(s) /\ ~ GivesUp(s)
          BY <1>0, <2>1 DEF Installed, Apply, GivesUp, Drafting
        <5>2. ~ \E c \in Call : Begin(s, c)
          BY <1>0, <2>1 DEF Begin, Drafting
        <5>3. ~ SenderLocked(s) /\ ~ Updated(s) /\ ~ CheckBanker(s)
          BY <1>0, <2>1 DEF SenderLocked, Updated, CheckBanker, At, Drafting
        <5>4. ~ PartiesChecked(s)
          BY <1>0, <2>1, <3>2 DEF PartiesChecked, At, Drafting
        <5>5. ~ WriteAudit(s)
          BY <1>0, <2>1, <3>2 DEF WriteAudit, Drafting
        <5> QED
          BY StepCases, <5>1, <5>2, <5>3, <5>4, <5>5
      <4>2. draft'[s].id \notin drawn
        BY <1>0, <4>1 DEF Inserted
      <4> QED
        BY <2>1, <4>2 DEF CreationOK
    <3> QED
      BY <3>1, <3>2
  <2>2. \A t \in Session : t # s =>
          (Drafting(t)' <=> Drafting(t)) /\ draft'[t] = draft[t]
    BY OthersStay DEF Drafting
  <2> QED
    BY <2>1, <2>2 DEF IdsApart
<1>2. LocksHeld'
  <2>1. ASSUME NEW p \in Payment, NEW t \in Session, t # s, rowLock'[p] = t
        PROVE  Holding(t)' /\ call'[t].id = p
    BY <2>1, OthersStay, OthersLocks DEF LocksHeld, Holding
  <2>2. ASSUME NEW p \in Payment, rowLock'[p] = s
        PROVE  Holding(s)' /\ call'[s].id = p
    <3>0. s # NoSession
      BY SessionAssumption DEF SessionAssumption
    <3>1. ~ Release(s)
      BY <1>0, <2>2, <3>0 DEF Release
    <3>2. CASE Updated(s)
      <4>1. p = call[s].id
        BY <1>0, <2>2, <3>2 DEF Updated, At, LocksHeld, Holding
      <4> QED
        BY <1>0, <3>2, <4>1 DEF Updated, At, Holding
    <3>3. CASE ~ Updated(s)
      <4>1. rowLock'[p] = rowLock[p]
        BY <3>1, <3>3, StepCases
        DEF Begin, GivesUp, SenderLocked, Inserted, PartiesChecked,
            CheckBanker, WriteAudit, Installed, Install, Apply
      <4>2. Holding(s) /\ call[s].id = p
        BY <2>2, <4>1 DEF LocksHeld
      <4>3. CheckBanker(s) \/ WriteAudit(s)
        BY <3>1, <3>3, <4>2, StepCases
        DEF Begin, GivesUp, SenderLocked, Inserted, PartiesChecked,
            Installed, Install, Apply, At, Holding
      <4> QED
        BY <1>0, <4>2, <4>3 DEF CheckBanker, WriteAudit, Holding
    <3> QED
      BY <3>2, <3>3
  <2> QED
    BY <2>1, <2>2 DEF LocksHeld
<1>3. UndrawnAbsent'
  <2> SUFFICES ASSUME NEW p \in Payment, p \notin drawn'
               PROVE  payments'[p] = Absent
    BY DEF UndrawnAbsent
  <2>1. drawn \subseteq drawn'
    BY StepCases
    DEF Begin, GivesUp, SenderLocked, Inserted, PartiesChecked, Updated,
        CheckBanker, WriteAudit, Installed, Install, Apply
  <2>2. payments[p] = Absent
    BY <2>1 DEF UndrawnAbsent
  <2>4. payments[p].status # "PENDING"
    BY <2>2 DEF Absent
  <2>3. ~ (Drafting(s) /\ p = draft[s].id)
    BY <2>1 DEF CreationOK
  <2> QED
    BY <2>2, <2>3, <2>4, RowsTouched
<1> QED
  BY <1>1, <1>2, <1>3
-----------------------------------------------------------------------------
\* A commit writes what one atomic step of PaymentStore writes, and so does the
\* single statement of the worker; every other statement leaves the tables.
LEMMA StepsStore ==
  ASSUME TxInv, [TxNext]_txVars
  PROVE  [StoreNext]_storeVars
<1> USE DEF TxInv
<1>1. ASSUME NEW s \in Session, Installed(s)
      PROVE  StoreNext
  <2>0. /\ stage[s] = "commit" /\ draft[s].entry = EntryOf(call[s])
        /\ payments' = [payments EXCEPT ![draft[s].id] = draft[s].row]
        /\ audit_log' = [audit_log EXCEPT ![draft[s].id] = Append(@, draft[s].entry)]
    BY <1>1 DEF Installed, Install, CallOK
  <2>1. CASE Drafting(s) /\ call[s] \in Creation
    <3> DEFINE c == call[s]
               p == draft[s].id
    <3>1. /\ p \in Payment /\ payments[p] = Absent
          /\ draft[s].row = NewRow(c.sender, c.recipient, c.amount)
      BY <2>1 DEF CreationOK, TxTypeOK
    <3>2. Acceptable(c.sender, c.recipient, c.amount)
      BY <2>0, <2>1 DEF CreationOK, Drafting, Acceptable, Solvent, Creation
    <3>3. draft[s].entry = [user |-> c.sender, action |-> "CREATE_PAYMENT"]
      BY <2>0, <2>1 DEF EntryOf, Drafting
    <3>4. CreatePayment(p, c.sender, c.recipient, c.amount)
      BY <2>0, <3>1, <3>2, <3>3 DEF CreatePayment
    <3>5. c.sender \in User /\ c.recipient \in User /\ c.amount \in Amount
      BY <2>1, <3>2 DEF Creation, Acceptable
    <3> QED
      BY <3>1, <3>4, <3>5 DEF StoreNext
  <2>2. CASE Holding(s) /\ call[s] \in Deciding
    <3> DEFINE c == call[s]
    <3>1. c.id \in Payment /\ c.banker \in Banker /\ c.status \in Decision
      BY <2>2 DEF Deciding
    <3>2. /\ payments[c.id].status = "PENDING" /\ draft[s].id = c.id
          /\ draft[s].row = Decided(payments[c.id], c.banker, c.status)
      BY <2>2 DEF DecisionOK
    <3>3. draft[s].entry = [user |-> c.banker, action |-> BankerAction(c.status)]
      BY <2>0, <2>2 DEF EntryOf, Holding
    <3>4. DecidePayment(c.id, c.banker, c.status)
      BY <2>0, <3>2, <3>3 DEF DecidePayment
    <3> QED
      BY <3>1, <3>4 DEF StoreNext
  <2> QED
    BY <2>0, <2>1, <2>2, CommitDraft
<1>2. ASSUME NEW s \in Session, Apply(s)
      PROVE  StoreNext
  <2>1. call[s] \in Applying
    BY <1>2 DEF Apply, At, CallOK, Call, Creation, Deciding, Applying
  <2>2. call[s].id \in Payment /\ call[s].status \in ResultStatus
    BY <2>1, SessionAssumption DEF Applying, SessionAssumption
  <2> QED
    BY <1>2, <2>2 DEF Apply, StoreNext
<1>3. CASE UNCHANGED txVars
  BY <1>3 DEF txVars, storeVars
<1>4. ASSUME NEW s \in Session, SessionStep(s)
      PROVE  [StoreNext]_storeVars
  BY <1>1, <1>2, <1>4, StepCases
  DEF Begin, GivesUp, SenderLocked, Inserted, PartiesChecked, Updated,
      CheckBanker, WriteAudit
<1> QED
  BY <1>3, <1>4 DEF TxNext, SessionStep

\* Calls, drafts and locks keep their types; the tables do as PaymentStore's.
LEMMA TxTypeStep ==
  ASSUME TxInv, NEW s \in Session, SessionStep(s)
  PROVE  TxTypeOK'
<1> USE DEF TxTypeOK, Goto, lockVars
<1>0. TxTypeOK /\ CallOK(s)
  BY DEF TxInv
<1>1. StoreTypeOK'
  <2>1. [TxNext]_txVars
    BY DEF TxNext, SessionStep
  <2> QED
    BY <1>0, <2>1, StepsStore, StoreTypeStep
<1> DEFINE Rest ==
      /\ call \in [Session -> Call \cup {NoCall}]
      /\ stage \in [Session -> Statement \cup Answer \cup {"idle"}]
      /\ draft \in [Session -> [id : Payment \cup {NoUser}, row : Row,
                                entry : Entry \cup {NoCall}]]
      /\ rowLock \in [Payment -> Session \cup {NoSession}]
      /\ userLock \in [User -> Session \cup {NoSession}]
      /\ keyShare \in [User -> SUBSET Session]
      /\ drawn \subseteq Payment
<1>2. CASE \E c \in Call : Begin(s, c)
  <2>1. Rest'
    BY <1>0, <1>2 DEF Begin, Statement
  <2> QED
    BY <1>1, <2>1
<1>3. ASSUME Release(s), UNCHANGED <<call, drawn>>, \E a \in Answer : Goto(s, a)
      PROVE  Rest'
  <2>1. NoDraft \in [id : Payment \cup {NoUser}, row : Row, entry : Entry \cup {NoCall}]
    BY WrittenValuesTyped DEF NoDraft
  <2>2. draft' \in [Session -> [id : Payment \cup {NoUser}, row : Row,
                                entry : Entry \cup {NoCall}]]
    BY <1>0, <1>3, <2>1 DEF Release
  <2> QED
    BY <1>0, <1>3, <2>2 DEF Release
<1>4. CASE GivesUp(s) \/ Installed(s)
  BY <1>1, <1>3, <1>4 DEF GivesUp, Installed, Install, Answer
<1>5. CASE SenderLocked(s)
  BY <1>0, <1>1, <1>5 DEF SenderLocked, Statement
<1>6. ASSUME NEW p \in Payment, Inserted(s, p)
      PROVE  TxTypeOK'
  <2>1. call[s] \in Creation
    BY <1>0, <1>6 DEF Inserted, At, CallOK
  <2>2. NewRow(call[s].sender, call[s].recipient, call[s].amount) \in Row
    BY <2>1, StoreAssumption DEF Creation, NewRow, Row, ResultStatus, StoreAssumption
  <2>3. draft' \in [Session -> [id : Payment \cup {NoUser}, row : Row,
                                entry : Entry \cup {NoCall}]]
    BY <1>0, <1>6, <2>2 DEF Inserted
  <2> QED
    BY <1>0, <1>1, <1>6, <2>3 DEF Inserted, Statement
<1>7. CASE PartiesChecked(s)
  BY <1>0, <1>1, <1>7 DEF PartiesChecked, Statement
<1>8. CASE Updated(s)
  <2>1. call[s] \in Deciding
    BY <1>0, <1>8 DEF Updated, At, CallOK, Call, Creation, Deciding, Applying
  <2>2. call[s].id \in Payment /\ call[s].banker \in Banker /\ call[s].status \in Decision
    BY <2>1 DEF Deciding
  <2>3. Decided(payments[call[s].id], call[s].banker, call[s].status) \in Row
    BY <1>0, <2>2, WrittenValuesTyped DEF StoreTypeOK
  <2>4. draft' \in [Session -> [id : Payment \cup {NoUser}, row : Row,
                                entry : Entry \cup {NoCall}]]
    BY <1>0, <1>8, <2>2, <2>3 DEF Updated
  <2> QED
    BY <1>0, <1>1, <1>8, <2>2, <2>4 DEF Updated, Statement
<1>9. CASE CheckBanker(s)
  BY <1>0, <1>1, <1>9 DEF CheckBanker, Statement
<1>10. CASE WriteAudit(s)
  <2>1. call[s] \in Creation \cup Deciding
    BY <1>0, <1>10 DEF WriteAudit, CallOK
  <2>2. EntryOf(call[s]) \in Entry
    BY <2>1, WrittenValuesTyped, StoreAssumption
    DEF EntryOf, Entry, Creation, Deciding, Action, StoreAssumption
  <2>3. draft' \in [Session -> [id : Payment \cup {NoUser}, row : Row,
                                entry : Entry \cup {NoCall}]]
    BY <1>0, <1>10, <2>2 DEF WriteAudit
  <2> QED
    BY <1>0, <1>1, <1>10, <2>3 DEF WriteAudit, Statement
<1>11. CASE Apply(s)
  BY <1>0, <1>1, <1>11 DEF Apply, Answer
<1> QED
  BY StepCases, <1>2, <1>4, <1>5, <1>6, <1>7, <1>8, <1>9, <1>10, <1>11

\* The invariant of the transactions holds from the start and is kept.
LEMMA TxInvAlways == TxSpec => []TxInv
<1>1. TxInit => TxInv
  <2> SUFFICES ASSUME TxInit PROVE TxInv
    OBVIOUS
  <2> USE DEF TxInit
  <2>1. StoreTypeOK
    BY WrittenValuesTyped DEF StoreInit, StoreTypeOK
  <2>2. NoDraft \in [id : Payment \cup {NoUser}, row : Row, entry : Entry \cup {NoCall}]
    BY WrittenValuesTyped DEF NoDraft
  <2>3. TxTypeOK
    BY <2>1, <2>2 DEF TxTypeOK
  <2>4. \A s \in Session : CallOK(s) /\ CreationOK(s) /\ DecisionOK(s)
    BY DEF CallOK, CreationOK, DecisionOK, Drafting, Holding
  <2>5. IdsApart /\ LocksHeld /\ UndrawnAbsent
    BY SessionAssumption
    DEF SessionAssumption, IdsApart, Drafting, LocksHeld, UndrawnAbsent, StoreInit
  <2> QED
    BY <2>3, <2>4, <2>5 DEF TxInv
<1>2. TxInv /\ [TxNext]_txVars => TxInv'
  <2>1. ASSUME TxInv, NEW s \in Session, SessionStep(s)
        PROVE  TxInv'
    <3>1. \A t \in Session : CallOK(t)' /\ CreationOK(t)' /\ DecisionOK(t)'
      BY <2>1, OwnOK, OthersOK
    <3> QED
      BY <2>1, <3>1, TxTypeStep, TogetherOK DEF TxInv
  <2>2. ASSUME TxInv, UNCHANGED txVars
        PROVE  TxInv'
    BY <2>2
    DEF TxInv, TxTypeOK, StoreTypeOK, CallOK, CreationOK, DecisionOK, IdsApart,
        LocksHeld, UndrawnAbsent, Drafting, Holding, EntryOf, txVars, lockVars
  <2> QED
    BY <2>1, <2>2 DEF TxNext, SessionStep
<1> QED
  BY <1>1, <1>2, PTL DEF TxSpec

\* Every variable of the transactions keeps its type.
THEOREM TxTypeCorrect == TxSpec => []TxTypeOK
<1>1. TxInv => TxTypeOK
  BY DEF TxInv
<1> QED
  BY <1>1, TxInvAlways, PTL

\* Whatever the interleaving of statements, the waits for locks, the victims of
\* deadlocks and the broken connections, the tables change only as the atomic
\* functions of PaymentStore change them.
THEOREM TransactionsImplementStore == TxSpec => StoreSpec
<1>1. TxInit => StoreInit
  BY DEF TxInit
<1>2. TxInv /\ [TxNext]_txVars => [StoreNext]_storeVars
  BY StepsStore
<1> QED
  BY <1>1, <1>2, TxInvAlways, PTL DEF TxSpec, StoreSpec

\* The audit log and the rows agree in every committed state.
THEOREM TransactionsExplain == TxSpec => []AuditExplainsStatus
  BY TransactionsImplementStore, AuditAlwaysExplains, PTL
-----------------------------------------------------------------------------
\* What AnswersStand says of one session.
Told(s) == stage[s] = "ok" /\ call[s].kind = "decide"
Stands(s) ==
  Told(s) =>
    LET c == call[s]
    IN /\ payments[c.id].status = c.status
       /\ payments[c.id].approved_by = c.banker
       /\ \E i \in 1 .. Len(audit_log[c.id]) : audit_log[c.id][i] = EntryOf(c)
       /\ \A t \in Session \ {s} : Told(t) => call[t].id # c.id

\* The entry a commit appends is in the log, whatever was there before.
LEMMA AppendedIsThere ==
  ASSUME NEW log \in Seq(Entry), NEW e \in Entry
  PROVE  \E i \in 1 .. Len(Append(log, e)) : Append(log, e)[i] = e
<1>1. /\ Len(log) \in Nat
      /\ Len(Append(log, e)) = Len(log) + 1
      /\ Append(log, e)[Len(log) + 1] = e
  OBVIOUS
<1>2. Len(log) + 1 \in 1 .. Len(Append(log, e))
  BY <1>1
<1> QED
  BY <1>1, <1>2

\* A banker is answered by the commit of the decision and in no other way.
LEMMA AnsweredByCommit ==
  ASSUME TxInv, NEW s \in Session, SessionStep(s), Told(s)'
  PROVE  /\ Installed(s) /\ Holding(s) /\ call[s] \in Deciding
         /\ call'[s] = call[s]
<1> USE DEF TxInv, Goto
<1>0. /\ call \in [Session -> Call \cup {NoCall}]
      /\ stage \in [Session -> Statement \cup Answer \cup {"idle"}]
  BY DEF TxTypeOK
<1>1. Installed(s)
  <2>1. ~ \E c \in Call : Begin(s, c)
    BY <1>0 DEF Begin, Told
  <2>2. ~ GivesUp(s) /\ ~ SenderLocked(s) /\ ~ PartiesChecked(s) /\ ~ Updated(s)
    BY <1>0 DEF GivesUp, SenderLocked, PartiesChecked, Updated, Told
  <2>3. ~ CheckBanker(s) /\ ~ WriteAudit(s) /\ ~ \E p \in Payment : Inserted(s, p)
    BY <1>0 DEF CheckBanker, WriteAudit, Inserted, Told
  <2>4. ~ Apply(s)
    BY <1>0 DEF Apply, At, Told
  <2> QED
    BY StepCases, <2>1, <2>2, <2>3, <2>4
<1>2. call'[s] = call[s] /\ stage[s] = "commit"
  BY <1>1 DEF Installed, Install
<1>3. call[s].kind = "decide"
  BY <1>2 DEF Told
<1> QED
  BY <1>1, <1>2, <1>3, CommitDraft DEF Drafting

\* A step of one session keeps the answers of all: the rows they are about are
\* settled, and nobody drafts or locks a settled row.
LEMMA StandsStep ==
  ASSUME TxInv, \A t \in Session : Stands(t), NEW s \in Session, SessionStep(s),
         NEW t \in Session
  PROVE  Stands(t)'
<1> USE DEF TxInv
<1>0. \A u \in Session : u # s => call'[u] = call[u] /\ stage'[u] = stage[u]
  BY OthersStay
<1>1. \A u \in Session : Told(u) =>
        /\ call[u] \in Deciding /\ call[u].id \in Payment
        /\ call[u].status \in Decision
        /\ payments[call[u].id].status = call[u].status
  <2> TAKE u \in Session
  <2>1. Told(u) => call[u] \in Deciding
    BY DEF CallOK, Told, Call, Creation, Deciding, Applying
  <2> QED
    BY <2>1 DEF Deciding, Stands
<1>2. ASSUME t # s, Told(t)
      PROVE  /\ payments'[call[t].id] = payments[call[t].id]
             /\ audit_log'[call[t].id] = audit_log[call[t].id]
  <2>1. payments[call[t].id].status \notin {"PENDING", "ABSENT"}
    BY <1>1, <1>2 DEF Decision
  <2>2. ~ (Drafting(s) /\ call[t].id = draft[s].id)
    BY <2>1 DEF CreationOK, Absent
  <2> QED
    BY <1>1, <1>2, <2>1, <2>2, RowsTouched
<1>3. ASSUME Told(s)'
      PROVE  /\ payments'[call[s].id].status = call[s].status
             /\ payments'[call[s].id].approved_by = call[s].banker
             /\ \E i \in 1 .. Len(audit_log'[call[s].id]) :
                  audit_log'[call[s].id][i] = EntryOf(call[s])
             /\ \A u \in Session \ {s} : Told(u) => call[u].id # call[s].id
  <2> DEFINE c == call[s]
  <2>1. Installed(s) /\ Holding(s) /\ c \in Deciding
    BY <1>3, AnsweredByCommit
  <2>2. /\ c.id \in Payment /\ draft[s].id = c.id /\ draft[s].entry = EntryOf(c)
        /\ draft[s].row = Decided(payments[c.id], c.banker, c.status)
        /\ payments[c.id].status = "PENDING"
    BY <2>1 DEF Installed, Install, CallOK, DecisionOK, Deciding
  <2>3. /\ payments'[c.id] = Decided(payments[c.id], c.banker, c.status)
        /\ audit_log'[c.id] = Append(audit_log[c.id], EntryOf(c))
    BY <2>1, <2>2 DEF Installed, Install, TxTypeOK, StoreTypeOK
  <2>4. payments[c.id] \in Row /\ audit_log[c.id] \in Seq(Entry)
    BY <2>2 DEF TxTypeOK, StoreTypeOK
  <2>5. payments'[c.id].status = c.status /\ payments'[c.id].approved_by = c.banker
    BY <2>3, <2>4 DEF Decided, Row
  <2>6. EntryOf(c) \in Entry
    BY <2>1, WrittenValuesTyped, StoreAssumption
    DEF EntryOf, Entry, Deciding, StoreAssumption
  <2>7. \A u \in Session \ {s} : Told(u) => call[u].id # c.id
    BY <1>1, <2>2 DEF Decision
  <2>8. \E i \in 1 .. Len(Append(audit_log[c.id], EntryOf(c))) :
          Append(audit_log[c.id], EntryOf(c))[i] = EntryOf(c)
    BY <2>4, <2>6, AppendedIsThere
  <2> HIDE DEF c
  <2>9. \E i \in 1 .. Len(audit_log'[c.id]) : audit_log'[c.id][i] = EntryOf(c)
    BY <2>3, <2>8
  <2> QED
    BY <2>5, <2>7, <2>9 DEF c
<1>4. CASE t = s
  <2> SUFFICES ASSUME Told(s)'
               PROVE  Stands(s)'
    BY <1>4 DEF Stands
  <2>1. call'[s] = call[s]
    BY AnsweredByCommit
  <2>2. \A u \in Session \ {s} : Told(u)' => call'[u].id # call'[s].id
    BY <1>0, <1>3, <2>1 DEF Told
  <2> QED
    BY <1>3, <2>1, <2>2 DEF Stands
<1>5. CASE t # s
  <2> SUFFICES ASSUME Told(t)'
               PROVE  Stands(t)'
    BY DEF Stands
  <2>1. Told(t) /\ call'[t] = call[t]
    BY <1>0, <1>5 DEF Told
  <2>2. \A u \in Session \ {t} : Told(u)' => call'[u].id # call'[t].id
    <3>1. ASSUME Told(s)'
          PROVE  call'[s].id # call'[t].id
      BY <1>3, <1>5, <2>1, <3>1, AnsweredByCommit
    <3>2. ASSUME NEW u \in Session \ {t}, u # s, Told(u)'
          PROVE  call'[u].id # call'[t].id
      BY <1>0, <2>1, <3>2 DEF Told, Stands
    <3> QED
      BY <3>1, <3>2
  <2> QED
    BY <1>2, <1>5, <2>1, <2>2 DEF Stands
<1> QED
  BY <1>4, <1>5

\* What a banker was told stays so.
THEOREM AnswersAlwaysStand == TxSpec => []AnswersStand
<1> DEFINE AllStand == \A s \in Session : Stands(s)
<1>1. TxInit => AllStand
  BY DEF TxInit, Stands, Told
<1>2. TxInv /\ AllStand /\ [TxNext]_txVars => AllStand'
  <2>1. ASSUME TxInv, AllStand, NEW s \in Session, SessionStep(s)
        PROVE  AllStand'
    BY <2>1, StandsStep
  <2>2. ASSUME AllStand, UNCHANGED txVars
        PROVE  AllStand'
    BY <2>2 DEF Stands, Told, EntryOf, txVars
  <2> QED
    BY <2>1, <2>2 DEF TxNext, SessionStep
<1>3. AllStand => AnswersStand
  BY DEF Stands, Told, AnswersStand
<1> QED
  BY <1>1, <1>2, <1>3, TxInvAlways, PTL DEF TxSpec

-----------------------------------------------------------------------------
(***************************************************************************)
(* Reporting.                                                              *)
(***************************************************************************)


\* Somebody asks for a report.
Asks(r) ==
  \/ AskStats(r)
  \/ \E u \in User \ Banker :
       AskProfile(r, u) \/ \E n \in Ask : AskHistory(r, u, n)

\* The payments in which a user has a part.
Mine(u) == Sent(u) \cup Received(u)

\* Decisions that the second half of the admin statistics does not list.
Unlisted(d) ==
  {p \in WithStatus(Saved, d) : payments[p].approved_by \notin Banker \ Admin}

\* The statements of a report that has read nothing.
Plan(kind) ==
  CASE kind = "stats" -> StatsPlan
    [] kind = "profile" -> ProfilePlan
    [] kind = "history" -> HistoryPlan

\* What may be left of the statements of a report.
Todos(kind) ==
  CASE kind = "stats" -> {<<"payments", "bankers">>, <<"bankers">>, <<>>}
    [] kind = "profile" -> {<<"counts", "list">>, <<"list">>, <<>>}
    [] kind = "history" -> {<<"counts", "list", "audit">>, <<"list", "audit">>,
                            <<"audit">>, <<>>}
    [] OTHER -> {<<>>}

\* The domain of each field of a report.
ReportType ==
  [kind : Kind \cup {"none"}, user : User \cup {NoUser}, limit : 0 .. MaxAsk,
   todo : Seq({"payments", "bankers", "counts", "list", "audit"}),
   counts : [Counted -> 0 .. Cardinality(Payment)],
   decisions : [Decision -> 0 .. Cardinality(Payment)],
   listed : SUBSET [id : Payment, status : ResultStatus \cup {"ABSENT"}],
   trail : SUBSET Payment]

\* The tables are those of PaymentStore, and born has each saved payment once.
TablesOK ==
  /\ StoreTypeOK
  /\ \A p \in Payment : Explained(p)
  /\ born \in Seq(Payment)
  /\ Range(born) = Saved /\ Len(born) = Cardinality(Saved)
  /\ shown \subseteq Saved

\* A report has read a beginning of its plan.
ReportsTyped ==
  /\ report \in [Reader -> ReportType]
  /\ \A r \in Reader : report[r].todo \in Todos(report[r].kind)

\* Half of the statistics never says more than the rows do.
StatsOK(r) ==
  report[r].kind = "stats" =>
    \A d \in Decision :
      /\ report[r].todo = <<"bankers">> =>
           report[r].counts[d] <= Cardinality(WithStatus(Saved, d))
      /\ report[r].todo = <<>> =>
           report[r].counts[d] <= report[r].decisions[d] + Cardinality(Unlisted(d))

\* What a profile has counted is still there when its list is read.
CountsOK(r) ==
  report[r].todo \in {<<"list">>, <<"list", "audit">>} =>
    /\ report[r].counts["sent"] <= Cardinality(Sent(report[r].user))
    /\ report[r].counts["received"] <= Cardinality(Received(report[r].user))
    /\ report[r].counts["PENDING"] + report[r].counts["APPROVED"]
         + report[r].counts["REJECTED"] <= Cardinality(Mine(report[r].user))
    /\ \A d \in Decision :
         report[r].counts[d] <= Cardinality(WithStatus(Mine(report[r].user), d))

\* What ProfileAgrees says of a report whose list is not cut.
Agrees(r) ==
  /\ report[r].counts["sent"] <= Cardinality(report[r].listed)
  /\ report[r].counts["received"] <= Cardinality(report[r].listed)
  /\ report[r].counts["PENDING"] + report[r].counts["APPROVED"]
       + report[r].counts["REJECTED"] <= Cardinality(report[r].listed)
  /\ \A d \in Decision :
       report[r].counts[d] <= Cardinality({row \in report[r].listed : row.status = d})

\* The list of a profile, once it is read, holds what the counts count.
ListOK(r) ==
  report[r].kind \in {"profile", "history"} /\ report[r].todo \in {<<>>, <<"audit">>} =>
    /\ Cardinality(report[r].listed) < ListLimit => Agrees(r)
    /\ \A row \in report[r].listed : row.id \in Saved

\* The trail of a history, once it is read, explains the list.
TrailOK(r) ==
  report[r].kind = "history" /\ report[r].todo = <<>>
  /\ Cardinality(report[r].trail) < UserLimit(report[r].limit) =>
    \A row \in report[r].listed :
      payments[row.id].sender = report[r].user => row.id \in report[r].trail

\* All that holds of one report.
ReportOK(r) == StatsOK(r) /\ CountsOK(r) /\ ListOK(r) /\ TrailOK(r)

\* The inductive invariant.
ReportingInv ==
  /\ TablesOK
  /\ ReportsTyped
  /\ \A r \in Reader : ReportOK(r)

-----------------------------------------------------------------------------
\* Inserting an element makes a sequence longer by it, and nothing else.
LEMMA InsertedAt ==
  ASSUME NEW S, NEW s \in Seq(S), NEW i \in 1 .. Len(s) + 1, NEW e \in S
  PROVE  /\ InsertAt(s, i, e) \in Seq(S)
         /\ Len(InsertAt(s, i, e)) = Len(s) + 1
         /\ Range(InsertAt(s, i, e)) = Range(s) \cup {e}
<1> DEFINE a == SubSeq(s, 1, i - 1)
           b == SubSeq(s, i, Len(s))
           m == a \o <<e>>
           t == m \o b
           n == Len(s)
<1>0. n \in Nat /\ i \in Nat /\ i >= 1 /\ i <= n + 1
  OBVIOUS
<1>1. /\ a \in Seq(S) /\ Len(a) = i - 1
      /\ \A j \in 1 .. i - 1 : a[j] = s[j]
  <2>1. \A j \in 1 .. i - 1 : s[j] \in S
    BY <1>0
  <2>2. /\ a \in Seq(S)
        /\ Len(a) = IF 1 <= i - 1 THEN (i - 1) - 1 + 1 ELSE 0
        /\ \A j \in 1 .. (i - 1) - 1 + 1 : a[j] = s[1 + j - 1]
    BY <1>0, <2>1, SubSeqProperties
  <2> HIDE DEF a
  <2> QED
    BY <1>0, <2>2
<1>2. /\ b \in Seq(S) /\ Len(b) = n + 1 - i
      /\ \A j \in 1 .. n + 1 - i : b[j] = s[i + j - 1]
  <2>1. \A j \in i .. n : s[j] \in S
    BY <1>0
  <2>2. /\ b \in Seq(S)
        /\ Len(b) = IF i <= n THEN n - i + 1 ELSE 0
        /\ \A j \in 1 .. n - i + 1 : b[j] = s[i + j - 1]
    BY <1>0, <2>1, SubSeqProperties
  <2> HIDE DEF b
  <2> QED
    BY <1>0, <2>2
<1>3. <<e>> \in Seq(S) /\ Len(<<e>>) = 1 /\ <<e>>[1] = e
  OBVIOUS
<1> HIDE DEF a, b
<1>4. /\ m \in Seq(S) /\ Len(m) = i
      /\ \A j \in 1 .. i : m[j] = IF j <= i - 1 THEN s[j] ELSE e
  <2>1. /\ m \in Seq(S) /\ Len(m) = Len(a) + 1
        /\ \A j \in 1 .. Len(a) + 1 :
             m[j] = IF j <= Len(a) THEN a[j] ELSE <<e>>[j - Len(a)]
    BY <1>1, <1>3, ConcatProperties
  <2> HIDE DEF m
  <2>2. \A j \in 1 .. i : m[j] = IF j <= i - 1 THEN s[j] ELSE e
    <3> TAKE j \in 1 .. i
    <3>1. CASE j <= i - 1
      <4>1. m[j] = a[j] /\ a[j] = s[j]
        BY <1>0, <1>1, <2>1, <3>1
      <4> QED
        BY <3>1, <4>1
    <3>2. CASE j = i
      <4>1. m[j] = <<e>>[1]
        BY <1>0, <1>1, <2>1, <3>2
      <4> QED
        BY <1>0, <1>3, <3>2, <4>1
    <3> QED
      BY <1>0, <3>1, <3>2
  <2> QED
    BY <1>0, <1>1, <2>1, <2>2
<1> HIDE DEF m
<1>5. /\ t \in Seq(S) /\ Len(t) = n + 1
      /\ \A j \in 1 .. n + 1 :
           t[j] = IF j < i THEN s[j] ELSE IF j = i THEN e ELSE s[j - 1]
  <2>1. /\ t \in Seq(S) /\ Len(t) = i + (n + 1 - i)
        /\ \A j \in 1 .. i + (n + 1 - i) :
             t[j] = IF j <= i THEN m[j] ELSE b[j - i]
    BY <1>2, <1>4, ConcatProperties
  <2> HIDE DEF t
  <2>2. \A j \in 1 .. n + 1 :
          t[j] = IF j < i THEN s[j] ELSE IF j = i THEN e ELSE s[j - 1]
    <3> TAKE j \in 1 .. n + 1
    <3>1. CASE j < i
      BY <1>0, <1>4, <2>1, <3>1
    <3>2. CASE j = i
      BY <1>0, <1>4, <2>1, <3>2
    <3>3. CASE j > i
      <4>1. t[j] = b[j - i] /\ j - i \in 1 .. n + 1 - i
        BY <1>0, <2>1, <3>3
      <4>2. b[j - i] = s[i + (j - i) - 1]
        BY <1>0, <1>2, <4>1
      <4>3. i + (j - i) - 1 = j - 1
        BY <1>0
      <4> QED
        BY <1>0, <3>3, <4>1, <4>2, <4>3
    <3> QED
      BY <1>0, <3>1, <3>2, <3>3
  <2> QED
    BY <1>0, <2>1, <2>2
<1>6. t = InsertAt(s, i, e)
  BY DEF InsertAt, a, b, m
<1> HIDE DEF t
<1>7. Range(t) = Range(s) \cup {e}
  <2>0. DOMAIN t = 1 .. n + 1 /\ DOMAIN s = 1 .. n
    BY <1>0, <1>5
  <2>1. ASSUME NEW x \in Range(t) PROVE x \in Range(s) \cup {e}
    <3>1. PICK j \in 1 .. n + 1 : t[j] = x
      BY <2>0, <2>1 DEF Range
    <3>2. CASE j < i
      BY <1>0, <1>5, <2>0, <3>1, <3>2 DEF Range
    <3>3. CASE j = i
      BY <1>0, <1>5, <3>1, <3>3
    <3>4. CASE j > i
      <4>1. j - 1 \in 1 .. n /\ x = s[j - 1]
        BY <1>0, <1>5, <3>1, <3>4
      <4> QED
        BY <2>0, <4>1 DEF Range
    <3> QED
      BY <1>0, <3>1, <3>2, <3>3, <3>4
  <2>2. ASSUME NEW x \in Range(s) PROVE x \in Range(t)
    <3>1. PICK j \in 1 .. n : s[j] = x
      BY <2>0, <2>2 DEF Range
    <3>2. CASE j < i
      <4>1. t[j] = x /\ j \in 1 .. n + 1
        BY <1>0, <1>5, <3>1, <3>2
      <4> QED
        BY <2>0, <4>1 DEF Range
    <3>3. CASE j >= i
      <4>1. t[j + 1] = s[(j + 1) - 1] /\ j + 1 \in 1 .. n + 1
        BY <1>0, <1>5, <3>1, <3>3
      <4>2. t[j + 1] = x
        BY <3>1, <4>1
      <4> QED
        BY <2>0, <4>1, <4>2 DEF Range
    <3> QED
      BY <1>0, <3>1, <3>2, <3>3
  <2>3. e \in Range(t)
    <3>1. t[i] = e /\ i \in 1 .. n + 1
      BY <1>0, <1>5
    <3> QED
      BY <2>0, <3>1 DEF Range
  <2> QED
    BY <2>1, <2>2, <2>3
<1> QED
  BY <1>5, <1>6, <1>7

-----------------------------------------------------------------------------
\* Each saved payment has one place in the order of created_at.
LEMMA BornOnce ==
  ASSUME TablesOK, NEW i \in 1 .. Len(born), NEW j \in 1 .. Len(born),
         born[i] = born[j]
  PROVE  i = j
<1>1. IsFiniteSet(1 .. Len(born)) /\ Cardinality(1 .. Len(born)) = Len(born)
  <2>1. Len(born) \in Nat
    BY DEF TablesOK
  <2>2. ASSUME NEW n \in Nat
        PROVE  IsFiniteSet(1 .. n) /\ Cardinality(1 .. n) = n
    <3>1. /\ IsFiniteSet(1 .. n)
          /\ Cardinality(1 .. n) = IF 1 > n THEN 0 ELSE n - 1 + 1
      BY <2>2, FS_Interval, 1 \in Int, n \in Int
    <3>2. (IF 1 > n THEN 0 ELSE n - 1 + 1) = n
      BY <2>2
    <3> QED
      BY <3>1, <3>2
  <2> QED
    BY <2>1, <2>2
<1>2. born \in Surjection(1 .. Len(born), Saved)
  <2>1. born \in [1 .. Len(born) -> Payment] /\ DOMAIN born = 1 .. Len(born)
    BY DEF TablesOK
  <2>2. \A k \in 1 .. Len(born) : born[k] \in Saved
    BY <2>1 DEF TablesOK, Range
  <2>3. born \in [1 .. Len(born) -> Saved]
    BY <2>1, <2>2
  <2>4. \A x \in Saved : \E k \in 1 .. Len(born) : born[k] = x
    BY <2>1 DEF TablesOK, Range
  <2> QED
    BY <2>3, <2>4 DEF Surjection
<1>3. born \in Injection(1 .. Len(born), Saved)
  BY <1>1, <1>2, FS_Surjection DEF TablesOK
<1> QED
  BY <1>3 DEF Injection, IsInjective

\* created_at orders the saved payments.
LEMMA BornOrder ==
  ASSUME TablesOK
  PROVE  /\ \A p, q : Before(p, q) => p \in Saved /\ q \in Saved
         /\ \A p : ~ Before(p, p)
         /\ \A p, q, w : Before(p, q) /\ Before(q, w) => Before(p, w)
<1>0. Len(born) \in Nat /\ DOMAIN born = 1 .. Len(born)
  BY DEF TablesOK
<1>1. \A p, q : Before(p, q) => p \in Saved /\ q \in Saved
  BY <1>0 DEF Before, TablesOK, Range
<1>2. \A p : ~ Before(p, p)
  BY <1>0, BornOnce DEF Before
<1>3. ASSUME NEW p, NEW q, NEW w, Before(p, q), Before(q, w)
      PROVE  Before(p, w)
  <2>1. PICK i \in 1 .. Len(born), j \in 1 .. Len(born) :
          i < j /\ born[i] = p /\ born[j] = q
    BY <1>3 DEF Before
  <2>2. PICK k \in 1 .. Len(born), l \in 1 .. Len(born) :
          k < l /\ born[k] = q /\ born[l] = w
    BY <1>3 DEF Before
  <2>3. j = k
    BY <2>1, <2>2, BornOnce
  <2>4. i < l
    BY <1>0, <2>1, <2>2, <2>3
  <2> QED
    BY <2>1, <2>2, <2>4 DEF Before
<1> QED
  BY <1>1, <1>2, <1>3

\* A list that is shorter than its limit shows everything: if something were
\* hidden, take what is hidden and has the fewest hidden before it; all the
\* payments that are newer are shown, and they are as many as the limit.
LEMMA Uncut ==
  ASSUME TablesOK, NEW S \in SUBSET Saved, NEW n \in Nat,
         Cardinality(Newest(S, n)) < n
  PROVE  Newest(S, n) = S
<1> DEFINE Later(p) == {q \in S : Before(p, q)}
           Hidden == S \ Newest(S, n)
           Sets == {Later(p) : p \in Hidden}
<1>0. /\ IsFiniteSet(Payment) /\ Saved \subseteq Payment
      /\ Newest(S, n) = {p \in S : Cardinality(Later(p)) < n}
  BY StoreAssumption DEF StoreAssumption, Saved, Newest
<1>1. IsFiniteSet(S) /\ \A T \in SUBSET S : IsFiniteSet(T)
  BY <1>0, FS_Subset
<1>2. SUFFICES ASSUME Hidden # {} PROVE FALSE
  BY DEF Newest
<1>3. PICK X \in Sets : \A Y \in Sets : ~ (<<Y, X>> \in StrictSubsetOrdering(S))
  <2>1. IsWellFoundedOn(StrictSubsetOrdering(S), FiniteSubsetsOf(S))
    BY FS_StrictSubsetOrderingWellFounded
  <2>2. Sets \subseteq FiniteSubsetsOf(S) /\ Sets # {}
    BY <1>1, <1>2 DEF FiniteSubsetsOf
  <2> HIDE DEF Sets
  <2> QED
    BY <2>1, <2>2, WFMin
<1>4. PICK p \in Hidden : X = Later(p)
  BY <1>3
<1>5. ASSUME NEW q \in Later(p)
      PROVE  q \in Newest(S, n)
  <2>1. Later(q) \subseteq Later(p) /\ q \notin Later(q)
    BY <1>5, BornOrder
  <2>2. <<Later(q), Later(p)>> \in StrictSubsetOrdering(S)
    BY <1>5, <2>1 DEF StrictSubsetOrdering
  <2>3. q \notin Hidden
    BY <1>3, <1>4, <2>2
  <2> QED
    BY <1>5, <2>3
<1>6. Cardinality(Later(p)) <= Cardinality(Newest(S, n))
  <2>1. Later(p) \subseteq Newest(S, n) /\ IsFiniteSet(Newest(S, n))
    BY <1>0, <1>1, <1>5
  <2> QED
    BY <2>1, FS_Subset
<1>7. ~ (Cardinality(Later(p)) < n)
  BY <1>0, <1>4
<1>8. Cardinality(Later(p)) \in Nat /\ Cardinality(Newest(S, n)) \in Nat
  BY <1>0, <1>1, FS_CardinalityType
<1> QED
  BY <1>6, <1>7, <1>8

-----------------------------------------------------------------------------
\* The tables change by the steps of PaymentStore only.
LEMMA ReportingStepsStore ==
  ASSUME [ReportingNext]_vars
  PROVE  [StoreNext]_storeVars
<1>1. ASSUME NEW p \in Payment, NEW s \in User, NEW u \in User, NEW a \in Amount,
             Create(p, s, u, a)
      PROVE  StoreNext
  BY <1>1 DEF Create, StoreNext
<1>2. ASSUME NEW p \in Payment, NEW st \in ResultStatus, Process(p, st)
      PROVE  StoreNext
  BY <1>2 DEF Process, StoreNext
<1>3. ASSUME NEW b \in Banker, NEW p \in Payment, NEW st \in Decision,
             Decide(b, p, st)
      PROVE  StoreNext
  BY <1>3 DEF Decide, StoreNext
<1>4. ASSUME Look PROVE UNCHANGED storeVars
  BY <1>4 DEF Look, storeVars
<1>5. ASSUME NEW r \in Reader, Asks(r) PROVE UNCHANGED storeVars
  BY <1>5 DEF Asks, AskStats, AskProfile, AskHistory, storeVars
<1>6. ASSUME NEW r \in Reader, Read(r) \/ Finish(r) PROVE UNCHANGED storeVars
  BY <1>6 DEF Read, Finish, storeVars
<1>7. ASSUME UNCHANGED vars PROVE UNCHANGED storeVars
  BY <1>7 DEF vars, storeVars
<1> QED
  BY <1>1, <1>2, <1>3, <1>4, <1>5, <1>6, <1>7 DEF ReportingNext, Asks

\* What a statement has counted is there for the next one to count: payments do
\* not go away or change their parties, and decisions stand.
LEMMA CountedStays ==
  ASSUME TablesOK, [ReportingNext]_vars
  PROVE  /\ Saved \subseteq Saved'
         /\ \A u : /\ Sent(u) \subseteq Sent(u)'
                  /\ Received(u) \subseteq Received(u)'
                  /\ Mine(u) \subseteq Mine(u)'
                  /\ \A d \in Decision :
                       WithStatus(Mine(u), d) \subseteq WithStatus(Mine(u), d)'
         /\ \A d \in Decision :
              /\ WithStatus(Saved, d) \subseteq WithStatus(Saved, d)'
              /\ Unlisted(d) \subseteq Unlisted(d)'
<1>1. \A p \in Payment : Kept(p)
  BY ReportingStepsStore, KeptStep DEF TablesOK
<1>2. Saved \subseteq Saved'
  BY <1>1 DEF Kept, Saved
<1>3. ASSUME NEW u
      PROVE  Sent(u) \subseteq Sent(u)' /\ Received(u) \subseteq Received(u)'
  <2>1. \A p \in Saved : /\ payments'[p].sender = payments[p].sender
                         /\ payments'[p].recipient = payments[p].recipient
    BY <1>1 DEF Kept, Saved
  <2> QED
    BY <1>2, <2>1 DEF Sent, Received
<1>4. ASSUME NEW u PROVE Mine(u) \subseteq Mine(u)'
  BY <1>3 DEF Mine
<1>5. ASSUME NEW d \in Decision, NEW p \in Saved, payments[p].status = d
      PROVE  payments'[p] = payments[p]
  BY <1>1, <1>5 DEF Kept, Saved, Decision, Final
<1>6. ASSUME NEW u, NEW d \in Decision
      PROVE  WithStatus(Mine(u), d) \subseteq WithStatus(Mine(u), d)'
  <2>1. Mine(u) \subseteq Saved
    BY DEF Mine, Sent, Received
  <2>2. \A p \in Mine(u) : payments[p].status = d => payments'[p].status = d
    BY <1>5, <2>1
  <2> QED
    BY <1>4, <2>2 DEF WithStatus
<1>7. ASSUME NEW d \in Decision
      PROVE  WithStatus(Saved, d) \subseteq WithStatus(Saved, d)'
  BY <1>2, <1>5 DEF WithStatus
<1>8. ASSUME NEW d \in Decision
      PROVE  Unlisted(d) \subseteq Unlisted(d)'
  <2>1. \A p \in WithStatus(Saved, d) : payments'[p] = payments[p]
    BY <1>5 DEF WithStatus
  <2> QED
    BY <1>7, <2>1 DEF Unlisted
<1> QED
  BY <1>2, <1>3, <1>4, <1>6, <1>7, <1>8

\* Sets of payments are finite, and larger sets have more of them.
LEMMA PaymentSets ==
  ASSUME NEW S \in SUBSET Payment
  PROVE  /\ IsFiniteSet(S)
         /\ Cardinality(S) \in 0 .. Cardinality(Payment)
         /\ \A T \in SUBSET S : Cardinality(T) <= Cardinality(S)
<1>1. /\ IsFiniteSet(S) /\ Cardinality(S) <= Cardinality(Payment)
      /\ Cardinality(Payment) \in Nat
  BY StoreAssumption, FS_Subset, FS_CardinalityType DEF StoreAssumption
<1>2. Cardinality(S) \in Nat /\ \A T \in SUBSET S : Cardinality(T) <= Cardinality(S)
  BY <1>1, FS_Subset, FS_CardinalityType
<1> QED
  BY <1>1, <1>2

\* The order of created_at has exactly the saved payments, and a screen shows
\* some of them.
LEMMA TablesStep ==
  ASSUME TablesOK, [ReportingNext]_vars
  PROVE  TablesOK'
<1>0. /\ StoreTypeOK /\ \A p \in Payment : Explained(p)
      /\ born \in Seq(Payment) /\ Range(born) = Saved
      /\ Len(born) = Cardinality(Saved) /\ shown \subseteq Saved
      /\ [StoreNext]_storeVars
  BY ReportingStepsStore DEF TablesOK
<1>1. StoreTypeOK' /\ \A p \in Payment : Explained(p)'
  BY <1>0, StoreTypeStep, ExplainedStep
<1>2. Saved \subseteq Saved'
  BY CountedStays
<1>3. ASSUME NEW p \in Payment, NEW s \in User, NEW u \in User, NEW a \in Amount,
             Create(p, s, u, a)
      PROVE  TablesOK'
  <2>1. /\ payments[p] = Absent /\ payments' = [payments EXCEPT ![p] = NewRow(s, u, a)]
        /\ shown' = shown
    BY <1>3 DEF Create, CreatePayment
  <2>2. Saved' = Saved \cup {p} /\ p \notin Saved
    BY <1>0, <2>1 DEF Saved, StoreTypeOK, Absent, NewRow
  <2>3. PICK i \in 1 .. Len(born) + 1 : born' = InsertAt(born, i, p)
    BY <1>3 DEF Create
  <2>4. /\ born' \in Seq(Payment) /\ Len(born') = Len(born) + 1
        /\ Range(born') = Range(born) \cup {p}
    BY <1>0, <2>3, InsertedAt
  <2>5. Cardinality(Saved') = Cardinality(Saved) + 1
    <3>1. Saved \in SUBSET Payment
      BY DEF Saved
    <3>2. IsFiniteSet(Saved)
      BY <3>1, PaymentSets
    <3> QED
      BY <2>2, <3>2, FS_AddElement
  <2> QED
    BY <1>0, <1>1, <2>1, <2>2, <2>4, <2>5 DEF TablesOK
<1>4. ASSUME born' = born, shown' \subseteq Saved, Saved' \subseteq Saved
      PROVE  TablesOK'
  <2>1. Saved' = Saved
    BY <1>2, <1>4
  <2> QED
    BY <1>0, <1>1, <1>4, <2>1 DEF TablesOK
<1>5. ASSUME NEW p \in Payment, payments[p].status # "ABSENT",
             \A q \in Payment \ {p} : payments'[q] = payments[q]
      PROVE  Saved' \subseteq Saved
  BY <1>5 DEF Saved
<1>6. ASSUME NEW p \in Payment, NEW st \in ResultStatus, Process(p, st)
      PROVE  TablesOK'
  <2>1. /\ payments[p].status # "ABSENT" /\ born' = born /\ shown' = shown
        /\ \A q \in Payment \ {p} : payments'[q] = payments[q]
    BY <1>0, <1>6 DEF Process, ApplyProcessingResult, StoreTypeOK
  <2> QED
    BY <1>0, <1>4, <1>5, <2>1
<1>7. ASSUME NEW b \in Banker, NEW p \in Payment, NEW st \in Decision,
             Decide(b, p, st)
      PROVE  TablesOK'
  <2>1. /\ payments[p].status # "ABSENT" /\ born' = born /\ shown' = shown
        /\ \A q \in Payment \ {p} : payments'[q] = payments[q]
    BY <1>0, <1>7 DEF Decide, DecidePayment, StoreTypeOK
  <2> QED
    BY <1>0, <1>4, <1>5, <2>1
<1>8. ASSUME Look PROVE TablesOK'
  <2>1. born' = born /\ payments' = payments /\ shown' \subseteq Saved
    BY <1>8 DEF Look, storeVars, PendingPayments, Oldest, WithStatus
  <2> QED
    BY <1>4, <2>1 DEF Saved
<1>9. ASSUME NEW r \in Reader, Asks(r) PROVE TablesOK'
  BY <1>0, <1>4, <1>9 DEF Asks, AskStats, AskProfile, AskHistory, storeVars, Saved
<1>10. ASSUME NEW r \in Reader, Read(r) \/ Finish(r) PROVE TablesOK'
  BY <1>0, <1>4, <1>10 DEF Read, Finish, storeVars, Saved
<1>11. ASSUME UNCHANGED vars PROVE TablesOK'
  BY <1>0, <1>4, <1>11 DEF vars, storeVars, Saved
<1> QED
  BY <1>3, <1>6, <1>7, <1>8, <1>9, <1>10, <1>11 DEF ReportingNext, Asks

-----------------------------------------------------------------------------
\* Every way to count payments gives a number of them.
LEMMA CountsTyped ==
  /\ PaymentStats \in [Counted -> 0 .. Cardinality(Payment)]
  /\ AllBankerStats \in [Decision -> 0 .. Cardinality(Payment)]
  /\ \A u : ClientStats(u) \in [Counted -> 0 .. Cardinality(Payment)]
<1> DEFINE N == 0 .. Cardinality(Payment)
<1>0. 0 \in N /\ \A S \in SUBSET Payment : Cardinality(S) \in N
  <2>1. {} \in SUBSET Payment /\ Cardinality({}) = 0
    BY FS_EmptySet
  <2> QED
    BY <2>1, PaymentSets
<1> HIDE DEF N
<1>1. /\ Saved \in SUBSET Payment
      /\ \A st : WithStatus(Saved, st) \in SUBSET Payment
      /\ \A u : /\ Sent(u) \in SUBSET Payment /\ Received(u) \in SUBSET Payment
               /\ \A st : WithStatus(Sent(u) \cup Received(u), st) \in SUBSET Payment
  BY DEF Saved, WithStatus, Sent, Received
<1>2. PaymentStats \in [Counted -> N]
  <2>1. \A k \in Counted :
          (CASE k = "total" -> Cardinality(Saved)
             [] k \in ResultStatus -> Cardinality(WithStatus(Saved, k))
             [] OTHER -> 0) \in N
    BY <1>0, <1>1 DEF Counted, ResultStatus
  <2> QED
    BY <2>1 DEF PaymentStats
<1>3. AllBankerStats \in [Decision -> N]
  <2>1. \A d \in Decision :
          {p \in WithStatus(Saved, d) : payments[p].approved_by \in Banker \ Admin}
            \in SUBSET Payment
    BY DEF WithStatus, Saved
  <2> QED
    BY <1>0, <2>1 DEF AllBankerStats
<1>4. ASSUME NEW u PROVE ClientStats(u) \in [Counted -> N]
  <2> DEFINE M == Sent(u) \cup Received(u)
  <2>1. \A k \in Counted :
          (CASE k = "sent" -> Cardinality(Sent(u))
             [] k = "received" -> Cardinality(Received(u))
             [] k \in {"PENDING"} \cup Decision -> Cardinality(WithStatus(M, k))
             [] OTHER -> 0) \in N
    BY <1>0, <1>1 DEF Counted, Decision
  <2> QED
    BY <2>1 DEF ClientStats
<1> QED
  BY <1>2, <1>3, <1>4 DEF N

\* queryLimit and the store keep limits between 1 and their largest.
LEMMA LimitsTyped ==
  /\ \A n \in Ask : queryLimit(n) \in 0 .. MaxAsk
  /\ \A n \in 0 .. MaxAsk : UserLimit(n) \in Nat
  /\ UserLimit(ListLimit) = ListLimit /\ ListLimit \in Nat
BY ReportingAssumption DEF ReportingAssumption, queryLimit, UserLimit

\* What a list shows of a set of payments.
RowsOf(S) == {[id |-> p, status |-> payments[p].status] : p \in S}

\* The rows of a list are as many as its payments.
LEMMA RowsCounted ==
  ASSUME NEW S \in SUBSET Payment
  PROVE  IsFiniteSet(RowsOf(S)) /\ Cardinality(RowsOf(S)) = Cardinality(S)
<1> DEFINE f == [p \in S |-> [id |-> p, status |-> payments[p].status]]
<1>1. f \in Bijection(S, RowsOf(S))
  <2>1. f \in [S -> RowsOf(S)]
    BY DEF RowsOf
  <2>2. \A p, q \in S : f[p] = f[q] => p = q
    <3> TAKE p, q \in S
    <3>1. f[p].id = p /\ f[q].id = q
      OBVIOUS
    <3> HIDE DEF f
    <3> QED
      BY <3>1
  <2>3. \A row \in RowsOf(S) : \E p \in S : f[p] = row
    BY DEF RowsOf
  <2> HIDE DEF f
  <2> QED
    BY <2>1, <2>2, <2>3 DEF Bijection, Injection, Surjection, IsInjective
<1>2. ExistsBijection(S, RowsOf(S))
  BY <1>1 DEF ExistsBijection
<1> QED
  BY <1>2, PaymentSets, FS_Bijection

\* A list that is not cut has the payments of the client, each with its status.
LEMMA ListRead ==
  ASSUME TablesOK, NEW u
  PROVE  /\ PaymentsForUser(u)
              \in SUBSET [id : Payment, status : ResultStatus \cup {"ABSENT"}]
         /\ \A row \in PaymentsForUser(u) : row.id \in Saved
         /\ Cardinality(PaymentsForUser(u)) < ListLimit =>
              /\ Cardinality(PaymentsForUser(u)) = Cardinality(Mine(u))
              /\ \A d \in Decision :
                   Cardinality({row \in PaymentsForUser(u) : row.status = d})
                     = Cardinality(WithStatus(Mine(u), d))
<1> DEFINE N == Newest(Mine(u), ListLimit)
<1>1. /\ PaymentsForUser(u) = RowsOf(N)
      /\ Mine(u) \in SUBSET Saved /\ N \in SUBSET Saved /\ Saved \in SUBSET Payment
  BY LimitsTyped
  DEF PaymentsForUser, RowsOf, Mine, Sent, Received, Saved, Newest
<1>2. Cardinality(PaymentsForUser(u)) = Cardinality(N)
  BY <1>1, RowsCounted
<1>3. ASSUME Cardinality(PaymentsForUser(u)) < ListLimit
      PROVE  N = Mine(u)
  BY <1>1, <1>2, <1>3, Uncut, LimitsTyped
<1> HIDE DEF N
<1>4. \A d : {row \in RowsOf(N) : row.status = d} = RowsOf(WithStatus(N, d))
  BY DEF RowsOf, WithStatus
<1>5. \A d : WithStatus(N, d) \in SUBSET Payment
  BY <1>1 DEF WithStatus
<1>6. \A d : Cardinality({row \in PaymentsForUser(u) : row.status = d})
              = Cardinality(WithStatus(N, d))
  BY <1>1, <1>4, <1>5, RowsCounted
<1>7. \A p \in Payment : payments[p].status \in ResultStatus \cup {"ABSENT"}
  BY DEF TablesOK, StoreTypeOK, Row
<1>8. PaymentsForUser(u)
        \in SUBSET [id : Payment, status : ResultStatus \cup {"ABSENT"}]
  BY <1>1, <1>7 DEF RowsOf
<1>9. \A row \in PaymentsForUser(u) : row.id \in Saved
  BY <1>1 DEF RowsOf
<1> QED
  BY <1>2, <1>3, <1>6, <1>8, <1>9

\* The counts of a profile, read in one statement: no payment is counted under
\* two statuses.
LEMMA CountsRead ==
  ASSUME NEW u
  PROVE  /\ ClientStats(u)["sent"] = Cardinality(Sent(u))
         /\ ClientStats(u)["received"] = Cardinality(Received(u))
         /\ \A d \in Decision :
              ClientStats(u)[d] = Cardinality(WithStatus(Mine(u), d))
         /\ ClientStats(u)["PENDING"] + ClientStats(u)["APPROVED"]
              + ClientStats(u)["REJECTED"] <= Cardinality(Mine(u))
<1>1. /\ ClientStats(u)["sent"] = Cardinality(Sent(u))
      /\ ClientStats(u)["received"] = Cardinality(Received(u))
      /\ \A d \in {"PENDING"} \cup Decision :
           ClientStats(u)[d] = Cardinality(WithStatus(Mine(u), d))
  <2>1. {"sent", "received", "PENDING", "APPROVED", "REJECTED"} \subseteq Counted
    BY DEF Counted, ResultStatus
  <2> QED
    BY <2>1 DEF ClientStats, Mine, Decision
<1> DEFINE P == WithStatus(Mine(u), "PENDING")
           A == WithStatus(Mine(u), "APPROVED")
           R == WithStatus(Mine(u), "REJECTED")
<1>2. /\ Mine(u) \in SUBSET Payment
      /\ P \in SUBSET Mine(u) /\ A \in SUBSET Mine(u) /\ R \in SUBSET Mine(u)
      /\ P \cap A = {} /\ (P \cup A) \cap R = {}
  BY DEF WithStatus, Mine, Sent, Received, Saved
<1>3. /\ ClientStats(u)["PENDING"] = Cardinality(P)
      /\ ClientStats(u)["APPROVED"] = Cardinality(A)
      /\ ClientStats(u)["REJECTED"] = Cardinality(R)
  BY <1>1 DEF Decision
<1> HIDE DEF P, A, R
<1>4. IsFiniteSet(P) /\ IsFiniteSet(A) /\ IsFiniteSet(R) /\ IsFiniteSet(P \cup A)
  BY <1>2, PaymentSets
<1>5. Cardinality(P \cap A) = 0 /\ Cardinality((P \cup A) \cap R) = 0
  <2>1. P \cap A = {} /\ (P \cup A) \cap R = {}
    BY <1>2
  <2> QED
    BY <2>1, FS_EmptySet
<1>6. /\ Cardinality(P) \in Nat /\ Cardinality(A) \in Nat /\ Cardinality(R) \in Nat
      /\ Cardinality(P \cup A) \in Nat
  BY <1>4, FS_CardinalityType
<1>7. Cardinality(P \cup A) = Cardinality(P) + Cardinality(A)
  <2>1. Cardinality(P \cup A) = Cardinality(P) + Cardinality(A) - Cardinality(P \cap A)
    BY <1>4, FS_Union
  <2> QED
    BY <1>5, <1>6, <2>1
<1>8. Cardinality((P \cup A) \cup R) = Cardinality(P \cup A) + Cardinality(R)
  <2>1. Cardinality((P \cup A) \cup R) =
          Cardinality(P \cup A) + Cardinality(R) - Cardinality((P \cup A) \cap R)
    BY <1>4, FS_Union
  <2> QED
    BY <1>5, <1>6, <2>1
<1>9. Cardinality((P \cup A) \cup R) <= Cardinality(Mine(u))
  BY <1>2, PaymentSets
<1> QED
  BY <1>1, <1>3, <1>7, <1>8, <1>9

\* The halves of the admin statistics, if both are read from the same tables.
LEMMA StatsRead ==
  ASSUME NEW d \in Decision
  PROVE  /\ PaymentStats[d] = Cardinality(WithStatus(Saved, d))
         /\ Cardinality(WithStatus(Saved, d))
              <= AllBankerStats[d] + Cardinality(Unlisted(d))
<1> DEFINE W == WithStatus(Saved, d)
           L == {p \in W : payments[p].approved_by \in Banker \ Admin}
           X == Unlisted(d)
<1>1. PaymentStats[d] = Cardinality(W) /\ AllBankerStats[d] = Cardinality(L)
  BY DEF PaymentStats, AllBankerStats, Counted, ResultStatus, Decision
<1>2. W \in SUBSET Payment /\ L \in SUBSET W /\ X \in SUBSET W /\ L \cup X = W
  BY DEF WithStatus, Saved, Unlisted
<1> HIDE DEF W, L, X
<1>3. IsFiniteSet(L) /\ IsFiniteSet(X) /\ IsFiniteSet(L \cap X)
  BY <1>2, PaymentSets
<1>4. Cardinality(W) = Cardinality(L) + Cardinality(X) - Cardinality(L \cap X)
  BY <1>2, <1>3, FS_Union
<1>5. /\ Cardinality(L) \in Nat /\ Cardinality(X) \in Nat
      /\ Cardinality(L \cap X) \in Nat
  BY <1>3, FS_CardinalityType
<1> QED
  BY <1>1, <1>4, <1>5 DEF W, X

\* A trail that is not cut has every payment that the client has created.
LEMMA TrailRead ==
  ASSUME TablesOK, NEW u \in User \cup {NoUser}, NEW n \in 0 .. MaxAsk
  PROVE  /\ AuditForUser(u, n) \subseteq Payment
         /\ Cardinality(AuditForUser(u, n)) < UserLimit(n) =>
              \A p \in Saved : payments[p].sender = u => p \in AuditForUser(u, n)
<1> DEFINE C == {p \in Saved : \E i \in 1 .. Len(audit_log[p]) : audit_log[p][i] =
                   [user |-> u, action |-> "CREATE_PAYMENT"]}
<1>1. AuditForUser(u, n) = Newest(C, UserLimit(n)) /\ C \in SUBSET Saved
  BY DEF AuditForUser
<1>2. Newest(C, UserLimit(n)) \subseteq Payment
  BY <1>1 DEF Newest, Saved
<1>3. ASSUME Cardinality(AuditForUser(u, n)) < UserLimit(n)
      PROVE  AuditForUser(u, n) = C
  <2> HIDE DEF C
  <2> QED
    BY <1>1, <1>3, Uncut, LimitsTyped
<1>4. ASSUME NEW p \in Saved, payments[p].sender = u
      PROVE  p \in C
  <2>1. /\ Explained(p) /\ p \in Payment /\ payments[p].status # "ABSENT"
        /\ audit_log[p] \in Seq(Entry)
    BY DEF TablesOK, StoreTypeOK, Saved
  <2>2. \/ audit_log[p] = <<[user |-> u, action |-> "CREATE_PAYMENT"]>>
        \/ \E x : audit_log[p] = <<[user |-> u, action |-> "CREATE_PAYMENT"], x>>
    BY <1>4, <2>1 DEF Explained
  <2>3. /\ Len(audit_log[p]) >= 1 /\ Len(audit_log[p]) \in Nat
        /\ audit_log[p][1] = [user |-> u, action |-> "CREATE_PAYMENT"]
    BY <2>1, <2>2
  <2> QED
    BY <2>3
<1> QED
  BY <1>1, <1>2, <1>3, <1>4

-----------------------------------------------------------------------------
\* The plans, statement by statement.
LEMMA Plans ==
  /\ <<"payments", "bankers">> # <<>> /\ Head(<<"payments", "bankers">>) = "payments"
  /\ Tail(<<"payments", "bankers">>) = <<"bankers">>
  /\ <<"bankers">> # <<>> /\ Head(<<"bankers">>) = "bankers" /\ Tail(<<"bankers">>) = <<>>
  /\ <<"counts", "list">> # <<>> /\ Head(<<"counts", "list">>) = "counts"
  /\ Tail(<<"counts", "list">>) = <<"list">>
  /\ <<"list">> # <<>> /\ Head(<<"list">>) = "list" /\ Tail(<<"list">>) = <<>>
  /\ Head(<<"counts", "list", "audit">>) = "counts"
  /\ Tail(<<"counts", "list", "audit">>) = <<"list", "audit">>
  /\ Head(<<"list", "audit">>) = "list" /\ Tail(<<"list", "audit">>) = <<"audit">>
  /\ Head(<<"audit">>) = "audit" /\ Tail(<<"audit">>) = <<>>
  /\ <<"list", "audit">> # <<>> /\ <<"audit">> # <<>>
OBVIOUS

\* The statements that may be left are statements.
LEMMA RestTyped ==
  {<<>>, <<"bankers">>, <<"list">>, <<"list", "audit">>, <<"audit">>}
    \subseteq Seq({"payments", "bankers", "counts", "list", "audit"})
<1> DEFINE T == {"payments", "bankers", "counts", "list", "audit"}
<1>1. <<>> \in Seq(T) /\ <<"bankers">> \in Seq(T) /\ <<"list">> \in Seq(T)
  OBVIOUS
<1>2. <<"list", "audit">> \in Seq(T) /\ <<"audit">> \in Seq(T)
  OBVIOUS
<1> QED
  BY <1>1, <1>2

\* The plans, written out.
LEMMA PlanIs ==
  /\ Plan("stats") = <<"payments", "bankers">>
  /\ Plan("profile") = <<"counts", "list">>
  /\ Plan("history") = <<"counts", "list", "audit">>
BY DEF Plan, StatsPlan, ProfilePlan, HistoryPlan

\* So are those of a plan.
LEMMA PlanTyped ==
  ASSUME NEW k \in Kind
  PROVE  Plan(k) \in Seq({"payments", "bankers", "counts", "list", "audit"})
<1> DEFINE T == {"payments", "bankers", "counts", "list", "audit"}
<1>1. /\ <<"payments", "bankers">> \in Seq(T) /\ <<"counts", "list">> \in Seq(T)
      /\ <<"counts", "list", "audit">> \in Seq(T)
  OBVIOUS
<1> HIDE DEF T
<1>2. Plan(k) \in Seq(T)
  BY <1>1, PlanIs DEF Kind
<1> QED
  BY <1>2 DEF T

\* Different ends of plans are different sequences.
LEMMA PlansApart ==
  /\ <<"bankers">> \notin {<<>>, <<"audit">>, <<"list">>, <<"list", "audit">>}
  /\ <<"audit">> \notin {<<>>, <<"bankers">>, <<"list">>, <<"list", "audit">>}
  /\ <<>> \notin {<<"audit">>, <<"bankers">>, <<"list">>, <<"list", "audit">>}
  /\ <<"list">> \notin {<<>>, <<"audit">>, <<"bankers">>, <<"list", "audit">>}
  /\ <<"list", "audit">> \notin {<<>>, <<"audit">>, <<"bankers">>, <<"list">>}
  /\ <<"payments", "bankers">> \notin
       {<<>>, <<"audit">>, <<"bankers">>, <<"list">>, <<"list", "audit">>}
  /\ <<"counts", "list">> \notin
       {<<>>, <<"audit">>, <<"bankers">>, <<"list">>, <<"list", "audit">>}
  /\ <<"counts", "list", "audit">> \notin
       {<<>>, <<"audit">>, <<"bankers">>, <<"list">>, <<"list", "audit">>}
OBVIOUS

\* What is counted of the tables never gets less.
LEMMA CountsGrow ==
  ASSUME TablesOK, [ReportingNext]_vars, NEW u
  PROVE  /\ Cardinality(Sent(u)) <= Cardinality(Sent(u)')
         /\ Cardinality(Received(u)) <= Cardinality(Received(u)')
         /\ Cardinality(Mine(u)) <= Cardinality(Mine(u)')
         /\ \A d \in Decision :
              /\ Cardinality(WithStatus(Mine(u), d))
                   <= Cardinality(WithStatus(Mine(u), d)')
              /\ Cardinality(WithStatus(Saved, d))
                   <= Cardinality(WithStatus(Saved, d)')
              /\ Cardinality(Unlisted(d)) <= Cardinality(Unlisted(d)')
<1>1. ASSUME NEW S \in SUBSET Payment, NEW T \in SUBSET S
      PROVE  Cardinality(T) <= Cardinality(S)
  BY PaymentSets
<1>2. /\ Sent(u)' \in SUBSET Payment /\ Received(u)' \in SUBSET Payment
      /\ Mine(u)' \in SUBSET Payment
      /\ \A d \in Decision : /\ WithStatus(Mine(u), d)' \in SUBSET Payment
                            /\ WithStatus(Saved, d)' \in SUBSET Payment
                            /\ Unlisted(d)' \in SUBSET Payment
  BY DEF Sent, Received, Mine, Saved, WithStatus, Unlisted
<1>3. Cardinality(Sent(u)) <= Cardinality(Sent(u)')
  BY <1>1, <1>2, CountedStays
<1>4. Cardinality(Received(u)) <= Cardinality(Received(u)')
  BY <1>1, <1>2, CountedStays
<1>5. Cardinality(Mine(u)) <= Cardinality(Mine(u)')
  BY <1>1, <1>2, CountedStays
<1>6. ASSUME NEW d \in Decision
      PROVE  /\ Cardinality(WithStatus(Mine(u), d))
                  <= Cardinality(WithStatus(Mine(u), d)')
             /\ Cardinality(WithStatus(Saved, d))
                  <= Cardinality(WithStatus(Saved, d)')
             /\ Cardinality(Unlisted(d)) <= Cardinality(Unlisted(d)')
  BY <1>1, <1>2, CountedStays
<1> QED
  BY <1>3, <1>4, <1>5, <1>6

\* They are numbers, before and after a step.
LEMMA CountsAreNumbers ==
  ASSUME NEW u
  PROVE  /\ Cardinality(Sent(u)) \in Nat /\ Cardinality(Sent(u)') \in Nat
         /\ Cardinality(Received(u)) \in Nat /\ Cardinality(Received(u)') \in Nat
         /\ Cardinality(Mine(u)) \in Nat /\ Cardinality(Mine(u)') \in Nat
         /\ \A d \in Decision : /\ Cardinality(WithStatus(Mine(u), d)) \in Nat
                               /\ Cardinality(WithStatus(Mine(u), d)') \in Nat
                               /\ Cardinality(WithStatus(Saved, d)) \in Nat
                               /\ Cardinality(WithStatus(Saved, d)') \in Nat
                               /\ Cardinality(Unlisted(d)) \in Nat
                               /\ Cardinality(Unlisted(d)') \in Nat
<1>1. \A S \in SUBSET Payment : Cardinality(S) \in Nat
  BY PaymentSets, FS_CardinalityType
<1>2. /\ Sent(u) \in SUBSET Payment /\ Received(u) \in SUBSET Payment
      /\ Mine(u) \in SUBSET Payment
      /\ \A d \in Decision : /\ WithStatus(Mine(u), d) \in SUBSET Payment
                            /\ WithStatus(Saved, d) \in SUBSET Payment
                            /\ Unlisted(d) \in SUBSET Payment
  BY DEF Sent, Received, Mine, Saved, WithStatus, Unlisted
<1>3. /\ Sent(u)' \in SUBSET Payment /\ Received(u)' \in SUBSET Payment
      /\ Mine(u)' \in SUBSET Payment
      /\ \A d \in Decision : /\ WithStatus(Mine(u), d)' \in SUBSET Payment
                            /\ WithStatus(Saved, d)' \in SUBSET Payment
                            /\ Unlisted(d)' \in SUBSET Payment
  BY DEF Sent, Received, Mine, Saved, WithStatus, Unlisted
<1> QED
  BY <1>1, <1>2, <1>3

\* The fields of a report.
LEMMA ReportFields ==
  ASSUME ReportsTyped, NEW r \in Reader
  PROVE  /\ report[r] \in ReportType
         /\ \A k \in Counted : report[r].counts[k] \in Nat
         /\ \A d \in Decision : report[r].decisions[d] \in Nat
         /\ {"sent", "received", "PENDING", "APPROVED", "REJECTED"} \subseteq Counted
         /\ Decision \subseteq Counted
<1>1. report[r] \in ReportType
  BY DEF ReportsTyped
<1>2. /\ report[r].counts \in [Counted -> 0 .. Cardinality(Payment)]
      /\ report[r].decisions \in [Decision -> 0 .. Cardinality(Payment)]
  BY <1>1 DEF ReportType
<1>3. Cardinality(Payment) \in Nat
  BY StoreAssumption, FS_CardinalityType DEF StoreAssumption
<1> QED
  BY <1>1, <1>2, <1>3 DEF Counted, Decision, ResultStatus

\* What a report has read stays within what the tables say.
LEMMA ReportStays ==
  ASSUME TablesOK, ReportsTyped, [ReportingNext]_vars,
         NEW r \in Reader, ReportOK(r), report'[r] = report[r]
  PROVE  ReportOK(r)'
<1>0. /\ \A k \in Counted : report[r].counts[k] \in Nat
      /\ \A d \in Decision : report[r].decisions[d] \in Nat
      /\ Decision \subseteq Counted
      /\ {"sent", "received", "PENDING", "APPROVED", "REJECTED"} \subseteq Counted
  BY ReportFields
<1>1. StatsOK(r)'
  <2> SUFFICES ASSUME report[r].kind = "stats", NEW d \in Decision
               PROVE  /\ report[r].todo = <<"bankers">> =>
                           report[r].counts[d] <= Cardinality(WithStatus(Saved, d)')
                      /\ report[r].todo = <<>> =>
                           report[r].counts[d] <=
                             report[r].decisions[d] + Cardinality(Unlisted(d)')
    BY DEF StatsOK
  <2>1. /\ Cardinality(WithStatus(Saved, d)) <= Cardinality(WithStatus(Saved, d)')
        /\ Cardinality(Unlisted(d)) <= Cardinality(Unlisted(d)')
    BY CountsGrow
  <2>2. /\ Cardinality(WithStatus(Saved, d)) \in Nat /\ Cardinality(Unlisted(d)) \in Nat
        /\ Cardinality(WithStatus(Saved, d)') \in Nat
        /\ Cardinality(Unlisted(d)') \in Nat
        /\ report[r].counts[d] \in Nat /\ report[r].decisions[d] \in Nat
    BY <1>0, CountsAreNumbers
  <2>3. /\ report[r].todo = <<"bankers">> =>
             report[r].counts[d] <= Cardinality(WithStatus(Saved, d))
        /\ report[r].todo = <<>> =>
             report[r].counts[d] <= report[r].decisions[d] + Cardinality(Unlisted(d))
    BY DEF ReportOK, StatsOK
  <2> QED
    BY <2>1, <2>2, <2>3
<1>2. CountsOK(r)'
  <2>0. PICK u : u = report[r].user
    OBVIOUS
  <2> DEFINE c == report[r].counts
  <2> SUFFICES ASSUME report[r].todo \in {<<"list">>, <<"list", "audit">>}
               PROVE  /\ c["sent"] <= Cardinality(Sent(u)')
                      /\ c["received"] <= Cardinality(Received(u)')
                      /\ c["PENDING"] + c["APPROVED"] + c["REJECTED"]
                           <= Cardinality(Mine(u)')
                      /\ \A d \in Decision :
                           c[d] <= Cardinality(WithStatus(Mine(u), d)')
    BY <2>0 DEF CountsOK, Sent, Received, Mine, WithStatus, Saved
  <2>1. /\ c["sent"] <= Cardinality(Sent(u))
        /\ c["received"] <= Cardinality(Received(u))
        /\ c["PENDING"] + c["APPROVED"] + c["REJECTED"] <= Cardinality(Mine(u))
        /\ \A d \in Decision : c[d] <= Cardinality(WithStatus(Mine(u), d))
    BY <2>0 DEF ReportOK, CountsOK
  <2>2. /\ c["sent"] \in Nat /\ c["received"] \in Nat
        /\ c["PENDING"] \in Nat /\ c["APPROVED"] \in Nat /\ c["REJECTED"] \in Nat
        /\ \A d \in Decision : c[d] \in Nat
    BY <1>0
  <2> HIDE DEF c
  <2>3. c["sent"] <= Cardinality(Sent(u)') /\ c["received"] <= Cardinality(Received(u)')
    BY <2>1, <2>2, CountsGrow, CountsAreNumbers
  <2>4. c["PENDING"] + c["APPROVED"] + c["REJECTED"] <= Cardinality(Mine(u)')
    BY <2>1, <2>2, CountsGrow, CountsAreNumbers
  <2>5. ASSUME NEW d \in Decision
        PROVE  c[d] <= Cardinality(WithStatus(Mine(u), d)')
    BY <2>1, <2>2, CountsGrow, CountsAreNumbers
  <2> QED
    BY <2>3, <2>4, <2>5
<1>3. ListOK(r)'
  BY CountedStays DEF ReportOK, ListOK, Agrees
<1>4. TrailOK(r)'
  <2> SUFFICES ASSUME report[r].kind = "history", report[r].todo = <<>>,
                      Cardinality(report[r].trail) < UserLimit(report[r].limit),
                      NEW row \in report[r].listed,
                      payments'[row.id].sender = report[r].user
               PROVE  row.id \in report[r].trail
    BY DEF TrailOK
  <2>1. row.id \in Saved
    BY DEF ReportOK, ListOK
  <2>2. payments'[row.id].sender = payments[row.id].sender
    <3>1. Kept(row.id) /\ payments[row.id].status # "ABSENT"
      BY <2>1, ReportingStepsStore, KeptStep DEF TablesOK, Saved
    <3> QED
      BY <3>1 DEF Kept
  <2> QED
    BY <2>2 DEF ReportOK, TrailOK
<1> QED
  BY <1>1, <1>2, <1>3, <1>4 DEF ReportOK

-----------------------------------------------------------------------------
\* What one report has to satisfy after a step that is about it.
Fine(r) ==
  report[r] \in ReportType /\ report[r].todo \in Todos(report[r].kind) /\ ReportOK(r)

\* The report of a request that has not been made.
LEMMA NoReportTyped ==
  /\ NoReport \in ReportType /\ NoReport.kind = "none" /\ NoReport.todo = <<>>
<1>1. 0 \in 0 .. MaxAsk /\ 0 \in 0 .. Cardinality(Payment)
  BY ReportingAssumption, StoreAssumption, FS_CardinalityType
  DEF ReportingAssumption, StoreAssumption
<1>2. <<>> \in Seq({"payments", "bankers", "counts", "list", "audit"})
  BY RestTyped
<1> QED
  BY <1>1, <1>2 DEF NoReport, ReportType

\* A report that has read nothing says nothing that could be wrong.
LEMMA BlankIsFine ==
  ASSUME NEW r \in Reader, report'[r] \in ReportType,
         \/ report'[r].kind = "none" /\ report'[r].todo = <<>>
         \/ report'[r].kind \in Kind /\ report'[r].todo = Plan(report'[r].kind)
  PROVE  Fine(r)'
<1>1. report'[r].todo \in Todos(report'[r].kind)
  BY PlanIs DEF Todos, Kind
<1>2. \/ report'[r].kind = "none" /\ report'[r].todo = <<>>
      \/ report'[r].todo \notin
           {<<>>, <<"audit">>, <<"bankers">>, <<"list">>, <<"list", "audit">>}
  BY PlansApart, PlanIs DEF Kind
<1>3. StatsOK(r)' /\ CountsOK(r)' /\ ListOK(r)' /\ TrailOK(r)'
  BY <1>2, PlansApart DEF StatsOK, CountsOK, ListOK, TrailOK
<1> QED
  BY <1>1, <1>3 DEF Fine, ReportOK

\* The first half of the statistics.
LEMMA ReadPayments ==
  ASSUME ReportsTyped, NEW r \in Reader, UNCHANGED storeVars,
         report[r].kind = "stats", report[r].todo = <<"payments", "bankers">>,
         report'[r] = [report[r] EXCEPT !.counts = PaymentStats,
                                        !.todo = <<"bankers">>]
  PROVE  Fine(r)'
<1>0. report[r] \in ReportType
  BY ReportFields
<1>1. /\ report'[r].kind = "stats" /\ report'[r].todo = <<"bankers">>
      /\ report'[r].counts = PaymentStats
  BY <1>0 DEF ReportType
<1>2. report'[r] \in ReportType
  <2>1. <<"bankers">> \in Seq({"payments", "bankers", "counts", "list", "audit"})
    BY RestTyped
  <2> QED
    BY <1>0, <2>1, CountsTyped DEF ReportType
<1>3. report'[r].todo \in Todos(report'[r].kind)
  BY <1>1 DEF Todos
<1>4. StatsOK(r)'
  <2>1. \A d : WithStatus(Saved, d)' = WithStatus(Saved, d)
    BY DEF WithStatus, Saved, storeVars
  <2>2. ASSUME NEW d \in Decision
        PROVE  report'[r].counts[d] <= Cardinality(WithStatus(Saved, d)')
    <3>1. report'[r].counts[d] = Cardinality(WithStatus(Saved, d))
      BY <1>1, StatsRead
    <3>2. Cardinality(WithStatus(Saved, d)) \in Nat
      BY CountsAreNumbers
    <3> QED
      BY <2>1, <3>1, <3>2
  <2> QED
    BY <1>1, <2>2, PlansApart DEF StatsOK
<1>5. CountsOK(r)' /\ ListOK(r)' /\ TrailOK(r)'
  BY <1>1, PlansApart DEF CountsOK, ListOK, TrailOK
<1> QED
  BY <1>2, <1>3, <1>4, <1>5 DEF Fine, ReportOK

\* The second half, read later: what the first half counted is still there.
LEMMA ReadBankers ==
  ASSUME ReportsTyped, NEW r \in Reader, ReportOK(r), UNCHANGED storeVars,
         report[r].kind = "stats", report[r].todo = <<"bankers">>,
         report'[r] = [report[r] EXCEPT !.decisions = AllBankerStats, !.todo = <<>>]
  PROVE  Fine(r)'
<1>0. report[r] \in ReportType
  BY ReportFields
<1>1. /\ report'[r].kind = "stats" /\ report'[r].todo = <<>>
      /\ report'[r].counts = report[r].counts
      /\ report'[r].decisions = AllBankerStats
  BY <1>0 DEF ReportType
<1>2. report'[r] \in ReportType
  <2>1. <<>> \in Seq({"payments", "bankers", "counts", "list", "audit"})
    BY RestTyped
  <2> QED
    BY <1>0, <2>1, CountsTyped DEF ReportType
<1>3. report'[r].todo \in Todos(report'[r].kind)
  BY <1>1 DEF Todos
<1>4. StatsOK(r)'
  <2>1. \A d : Unlisted(d)' = Unlisted(d)
    BY DEF Unlisted, WithStatus, Saved, storeVars
  <2>2. ASSUME NEW d \in Decision
        PROVE  report'[r].counts[d]
                 <= report'[r].decisions[d] + Cardinality(Unlisted(d)')
    <3>1. report[r].counts[d] <= Cardinality(WithStatus(Saved, d))
      BY DEF ReportOK, StatsOK
    <3>2. Cardinality(WithStatus(Saved, d))
            <= AllBankerStats[d] + Cardinality(Unlisted(d))
      BY StatsRead
    <3>3. /\ Cardinality(WithStatus(Saved, d)) \in Nat
          /\ Cardinality(Unlisted(d)) \in Nat /\ report[r].counts[d] \in Nat
      BY CountsAreNumbers, ReportFields
    <3>4. AllBankerStats[d] \in 0 .. Cardinality(Payment)
      BY CountsTyped
    <3>5. report[r].counts[d] <= AllBankerStats[d] + Cardinality(Unlisted(d))
      BY <3>1, <3>2, <3>3, <3>4
    <3> QED
      BY <1>1, <2>1, <3>5
  <2> QED
    BY <1>1, <2>2, PlansApart DEF StatsOK
<1>5. CountsOK(r)' /\ ListOK(r)' /\ TrailOK(r)'
  BY <1>1, PlansApart DEF CountsOK, ListOK, TrailOK
<1> QED
  BY <1>2, <1>3, <1>4, <1>5 DEF Fine, ReportOK

\* The counts of a profile, by itself or in a history.
LEMMA ReadCounts ==
  ASSUME ReportsTyped, NEW r \in Reader, UNCHANGED storeVars,
         report[r].kind \in {"profile", "history"},
         NEW rest \in {<<"list">>, <<"list", "audit">>},
         rest \in Todos(report[r].kind),
         report'[r] = [report[r] EXCEPT !.counts = ClientStats(report[r].user),
                                        !.todo = rest]
  PROVE  Fine(r)'
<1>0. report[r] \in ReportType
  BY ReportFields
<1>1. PICK u : u = report[r].user
  OBVIOUS
<1>2. /\ report'[r].kind = report[r].kind /\ report'[r].todo = rest
      /\ report'[r].counts = ClientStats(u) /\ report'[r].user = u
  BY <1>0, <1>1 DEF ReportType
<1>3. report'[r] \in ReportType
  <2>1. rest \in Seq({"payments", "bankers", "counts", "list", "audit"})
    BY RestTyped
  <2>2. ClientStats(u) \in [Counted -> 0 .. Cardinality(Payment)]
    BY CountsTyped
  <2> QED
    BY <1>0, <1>1, <2>1, <2>2 DEF ReportType
<1>4. report'[r].todo \in Todos(report'[r].kind)
  BY <1>2
<1>5. CountsOK(r)'
  <2>1. /\ Sent(u)' = Sent(u) /\ Received(u)' = Received(u) /\ Mine(u)' = Mine(u)
        /\ \A d : WithStatus(Mine(u), d)' = WithStatus(Mine(u), d)
    BY DEF WithStatus, Saved, Sent, Received, Mine, storeVars
  <2> DEFINE c == report'[r].counts
  <2>2. /\ c["sent"] <= Cardinality(Sent(u)')
        /\ c["received"] <= Cardinality(Received(u)')
    BY <1>2, <2>1, CountsRead, CountsAreNumbers
  <2>3. c["PENDING"] + c["APPROVED"] + c["REJECTED"] <= Cardinality(Mine(u)')
    BY <1>2, <2>1, CountsRead
  <2>4. ASSUME NEW d \in Decision
        PROVE  c[d] <= Cardinality(WithStatus(Mine(u), d)')
    BY <1>2, <2>1, CountsRead, CountsAreNumbers
  <2> QED
    BY <1>2, <2>2, <2>3, <2>4
    DEF CountsOK, WithStatus, Saved, Sent, Received, Mine
<1>6. StatsOK(r)' /\ ListOK(r)' /\ TrailOK(r)'
  BY <1>2, PlansApart DEF StatsOK, ListOK, TrailOK
<1> QED
  BY <1>3, <1>4, <1>5, <1>6 DEF Fine, ReportOK

\* The list of a profile, read after its counts.
LEMMA ReadList ==
  ASSUME TablesOK, ReportsTyped, NEW r \in Reader, ReportOK(r), UNCHANGED storeVars,
         report[r].kind \in {"profile", "history"},
         report[r].todo \in {<<"list">>, <<"list", "audit">>},
         NEW rest \in {<<>>, <<"audit">>}, rest \in Todos(report[r].kind),
         rest = <<>> => report[r].kind = "profile",
         report'[r] = [report[r] EXCEPT !.listed = PaymentsForUser(report[r].user),
                                        !.todo = rest]
  PROVE  Fine(r)'
<1>0. report[r] \in ReportType
  BY ReportFields
<1>1. PICK u : u = report[r].user
  OBVIOUS
<1>2. /\ report'[r].kind = report[r].kind /\ report'[r].todo = rest
      /\ report'[r].counts = report[r].counts /\ report'[r].user = u
      /\ report'[r].listed = PaymentsForUser(u)
  BY <1>0, <1>1 DEF ReportType
<1>3. report'[r] \in ReportType
  <2>1. rest \in Seq({"payments", "bankers", "counts", "list", "audit"})
    BY RestTyped
  <2>2. PaymentsForUser(u)
          \in SUBSET [id : Payment, status : ResultStatus \cup {"ABSENT"}]
    BY ListRead
  <2> QED
    BY <1>0, <1>1, <2>1, <2>2 DEF ReportType
<1>4. report'[r].todo \in Todos(report'[r].kind)
  BY <1>2
<1>5. ListOK(r)'
  <2> DEFINE c == report[r].counts
             L == PaymentsForUser(u)
  <2>1. /\ c["sent"] <= Cardinality(Sent(u))
        /\ c["received"] <= Cardinality(Received(u))
        /\ c["PENDING"] + c["APPROVED"] + c["REJECTED"] <= Cardinality(Mine(u))
        /\ \A d \in Decision : c[d] <= Cardinality(WithStatus(Mine(u), d))
    BY <1>1 DEF ReportOK, CountsOK
  <2>2. c["sent"] \in Nat /\ c["received"] \in Nat
    BY ReportFields
  <2>3. Cardinality(Sent(u)) <= Cardinality(Mine(u))
        /\ Cardinality(Received(u)) <= Cardinality(Mine(u))
    <3>1. /\ Mine(u) \in SUBSET Payment /\ Sent(u) \in SUBSET Mine(u)
          /\ Received(u) \in SUBSET Mine(u)
      BY DEF Mine, Sent, Received, Saved
    <3> QED
      BY <3>1, PaymentSets
  <2> HIDE DEF c
  <2>4. ASSUME Cardinality(L) < ListLimit
        PROVE  /\ c["sent"] <= Cardinality(L)
               /\ c["received"] <= Cardinality(L)
               /\ c["PENDING"] + c["APPROVED"] + c["REJECTED"] <= Cardinality(L)
               /\ \A d \in Decision : c[d] <= Cardinality({row \in L : row.status = d})
    <3>1. /\ Cardinality(L) = Cardinality(Mine(u))
          /\ \A d \in Decision : Cardinality({row \in L : row.status = d})
                                 = Cardinality(WithStatus(Mine(u), d))
      BY <2>4, ListRead
    <3> HIDE DEF L
    <3>2. c["sent"] <= Cardinality(L) /\ c["received"] <= Cardinality(L)
      BY <2>1, <2>2, <2>3, <3>1, CountsAreNumbers
    <3> QED
      BY <2>1, <3>1, <3>2
  <2>5. \A row \in L : row.id \in Saved
    BY ListRead
  <2> HIDE DEF L
  <2>6. Cardinality(L) < ListLimit => Agrees(r)'
    BY <1>2, <2>4 DEF Agrees, c, L
  <2>7. \A row \in L : row.id \in Saved'
    BY <2>5 DEF Saved, storeVars
  <2> QED
    BY <1>2, <2>6, <2>7 DEF ListOK, L
<1>6. StatsOK(r)' /\ CountsOK(r)' /\ TrailOK(r)'
  BY <1>2, PlansApart DEF StatsOK, CountsOK, TrailOK
<1> QED
  BY <1>3, <1>4, <1>5, <1>6 DEF Fine, ReportOK

\* The audit entries of a history, read after its list.
LEMMA ReadAudit ==
  ASSUME TablesOK, ReportsTyped, NEW r \in Reader, ReportOK(r), UNCHANGED storeVars,
         report[r].kind = "history", report[r].todo = <<"audit">>,
         report'[r] = [report[r] EXCEPT
           !.trail = AuditForUser(report[r].user, report[r].limit), !.todo = <<>>]
  PROVE  Fine(r)'
<1>0. report[r] \in ReportType
  BY ReportFields
<1>1. PICK u \in User \cup {NoUser}, n \in 0 .. MaxAsk :
        u = report[r].user /\ n = report[r].limit
  BY <1>0 DEF ReportType
<1>2. /\ report'[r].kind = "history" /\ report'[r].todo = <<>>
      /\ report'[r].counts = report[r].counts /\ report'[r].user = u
      /\ report'[r].listed = report[r].listed /\ report'[r].limit = n
      /\ report'[r].trail = AuditForUser(u, n)
  BY <1>0, <1>1 DEF ReportType
<1>3. report'[r] \in ReportType
  <2>1. <<>> \in Seq({"payments", "bankers", "counts", "list", "audit"})
    BY RestTyped
  <2>2. AuditForUser(u, n) \subseteq Payment
    BY TrailRead
  <2> QED
    BY <1>0, <1>1, <2>1, <2>2 DEF ReportType
<1>4. report'[r].todo \in Todos(report'[r].kind)
  BY <1>2 DEF Todos
<1>5. ListOK(r)'
  BY <1>2 DEF ReportOK, ListOK, Agrees, Saved, storeVars
<1>6. TrailOK(r)'
  <2> SUFFICES ASSUME Cardinality(AuditForUser(u, n)) < UserLimit(n),
                      NEW row \in report[r].listed, payments[row.id].sender = u
               PROVE  row.id \in AuditForUser(u, n)
    BY <1>2 DEF TrailOK, storeVars
  <2>1. row.id \in Saved
    BY DEF ReportOK, ListOK
  <2> QED
    BY <2>1, TrailRead
<1>7. StatsOK(r)' /\ CountsOK(r)'
  BY <1>2, PlansApart DEF StatsOK, CountsOK
<1> QED
  BY <1>3, <1>4, <1>5, <1>6, <1>7 DEF Fine, ReportOK

\* A statement of a report, whichever comes next in its plan.
LEMMA ReadStep ==
  ASSUME TablesOK, ReportsTyped, NEW r \in Reader, ReportOK(r), Read(r)
  PROVE  Fine(r)'
<1>0. /\ report[r] \in ReportType /\ report[r].todo # <<>>
      /\ report[r].todo \in Todos(report[r].kind) /\ UNCHANGED storeVars
      /\ report'[r] = [Filled(report[r], Head(report[r].todo))
                         EXCEPT !.todo = Tail(report[r].todo)]
  <2>1. report[r] \in ReportType /\ report[r].todo \in Todos(report[r].kind)
    BY DEF ReportsTyped
  <2>2. report'[r] = [Filled(report[r], Head(report[r].todo))
                        EXCEPT !.todo = Tail(report[r].todo)]
    BY DEF Read, ReportsTyped
  <2> QED
    BY <2>1, <2>2 DEF Read
<1>1. CASE report[r].kind = "stats"
  <2>1. \/ report[r].todo = <<"payments", "bankers">>
        \/ report[r].todo = <<"bankers">>
    BY <1>0, <1>1 DEF Todos
  <2>2. CASE report[r].todo = <<"payments", "bankers">>
    <3>1. report'[r] = [report[r] EXCEPT !.counts = PaymentStats,
                                         !.todo = <<"bankers">>]
      BY <1>0, <2>2, Plans DEF Filled
    <3> QED
      BY <1>0, <1>1, <2>2, <3>1, ReadPayments
  <2>3. CASE report[r].todo = <<"bankers">>
    <3>1. report'[r] = [report[r] EXCEPT !.decisions = AllBankerStats, !.todo = <<>>]
      BY <1>0, <2>3, Plans DEF Filled
    <3> QED
      BY <1>0, <1>1, <2>3, <3>1, ReadBankers
  <2> QED
    BY <2>1, <2>2, <2>3
<1>2. CASE report[r].kind = "profile"
  <2>1. report[r].todo = <<"counts", "list">> \/ report[r].todo = <<"list">>
    BY <1>0, <1>2 DEF Todos
  <2>2. CASE report[r].todo = <<"counts", "list">>
    <3>1. report'[r] = [report[r] EXCEPT !.counts = ClientStats(report[r].user),
                                         !.todo = <<"list">>]
      BY <1>0, <2>2, Plans DEF Filled
    <3>2. <<"list">> \in Todos(report[r].kind)
      BY <1>2 DEF Todos
    <3> QED
      BY <1>0, <1>2, <3>1, <3>2, ReadCounts
  <2>3. CASE report[r].todo = <<"list">>
    <3>1. report'[r] = [report[r] EXCEPT !.listed = PaymentsForUser(report[r].user),
                                         !.todo = <<>>]
      BY <1>0, <2>3, Plans DEF Filled
    <3>2. <<>> \in Todos(report[r].kind)
      BY <1>2 DEF Todos
    <3> QED
      BY <1>0, <1>2, <2>3, <3>1, <3>2, ReadList
  <2> QED
    BY <2>1, <2>2, <2>3
<1>3. CASE report[r].kind = "history"
  <2>1. \/ report[r].todo = <<"counts", "list", "audit">>
        \/ report[r].todo = <<"list", "audit">>
        \/ report[r].todo = <<"audit">>
    BY <1>0, <1>3 DEF Todos
  <2>2. CASE report[r].todo = <<"counts", "list", "audit">>
    <3>1. report'[r] = [report[r] EXCEPT !.counts = ClientStats(report[r].user),
                                         !.todo = <<"list", "audit">>]
      BY <1>0, <2>2, Plans DEF Filled
    <3>2. <<"list", "audit">> \in Todos(report[r].kind)
      BY <1>3 DEF Todos
    <3> QED
      BY <1>0, <1>3, <3>1, <3>2, ReadCounts
  <2>3. CASE report[r].todo = <<"list", "audit">>
    <3>1. report'[r] = [report[r] EXCEPT !.listed = PaymentsForUser(report[r].user),
                                         !.todo = <<"audit">>]
      BY <1>0, <2>3, Plans DEF Filled
    <3>2. <<"audit">> \in Todos(report[r].kind) /\ <<"audit">> # <<>>
      BY <1>3, Plans DEF Todos
    <3> QED
      BY <1>0, <1>3, <2>3, <3>1, <3>2, ReadList
  <2>4. CASE report[r].todo = <<"audit">>
    <3>1. report'[r] = [report[r] EXCEPT
             !.trail = AuditForUser(report[r].user, report[r].limit), !.todo = <<>>]
      BY <1>0, <2>4, Plans DEF Filled
    <3> QED
      BY <1>0, <1>3, <2>4, <3>1, ReadAudit
  <2> QED
    BY <2>1, <2>2, <2>3, <2>4
<1>4. CASE report[r].kind = "none"
  BY <1>0, <1>4 DEF Todos
<1> QED
  BY <1>0, <1>1, <1>2, <1>3, <1>4 DEF ReportType, Kind

\* A report that is asked for has its plan, and nothing read.
LEMMA AskedTyped ==
  ASSUME NEW r \in Reader, Asks(r)
  PROVE  \E v \in ReportType : /\ report' = [report EXCEPT ![r] = v]
                              /\ v.kind \in Kind /\ v.todo = Plan(v.kind)
<1>1. \A k \in Kind :
        Plan(k) \in Seq({"payments", "bankers", "counts", "list", "audit"})
  BY PlanTyped
<1>2. CASE AskStats(r)
  <2> DEFINE v == [NoReport EXCEPT !.kind = "stats", !.todo = StatsPlan]
  <2>1. Plan("stats") = StatsPlan /\ "stats" \in Kind
    BY DEF Plan, Kind
  <2>2. v \in ReportType /\ v.kind = "stats" /\ v.todo = StatsPlan
    BY <1>1, <2>1, NoReportTyped DEF ReportType, Kind
  <2> QED
    BY <1>2, <2>1, <2>2 DEF AskStats
<1>3. ASSUME NEW u \in User \ Banker, AskProfile(r, u)
      PROVE  \E v \in ReportType : /\ report' = [report EXCEPT ![r] = v]
                                  /\ v.kind \in Kind /\ v.todo = Plan(v.kind)
  <2> DEFINE v == [NoReport EXCEPT !.kind = "profile", !.user = u,
                                   !.todo = ProfilePlan]
  <2>1. Plan("profile") = ProfilePlan /\ "profile" \in Kind
    BY DEF Plan, Kind
  <2>2. v \in ReportType /\ v.kind = "profile" /\ v.todo = ProfilePlan
    BY <1>1, <2>1, NoReportTyped DEF ReportType, Kind
  <2> QED
    BY <1>3, <2>1, <2>2 DEF AskProfile
<1>4. ASSUME NEW u \in User \ Banker, NEW n \in Ask, AskHistory(r, u, n)
      PROVE  \E v \in ReportType : /\ report' = [report EXCEPT ![r] = v]
                                  /\ v.kind \in Kind /\ v.todo = Plan(v.kind)
  <2> DEFINE v == [NoReport EXCEPT !.kind = "history", !.user = u,
                                   !.todo = HistoryPlan, !.limit = queryLimit(n)]
  <2>1. Plan("history") = HistoryPlan /\ "history" \in Kind
    BY DEF Plan, Kind
  <2>2. queryLimit(n) \in 0 .. MaxAsk
    BY LimitsTyped
  <2>3. v \in ReportType /\ v.kind = "history" /\ v.todo = HistoryPlan
    BY <1>1, <2>1, <2>2, NoReportTyped DEF ReportType, Kind
  <2> QED
    BY <1>4, <2>1, <2>3 DEF AskHistory
<1> QED
  BY <1>2, <1>3, <1>4 DEF Asks

\* Every report, in every step.
LEMMA ReportsStep ==
  ASSUME TablesOK, ReportsTyped, \A r \in Reader : ReportOK(r), [ReportingNext]_vars
  PROVE  ReportsTyped' /\ \A r \in Reader : ReportOK(r)'
<1>0. report \in [Reader -> ReportType]
  BY DEF ReportsTyped
<1>1. ASSUME NEW r \in Reader, report'[r] = report[r]
      PROVE  Fine(r)'
  BY <1>1, ReportStays DEF Fine, ReportsTyped
<1>2. ASSUME report' \in [Reader -> ReportType], \A r \in Reader : Fine(r)'
      PROVE  ReportsTyped' /\ \A r \in Reader : ReportOK(r)'
  BY <1>2 DEF Fine, ReportsTyped
<1>3. ASSUME NEW r \in Reader, Fine(r)', NEW v, report' = [report EXCEPT ![r] = v]
      PROVE  ReportsTyped' /\ \A q \in Reader : ReportOK(q)'
  <2>1. \A q \in Reader \ {r} : report'[q] = report[q]
    BY <1>0, <1>3
  <2>2. \A q \in Reader : Fine(q)'
    BY <1>1, <1>3, <2>1
  <2>3. report'[r] = v /\ v \in ReportType
    BY <1>0, <1>3 DEF Fine
  <2> QED
    BY <1>0, <1>2, <1>3, <2>2, <2>3
<1>4. CASE UNCHANGED report
  BY <1>0, <1>1, <1>2, <1>4
<1>5. ASSUME NEW r \in Reader, Asks(r)
      PROVE  ReportsTyped' /\ \A q \in Reader : ReportOK(q)'
  <2>1. PICK v \in ReportType : /\ report' = [report EXCEPT ![r] = v]
                               /\ v.kind \in Kind /\ v.todo = Plan(v.kind)
    BY <1>5, AskedTyped
  <2>2. report'[r] = v
    BY <1>0, <2>1
  <2>3. Fine(r)'
    BY <2>1, <2>2, BlankIsFine
  <2> QED
    BY <1>3, <2>1, <2>3
<1>6. ASSUME NEW r \in Reader, Read(r)
      PROVE  ReportsTyped' /\ \A q \in Reader : ReportOK(q)'
  BY <1>3, <1>6, ReadStep DEF Read
<1>7. ASSUME NEW r \in Reader, Finish(r)
      PROVE  ReportsTyped' /\ \A q \in Reader : ReportOK(q)'
  <2>1. report' = [report EXCEPT ![r] = NoReport] /\ report'[r] = NoReport
    BY <1>0, <1>7 DEF Finish
  <2>2. Fine(r)'
    BY <2>1, NoReportTyped, BlankIsFine
  <2> QED
    BY <1>3, <2>1, <2>2
<1>8. CASE \/ \E p \in Payment :
               \/ \E s \in User, u \in User, a \in Amount : Create(p, s, u, a)
               \/ \E st \in ResultStatus : Process(p, st)
               \/ \E b \in Banker, st \in Decision : Decide(b, p, st)
           \/ Look
  BY <1>4, <1>8 DEF Create, Process, Decide, Look
<1>9. CASE UNCHANGED vars
  BY <1>4, <1>9 DEF vars
<1> QED
  BY <1>5, <1>6, <1>7, <1>8, <1>9 DEF ReportingNext, Asks

-----------------------------------------------------------------------------
\* The invariant holds in every state of a run.
LEMMA ReportingInvAlways == ReportingSpec => []ReportingInv
<1>1. ReportingInit => ReportingInv
  <2> SUFFICES ASSUME ReportingInit PROVE ReportingInv
    OBVIOUS
  <2>1. Saved = {}
    BY DEF ReportingInit, StoreInit, Saved, Absent
  <2>2. TablesOK
    <3>1. StoreTypeOK
      BY WrittenValuesTyped DEF ReportingInit, StoreInit, StoreTypeOK
    <3>2. \A p \in Payment : Explained(p)
      BY DEF ReportingInit, StoreInit, Explained, Absent
    <3>3. born \in Seq(Payment) /\ Len(born) = 0 /\ Range(born) = {} /\ shown = {}
      BY DEF ReportingInit, Range
    <3>4. Cardinality(Saved) = 0
      BY <2>1, FS_EmptySet
    <3> QED
      BY <2>1, <3>1, <3>2, <3>3, <3>4 DEF TablesOK
  <2>3. ReportsTyped
    BY NoReportTyped DEF ReportingInit, ReportsTyped, Todos
  <2>4. ASSUME NEW r \in Reader PROVE ReportOK(r)
    <3>1. report[r].kind = "none" /\ report[r].todo = <<>>
      BY NoReportTyped DEF ReportingInit
    <3> QED
      BY <3>1, PlansApart DEF ReportOK, StatsOK, CountsOK, ListOK, TrailOK
  <2> QED
    BY <2>2, <2>3, <2>4 DEF ReportingInv
<1>2. ReportingInv /\ [ReportingNext]_vars => ReportingInv'
  BY TablesStep, ReportsStep DEF ReportingInv
<1> QED
  BY <1>1, <1>2, PTL DEF ReportingSpec

\* People read the tables that PaymentStore describes: the audit log explains
\* them and the statistics agree with it, as in every run of the store.
THEOREM ReportingImplementsStore == ReportingSpec => StoreSpec
<1>1. ReportingInit => StoreInit
  BY DEF ReportingInit
<1> QED
  BY <1>1, ReportingStepsStore, PTL DEF ReportingSpec, StoreSpec

\* The order of created_at has each saved payment once, screens show saved
\* payments, and what reports have counted stays in its range.
THEOREM ReportingTypeCorrect == ReportingSpec => []ReportingTypeOK
<1>1. ReportingInv => ReportingTypeOK
  BY DEF ReportingInv, TablesOK, ReportsTyped, ReportType, ReportingTypeOK
<1> QED
  BY <1>1, ReportingInvAlways, PTL

\* No decision that the first half of the statistics counts is missing from the
\* second, but for those the second never lists.
THEOREM StatsAlwaysAccount == ReportingSpec => []StatsAccountForDecisions
<1>1. ReportingInv => StatsAccountForDecisions
  BY DEF ReportingInv, ReportOK, StatsOK, StatsAccountForDecisions, Answered, Unlisted
<1> QED
  BY <1>1, ReportingInvAlways, PTL

\* A profile whose list is not cut shows all that it counts.
THEOREM ProfileAlwaysAgrees == ReportingSpec => []ProfileAgrees
<1>1. ReportingInv => ProfileAgrees
  BY DEF ReportingInv, ReportOK, ListOK, Agrees, ProfileAgrees, Answered, ListedAs
<1> QED
  BY <1>1, ReportingInvAlways, PTL

\* A history whose trail is not cut explains what it lists.
THEOREM HistoryAlwaysExplained == ReportingSpec => []HistoryIsExplained
<1>1. ReportingInv => HistoryIsExplained
  BY DEF ReportingInv, ReportOK, TrailOK, HistoryIsExplained, Answered
<1> QED
  BY <1>1, ReportingInvAlways, PTL
=============================================================================
